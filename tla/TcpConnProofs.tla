---------------------------- MODULE TcpConnProofs ----------------------------
(***************************************************************************)
(* Connection management, for any number of clients, blocks, probes,       *)
(* retransmissions and losses.  The invariant is about one connection at a *)
(* time (Link): the client's sock and its references, the child at the     *)
(* server, what the two know of each other, and the segments under way.    *)
(* The connections meet only in the accept queue and in the server's       *)
(* application.                                                            *)
(***************************************************************************)
EXTENDS TcpConn, SequenceTheorems, FiniteSetTheorems, TLAPS

-----------------------------------------------------------------------------
(* The inductive invariant. *)

\* the records that socks and segments are
SockRec ==
  [state : States, hash : Nodes, bind : Nodes, ref : Nat, freed : BOOLEAN,
   snd_una : Nat, snd_nxt : Nat, rcv_nxt : Nat, ring : Nat, buf : SUBSET Nat,
   persist : BOOLEAN, retrans : BOOLEAN, cnt : Nat, timewait : BOOLEAN, probes : Nat]
SegRec == [flags : SUBSET {"SYN", "ACK", "FIN", "PSH"}, seq : Nat, ack : Nat, len : {0, 1}]

Socks == [Conns -> [c : SockRec, s : SockRec]]
Chans == [Conns -> [c : Seq(SegRec), s : Seq(SegRec)]]

\* the segments of a channel
In(q) == {q[i] : i \in 1..Len(q)}

Count(b) == IF b THEN 1 ELSE 0
\* the references a client's sock has, when none was dropped too many: its port,
\* twice, its place in the table of connections, and its timers
Owed(c) == 3 + Count(c.persist) + Count(c.retrans) + Count(c.timewait)

Shut == {"closing", "done"}
Using == {"write", "close"} \cup Shut
Waiting == {"connecting", "asleep", "connected"}
ClientPcs == {"start"} \cup Waiting \cup Using

\* A client's sock c, while its application is at p.
ClientSock(c, p) ==
  /\ ~c.freed /\ c.ring = 0 /\ c.cnt <= MaxRetrans /\ c.snd_una <= c.snd_nxt
  /\ c.buf \subseteq 1..MaxData /\ (\A q \in c.buf : q < c.snd_nxt)
  /\ c.retrans => c.buf # {} /\ p \in Using
  /\ c.persist => c.snd_una = 1 /\ c.rcv_nxt >= 1 /\ p # "start"
  /\ c.timewait => p = "done" /\ c.state \in {"CLOSING", "TIME_WAIT", "CLOSED"}
  /\ p = "start" => c = alloc_tcp_sock
  /\ p \in Waiting => c.state \in {"SYN_SENT", "ESTABLISHED"} /\ c.snd_nxt = 1 /\ c.buf = {}
  /\ c.state = "SYN_SENT" => p \in Waiting /\ ~c.persist /\ c.snd_una = 0
  /\ p \in {"write", "close"} => c.state \in {"ESTABLISHED", "CLOSED"} /\ c.snd_nxt <= MaxData + 1
  /\ c.state \in {"CLOSE_WAIT", "LAST_ACK"} => p \in Shut
  /\ c.state \in Closing => p = "done"
  /\ c.state \notin {"NONE", "LISTEN", "SYN_RECV"}
  /\ c.state \in {"ESTABLISHED", "CLOSE_WAIT"} => c.snd_nxt <= MaxData + 2
  /\ c.snd_nxt <= MaxData + 3
  /\ p # "start" => c.bind = "self" /\ c.hash \in {"linked", "gone"} /\ c.snd_nxt >= 1

\* Its references.
ClientRefs(c, p) ==
  p # "start" =>
    /\ c.ref <= Owed(c) /\ c.ref + 2 >= Owed(c)
    /\ p # "done" => /\ c.ref + 1 >= Owed(c)
                     /\ c.ref # Owed(c) => c.state = "CLOSED" /\ c.buf # {} /\ ~c.retrans
    /\ c.retrans => c.ref + 1 >= Owed(c)

\* A child s of the server, g blocks of which the application has read.
ServerSock(s, g) ==
  /\ s.state \in {"NONE", "SYN_RECV", "ESTABLISHED", "CLOSE_WAIT", "LAST_ACK", "CLOSED"}
  /\ ~s.freed /\ s.buf = {} /\ ~s.retrans /\ s.cnt = 0 /\ s.bind = "null"
  /\ s.snd_una <= s.snd_nxt /\ s.snd_nxt <= 2
  /\ s.hash = IF s.state = "NONE" THEN "null" ELSE "linked"
  /\ s.ref = Count(s.state # "NONE") + Count(s.persist)
  /\ s.persist => s.snd_una = 1 /\ s.state \notin {"NONE", "SYN_RECV"}
  /\ s.state = "NONE" => g = 0
  /\ s.state # "NONE" => s.rcv_nxt >= 1
  /\ s.state \in {"SYN_RECV", "ESTABLISHED", "CLOSE_WAIT"} => s.snd_nxt = 1
  /\ s.state = "SYN_RECV" => s.rcv_nxt = 1
  /\ s.state \in {"SYN_RECV", "ESTABLISHED"} => s.ring + g + 1 = s.rcv_nxt
  /\ s.ring + g <= MaxData

\* What the two ends know of each other.
EndsFit(c, s, p) ==
  /\ p = "start" => s.state = "NONE"
  /\ c.state \in {"ESTABLISHED", "CLOSE_WAIT", "LAST_ACK"} \cup Closing \/ p \in Using
       => s.state # "NONE" /\ c.rcv_nxt >= 1
  /\ c.state = "SYN_SENT" => s.state \in {"NONE", "SYN_RECV"}
  /\ s.state \in {"SYN_RECV", "ESTABLISHED"} => s.rcv_nxt <= c.snd_nxt
  /\ s.state \in {"CLOSE_WAIT", "LAST_ACK", "CLOSED"} => p \in Shut
  /\ c.state \in {"TIME_WAIT", "CLOSING"} => s.state \in {"LAST_ACK", "CLOSED"}

\* A segment under way to the server.
ToServer(seg, c, p) ==
  /\ p # "start" /\ seg.seq <= c.snd_nxt
  /\ "ACK" \in seg.flags => seg.ack >= 1 /\ c.state # "SYN_SENT"
  /\ "SYN" \in seg.flags => seg.seq = 0
  /\ seg.len = 1 => seg.seq <= MaxData /\ seg.seq < c.snd_nxt /\ "SYN" \notin seg.flags
  /\ "FIN" \in seg.flags => p \in Shut

\* A segment under way to the client.
ToClient(seg, s) ==
  /\ s.state # "NONE" /\ seg.ack >= 1
  /\ seg.len = 1 => seg.seq = 0
  /\ "FIN" \in seg.flags => s.state \in {"LAST_ACK", "CLOSED"}

\* The two ends of a connection and what is under way between them.
Link(c, s, toC, toS, p, g) ==
  /\ c \in SockRec /\ s \in SockRec /\ g \in Nat /\ toC \subseteq SegRec /\ toS \subseteq SegRec
  /\ p \in ClientPcs
  /\ ClientSock(c, p) /\ ClientRefs(c, p) /\ ServerSock(s, g) /\ EndsFit(c, s, p)
  /\ \A seg \in toC : ToClient(seg, s)
  /\ \A seg \in toS : ToServer(seg, c, p)

\* Blocks of connection k that the application has read.
ReadOf(k) == IF k \in accepted THEN got ELSE 0

LinkInv == \A k \in Conns : Link(sk[k].c, sk[k].s, In(chan[k].c), In(chan[k].s), cpc[k], ReadOf(k))

Accepting == {"bind", "listen", "accept", "to_sleep", "asleep", "dequeue"}
Reading == {"read", "read_loop", "read_sleep", "read_asleep", "close", "closing", "done"}

ListenSock ==
  /\ lsn \in SockRec
  /\ ~lsn.retrans /\ lsn.buf = {} /\ lsn.snd_una = 0 /\ lsn.snd_nxt = 0 /\ lsn.ring = 0 /\ lsn.cnt = 0
  /\ lsn.ref = CASE spc = "bind" -> 0 [] spc = "listen" -> 1 [] spc \in Reading -> 3 [] OTHER -> 2

QueueInv ==
  /\ queue \in Seq(Conns)
  /\ \A k \in accepted \cup In(queue) : sk[k].s.state # "NONE"
  /\ spc \in Accepting => accepted = {} /\ got = 0
  /\ spc \in Reading => \E k \in Conns : accepted = {k}

AcceptInv ==
  spc \in Accepting =>
    /\ rx => queue # <<>>
    /\ ~wacc.dead /\ (wacc.notified => queue # <<>>)
    /\ spc = "asleep" /\ App \notin wacc.waiters => queue # <<>>
    /\ spc = "dequeue" => queue # <<>>

WaitOK(w) ==
  /\ w \in WaitStructs({App})
  /\ w.waiters # {} => w.sleep /\ ~w.notified /\ ~w.dead

ReadInv ==
  /\ \A k \in Conns : WaitOK(wrecv[k])
  /\ spc = "read_sleep" /\ sk[Mine].s.state = "CLOSE_WAIT" => SleepReturnsAtOnce(wrecv[Mine])
  /\ ReaderSeesFin
  /\ spc = "closing" => sk[Mine].s.state \in {"LAST_ACK", "CLOSED"} /\ sk[Mine].s.snd_nxt = 1

Shape ==
  /\ sk \in Socks /\ chan \in Chans
  /\ cpc \in [Conns -> ClientPcs]
  /\ spc \in Accepting \cup Reading
  /\ got \in Nat /\ rx \in BOOLEAN
  /\ wacc \in WaitStructs({App})
  /\ wrecv \in [Conns -> WaitStructs({App})]
  /\ dead \subseteq Conns \cup {Server}

IInv == Shape /\ LinkInv /\ ListenSock /\ QueueInv /\ AcceptInv /\ ReadInv

-----------------------------------------------------------------------------
(***************************************************************************)
(* What the operations on a sock do, field by field.                       *)
(***************************************************************************)
Fields ==
  {"state", "hash", "bind", "ref", "freed", "snd_una", "snd_nxt", "rcv_nxt", "ring",
   "buf", "persist", "retrans", "cnt", "timewait", "probes"}

\* t agrees with s on all fields but those of F
Keeps(t, s, F) == \A f \in Fields \ F : t[f] = s[f]

\* The fields of a sock may be changed one by one.
LEMMA SockExcept ==
  ASSUME NEW s \in SockRec
  PROVE  /\ \A v \in States : [s EXCEPT !.state = v] \in SockRec
         /\ \A v \in Nodes : [s EXCEPT !.hash = v] \in SockRec
         /\ \A v \in Nodes : [s EXCEPT !.bind = v] \in SockRec
         /\ \A v \in Nat : [s EXCEPT !.ref = v] \in SockRec
         /\ \A v \in BOOLEAN : [s EXCEPT !.freed = v] \in SockRec
         /\ \A v \in Nat : [s EXCEPT !.snd_una = v] \in SockRec
         /\ \A v \in Nat : [s EXCEPT !.snd_nxt = v] \in SockRec
         /\ \A v \in Nat : [s EXCEPT !.rcv_nxt = v] \in SockRec
         /\ \A v \in Nat : [s EXCEPT !.ring = v] \in SockRec
         /\ \A v \in SUBSET Nat : [s EXCEPT !.buf = v] \in SockRec
         /\ \A v \in BOOLEAN : [s EXCEPT !.persist = v] \in SockRec
         /\ \A v \in BOOLEAN : [s EXCEPT !.retrans = v] \in SockRec
         /\ \A v \in Nat : [s EXCEPT !.cnt = v] \in SockRec
         /\ \A v \in BOOLEAN : [s EXCEPT !.timewait = v] \in SockRec
         /\ \A v \in Nat : [s EXCEPT !.probes = v] \in SockRec
BY DEF SockRec

\* The types of a sock's fields.
LEMMA SockFields ==
  ASSUME NEW s \in SockRec
  PROVE  /\ s.state \in States /\ s.hash \in Nodes /\ s.bind \in Nodes /\ s.ref \in Nat
         /\ s.freed \in BOOLEAN /\ s.snd_una \in Nat /\ s.snd_nxt \in Nat /\ s.rcv_nxt \in Nat
         /\ s.ring \in Nat /\ s.buf \in SUBSET Nat /\ s.persist \in BOOLEAN
         /\ s.retrans \in BOOLEAN /\ s.cnt \in Nat /\ s.timewait \in BOOLEAN /\ s.probes \in Nat
BY DEF SockRec

\* UnsetRetrans: the retransmission timer is off, and its reference returned.
LEMMA UnsetRetransIs ==
  ASSUME NEW s \in SockRec, s.retrans => s.ref > 0, NEW t, t = UnsetRetrans(s)
  PROVE  /\ t \in SockRec /\ Keeps(t, s, {"retrans", "ref"})
         /\ ~t.retrans /\ t.ref = s.ref - Count(s.retrans)
<1>1. CASE s.retrans
  <2> DEFINE u == [s EXCEPT !.retrans = FALSE]
  <2>1. t = [u EXCEPT !.ref = s.ref - 1]
    BY <1>1 DEF UnsetRetrans, SockRec
  <2>2. u \in SockRec
    BY SockExcept
  <2> HIDE DEF u
  <2>3. t \in SockRec
    BY <1>1, <2>1, <2>2, SockExcept, SockFields
  <2> QED
    BY <1>1, <2>1, <2>3, SockFields DEF u, Keeps, Fields, SockRec, Count
<1>2. CASE ~s.retrans
  BY <1>2, SockFields DEF UnsetRetrans, Keeps, Count
<1> QED
  BY <1>1, <1>2


\* free_tcp_sock drops a reference, and nothing more while others are left.
LEMMA FreeIs ==
  ASSUME NEW s \in SockRec, s.ref > 1, ~s.freed, NEW t, t = free_tcp_sock(s)
  PROVE  /\ t \in SockRec /\ Keeps(t, s, {"ref", "freed"})
         /\ t.ref = s.ref - 1 /\ ~t.freed
<1> DEFINE u == [s EXCEPT !.ref = s.ref - 1]
<1>1. s.ref - 1 \in Nat /\ s.ref - 1 # 0
  BY SockFields
<1>2. t = [u EXCEPT !.freed = FALSE]
  <2> DEFINE r == IF s.ref > 0 THEN s.ref - 1 ELSE 0
  <2>1. r = s.ref - 1 /\ (s.freed \/ r = 0) = FALSE
    BY <1>1, SockFields
  <2>2. t = [s EXCEPT !.ref = r, !.freed = (s.freed \/ r = 0)]
    BY DEF free_tcp_sock
  <2> HIDE DEF r
  <2>3. t = [s EXCEPT !.ref = s.ref - 1, !.freed = FALSE]
    BY <2>1, <2>2, Zenon
  <2> QED
    BY <2>3 DEF SockRec
<1>3. u \in SockRec
  BY <1>1, SockExcept
<1> HIDE DEF u
<1>4. t \in SockRec
  BY <1>2, <1>3, SockExcept
<1> QED
  BY <1>2, <1>4 DEF u, Keeps, Fields, SockRec

\* tcp_unhash of a sock that was inserted once: its node is deleted, a
\* reference dropped.
LEMMA UnhashIs ==
  ASSUME NEW s \in SockRec, s.ref > 1, ~s.freed, s.hash # "self", NEW t, t = tcp_unhash(s)
  PROVE  /\ t \in SockRec /\ Keeps(t, s, {"hash", "ref", "freed"})
         /\ t.hash = "gone" /\ t.ref = s.ref - 1 /\ ~t.freed
<1> DEFINE u == [s EXCEPT !.hash = "gone"]
<1>1. u \in SockRec
  BY SockExcept DEF Nodes
<1>2. Keeps(u, s, {"hash"}) /\ u.hash = "gone"
  BY DEF Keeps, Fields, SockRec
<1>3. t = free_tcp_sock(u)
  BY DEF tcp_unhash
<1> HIDE DEF u
<1>4. u.ref = s.ref /\ u.freed = s.freed
  BY <1>2 DEF Keeps, Fields
<1>5. /\ t \in SockRec /\ Keeps(t, u, {"ref", "freed"}) /\ t.ref = u.ref - 1 /\ ~t.freed
  BY <1>1, <1>3, <1>4, FreeIs
<1> QED
  BY <1>2, <1>4, <1>5 DEF Keeps, Fields

\* tcp_bind_unhash of a sock that was inserted twice does nothing: its node is
\* its own successor.
LEMMA BindUnhashIs ==
  ASSUME NEW s, s.bind = "self"
  PROVE  tcp_bind_unhash(s) = s
BY DEF tcp_bind_unhash

\* tcp_update_send_buffer: what was acknowledged leaves the buffer, and the timer
\* of an empty buffer stops.
LEMMA UpdateSendBufferIs ==
  ASSUME NEW s \in SockRec, NEW ack, s.retrans => s.ref > 0,
         NEW t, t = UpdateSendBuffer(s, ack)
  PROVE  /\ t \in SockRec /\ Keeps(t, s, {"buf", "retrans", "ref", "cnt"})
         /\ t.buf = {q \in s.buf : q >= ack}
         /\ t.buf = {} => ~t.retrans
         /\ t.buf # {} => (t.retrans <=> s.retrans)
         /\ t.ref = s.ref - Count(s.retrans) + Count(t.retrans)
         /\ t.cnt \in {0, s.cnt}
<1> DEFINE rest == {q \in s.buf : q >= ack}
           u == [s EXCEPT !.buf = rest]
<1>1. rest \in SUBSET Nat
  BY SockFields
<1>2. u \in SockRec
  BY <1>1, SockExcept
<1>3. Keeps(u, s, {"buf"}) /\ u.buf = rest
  BY DEF Keeps, Fields, SockRec
<1>4. t = IF rest = {} THEN UnsetRetrans(u)
          ELSE [u EXCEPT !.cnt = IF u.retrans THEN 0 ELSE @]
  BY DEF UpdateSendBuffer
<1> HIDE DEF u
<1>5. u.retrans = s.retrans /\ u.ref = s.ref /\ u.cnt = s.cnt
  BY <1>3 DEF Keeps, Fields
<1>6. CASE rest = {}
  <2>1. /\ t \in SockRec /\ Keeps(t, u, {"retrans", "ref"})
        /\ ~t.retrans /\ t.ref = u.ref - Count(u.retrans)
    BY <1>2, <1>4, <1>5, <1>6, UnsetRetransIs
  <2>2. t.buf = rest /\ t.cnt = s.cnt
    BY <2>1, <1>3, <1>5 DEF Keeps, Fields
  <2>3. Keeps(t, s, {"buf", "retrans", "ref", "cnt"})
    BY <2>1, <1>3 DEF Keeps, Fields
  <2> QED
    BY <2>1, <2>2, <2>3, <1>5, <1>6, SockFields DEF Count
<1>7. CASE rest # {}
  <2>1. t = [u EXCEPT !.cnt = IF u.retrans THEN 0 ELSE u.cnt]
    BY <1>4, <1>7
  <2>2. (IF u.retrans THEN 0 ELSE u.cnt) \in Nat
    BY <1>2, SockFields
  <2>3. t \in SockRec
    BY <2>1, <2>2, <1>2, SockExcept
  <2>4. Keeps(t, u, {"cnt"}) /\ t.cnt \in {0, u.cnt}
    BY <2>1, <1>2 DEF Keeps, Fields, SockRec
  <2>5. t.buf = rest /\ t.retrans = s.retrans /\ t.ref = s.ref
    BY <2>4, <1>3, <1>5 DEF Keeps, Fields
  <2>6. Keeps(t, s, {"buf", "retrans", "ref", "cnt"})
    BY <2>4, <1>3 DEF Keeps, Fields
  <2> QED
    BY <2>3, <2>4, <2>5, <2>6, <1>5, <1>7, SockFields DEF Count
<1> QED
  BY <1>6, <1>7

\* tcp_update_window_safe, and the persist timer it stops when the window is open
\* or starts when it is not.
LEMMA UpdateWindowIs ==
  ASSUME NEW s \in SockRec, NEW seg \in SegRec, NEW open \in BOOLEAN,
         s.persist => s.ref > 0, NEW t, t = UpdateWindow(s, seg, open)
  PROVE  /\ t \in SockRec /\ Keeps(t, s, {"snd_una", "persist", "ref"})
         /\ t.ref = s.ref - Count(s.persist) + Count(t.persist)
         /\ \/ t.snd_una = s.snd_una /\ t.persist = s.persist
            \/ t.snd_una = seg.ack /\ t.snd_una <= s.snd_nxt /\ (t.persist <=> ~open)
<1>1. CASE ~(s.snd_una <= seg.ack /\ seg.ack <= s.snd_nxt)
  <2>1. t = s
    BY <1>1 DEF UpdateWindow
  <2> QED
    BY <2>1, SockFields DEF Keeps, Count
<1>2. CASE s.snd_una <= seg.ack /\ seg.ack <= s.snd_nxt
  <2> DEFINE r == IF open = s.persist THEN (IF open THEN s.ref - 1 ELSE s.ref + 1) ELSE s.ref
             p == ~open
             u == [s EXCEPT !.snd_una = seg.ack]
             v == [u EXCEPT !.persist = p]
  <2>1. t = [s EXCEPT !.snd_una = seg.ack, !.persist = p, !.ref = r]
    BY <1>2 DEF UpdateWindow
  <2>2. r \in Nat /\ r = s.ref - Count(s.persist) + Count(p) /\ p \in BOOLEAN
    BY SockFields DEF Count
  <2> HIDE DEF r, p
  <2>3. t = [v EXCEPT !.ref = r]
    BY <2>1 DEF SockRec
  <2>4. u \in SockRec
    BY SockExcept DEF SegRec
  <2>5. Keeps(u, s, {"snd_una"}) /\ u.snd_una = seg.ack
    BY DEF Keeps, Fields, SockRec
  <2> HIDE DEF u
  <2>6. v \in SockRec
    BY <2>2, <2>4, SockExcept
  <2>7. Keeps(v, u, {"persist"}) /\ v.persist = p
    BY <2>4 DEF Keeps, Fields, SockRec
  <2> HIDE DEF v
  <2>8. t \in SockRec
    BY <2>2, <2>3, <2>6, SockExcept
  <2>9. Keeps(t, v, {"ref"}) /\ t.ref = r
    BY <2>3, <2>6 DEF Keeps, Fields, SockRec
  <2>10. Keeps(t, s, {"snd_una", "persist", "ref"}) /\ t.snd_una = seg.ack /\ t.persist = p
    BY <2>5, <2>7, <2>9 DEF Keeps, Fields
  <2>11. t.persist <=> ~open
    BY <2>10 DEF p
  <2> QED
    BY <2>2, <2>8, <2>9, <2>10, <2>11, <1>2
<1> QED
  BY <1>1, <1>2

\* tcp_send_control_packet of a segment that takes a sequence number.
LEMMA AfterControlIs ==
  ASSUME NEW s \in SockRec, NEW fl, fl \cap {"SYN", "FIN"} # {}, NEW t, t = AfterControl(s, fl)
  PROVE  t \in SockRec /\ Keeps(t, s, {"snd_nxt"}) /\ t.snd_nxt = s.snd_nxt + 1
<1>1. t = [s EXCEPT !.snd_nxt = s.snd_nxt + 1]
  BY DEF AfterControl
<1>2. s.snd_nxt + 1 \in Nat
  BY SockFields
<1>3. t \in SockRec
  BY <1>1, <1>2, SockExcept
<1> QED
  BY <1>1, <1>3 DEF Keeps, Fields, SockRec

\* tcp_set_timewait_timer takes a reference.
LEMMA SetTimeWaitIs ==
  ASSUME NEW s \in SockRec, NEW t, t = SetTimeWait(s)
  PROVE  t \in SockRec /\ Keeps(t, s, {"timewait", "ref"}) /\ t.timewait /\ t.ref = s.ref + 1
<1> DEFINE u == [s EXCEPT !.timewait = TRUE]
<1>1. t = [u EXCEPT !.ref = s.ref + 1] /\ s.ref + 1 \in Nat
  BY SockFields DEF SetTimeWait, SockRec
<1>2. u \in SockRec
  BY SockExcept
<1>3. Keeps(u, s, {"timewait"}) /\ u.timewait = TRUE
  BY DEF Keeps, Fields, SockRec
<1> HIDE DEF u
<1>4. t \in SockRec
  BY <1>1, <1>2, SockExcept
<1>5. Keeps(t, u, {"ref"}) /\ t.ref = s.ref + 1
  BY <1>1, <1>2 DEF Keeps, Fields, SockRec
<1> QED
  BY <1>3, <1>4, <1>5 DEF Keeps, Fields

\* The first socks.
LEMMA AllocIs == alloc_tcp_sock \in SockRec /\ NoSock \in SockRec
<1>1. alloc_tcp_sock \in SockRec
  BY DEF alloc_tcp_sock, SockRec, States, Nodes
<1>2. NoSock \in SockRec
  BY <1>1, SockExcept DEF NoSock, States
<1> QED
  BY <1>1, <1>2

\* tcp_bind_hash and tcp_hash link a node and take a reference.
LEMMA BindHashIs ==
  ASSUME NEW s \in SockRec, NEW t, t = tcp_bind_hash(s)
  PROVE  /\ t \in SockRec /\ Keeps(t, s, {"bind", "ref"})
         /\ t.bind = list_add_head(s.bind) /\ t.ref = s.ref + 1
<1> DEFINE b == list_add_head(s.bind)
           u == [s EXCEPT !.bind = b]
<1>1. t = [s EXCEPT !.bind = b, !.ref = s.ref + 1]
  BY DEF tcp_bind_hash
<1>2. s.ref + 1 \in Nat /\ b \in Nodes
  BY SockFields DEF list_add_head, Nodes
<1> HIDE DEF b
<1>3. t = [u EXCEPT !.ref = s.ref + 1]
  BY <1>1 DEF SockRec
<1>4. u \in SockRec
  BY <1>2, SockExcept
<1>5. Keeps(u, s, {"bind"}) /\ u.bind = b
  BY DEF Keeps, Fields, SockRec
<1> HIDE DEF u
<1>6. t \in SockRec
  BY <1>2, <1>3, <1>4, SockExcept
<1>7. Keeps(t, u, {"ref"}) /\ t.ref = s.ref + 1
  BY <1>3, <1>4 DEF Keeps, Fields, SockRec
<1> QED
  BY <1>5, <1>6, <1>7 DEF Keeps, Fields, b

\* The same for the table of connections.
LEMMA HashIs ==
  ASSUME NEW s \in SockRec, NEW t, t = tcp_hash(s)
  PROVE  /\ t \in SockRec /\ Keeps(t, s, {"hash", "ref"})
         /\ t.hash = list_add_head(s.hash) /\ t.ref = s.ref + 1
<1> DEFINE b == list_add_head(s.hash)
           u == [s EXCEPT !.hash = b]
<1>1. t = [s EXCEPT !.hash = b, !.ref = s.ref + 1]
  BY DEF tcp_hash
<1>2. s.ref + 1 \in Nat /\ b \in Nodes
  BY SockFields DEF list_add_head, Nodes
<1> HIDE DEF b
<1>3. t = [u EXCEPT !.ref = s.ref + 1]
  BY <1>1 DEF SockRec
<1>4. u \in SockRec
  BY <1>2, SockExcept
<1>5. Keeps(u, s, {"hash"}) /\ u.hash = b
  BY DEF Keeps, Fields, SockRec
<1> HIDE DEF u
<1>6. t \in SockRec
  BY <1>2, <1>3, <1>4, SockExcept
<1>7. Keeps(t, u, {"ref"}) /\ t.ref = s.ref + 1
  BY <1>3, <1>4 DEF Keeps, Fields, SockRec
<1> QED
  BY <1>5, <1>6, <1>7 DEF Keeps, Fields, b

\* A sock in another state.
LEMMA StateIs ==
  ASSUME NEW s \in SockRec, NEW st \in States, NEW t, t = [s EXCEPT !.state = st]
  PROVE  t \in SockRec /\ Keeps(t, s, {"state"}) /\ t.state = st
<1>1. t \in SockRec
  BY SockExcept
<1> QED
  BY <1>1 DEF Keeps, Fields, SockRec

\* The sock that tcp_sock_connect leaves after the SYN.
LEMMA ConnectedIs ==
  ASSUME NEW s, s = Connected(alloc_tcp_sock), NEW t, t = AfterControl(s, {"SYN"})
  PROVE  /\ s \in SockRec /\ s.snd_nxt = 0 /\ s.rcv_nxt = 0
         /\ t \in SockRec /\ Keeps(t, alloc_tcp_sock, {"state", "hash", "bind", "ref", "snd_nxt"})
         /\ t.state = "SYN_SENT" /\ t.hash = "linked" /\ t.bind = "self" /\ t.ref = 3
         /\ t.snd_nxt = 1
<1> DEFINE a == alloc_tcp_sock
           b == tcp_bind_hash(a)
           d == tcp_bind_hash(b)
           e == [d EXCEPT !.state = "SYN_SENT"]
<1>1. a \in SockRec /\ a.bind = "null" /\ a.hash = "null" /\ a.ref = 0 /\ a.snd_nxt = 0 /\ a.rcv_nxt = 0
  BY AllocIs DEF alloc_tcp_sock
<1>2. s = tcp_hash(e)
  BY DEF Connected
<1> HIDE DEF a
<1>3. b \in SockRec /\ Keeps(b, a, {"bind", "ref"}) /\ b.bind = "linked" /\ b.ref = 1
  BY <1>1, BindHashIs DEF list_add_head
<1> HIDE DEF b
<1>4. d \in SockRec /\ Keeps(d, b, {"bind", "ref"}) /\ d.bind = "self" /\ d.ref = 2
  BY <1>3, BindHashIs DEF list_add_head
<1> HIDE DEF d
<1>5. e \in SockRec /\ Keeps(e, d, {"state"}) /\ e.state = "SYN_SENT"
  BY <1>4, StateIs DEF States
<1> HIDE DEF e
<1>6. e.hash = "null" /\ e.ref = 2
  BY <1>1, <1>3, <1>4, <1>5 DEF Keeps, Fields
<1>7. s \in SockRec /\ Keeps(s, e, {"hash", "ref"}) /\ s.hash = "linked" /\ s.ref = 3
  BY <1>2, <1>5, <1>6, HashIs DEF list_add_head
<1>8. Keeps(s, a, {"state", "hash", "bind", "ref"}) /\ s.bind = "self" /\ s.state = "SYN_SENT"
  BY <1>3, <1>4, <1>5, <1>7 DEF Keeps, Fields
<1>9. s.snd_nxt = 0 /\ s.rcv_nxt = 0
  BY <1>1, <1>8 DEF Keeps, Fields
<1>10. t \in SockRec /\ Keeps(t, s, {"snd_nxt"}) /\ t.snd_nxt = 1
  BY <1>7, <1>9, AfterControlIs
<1>11. Keeps(t, a, {"state", "hash", "bind", "ref", "snd_nxt"})
  BY <1>8, <1>10 DEF Keeps, Fields
<1>12. t.state = "SYN_SENT" /\ t.hash = "linked" /\ t.bind = "self" /\ t.ref = 3
  BY <1>7, <1>8, <1>10 DEF Keeps, Fields
<1> QED
  BY <1>7, <1>9, <1>10, <1>11, <1>12 DEF a

\* The child sock, before and after its SYN|ACK.
LEMMA NewChildIs ==
  ASSUME NEW seg \in SegRec, NEW s, s = NewChild(seg),
         NEW t, t = AfterControl(s, {"SYN", "ACK"})
  PROVE  /\ s \in SockRec /\ s.rcv_nxt = seg.seq + 1 /\ s.snd_nxt = 0
         /\ t \in SockRec
         /\ Keeps(t, alloc_tcp_sock, {"state", "rcv_nxt", "hash", "ref", "snd_nxt"})
         /\ t.state = "SYN_RECV" /\ t.hash = "linked" /\ t.ref = 1
         /\ t.snd_nxt = 1 /\ t.rcv_nxt = seg.seq + 1
<1> DEFINE a == alloc_tcp_sock
           b == [a EXCEPT !.state = "SYN_RECV"]
           d == [b EXCEPT !.rcv_nxt = seg.seq + 1]
<1>1. a \in SockRec /\ a.hash = "null" /\ a.ref = 0 /\ a.snd_nxt = 0 /\ seg.seq + 1 \in Nat
  BY AllocIs DEF alloc_tcp_sock, SegRec
<1> HIDE DEF a
<1>2. [a EXCEPT !.state = "SYN_RECV", !.rcv_nxt = seg.seq + 1] = d
  BY <1>1 DEF SockRec
<1>3. s = tcp_hash(d)
  BY <1>2 DEF NewChild, a
<1>4. b \in SockRec /\ Keeps(b, a, {"state"}) /\ b.state = "SYN_RECV"
  BY <1>1, StateIs DEF States
<1> HIDE DEF b
<1>5. d \in SockRec
  BY <1>1, <1>4, SockExcept
<1>6. Keeps(d, b, {"rcv_nxt"}) /\ d.rcv_nxt = seg.seq + 1
  BY <1>4 DEF Keeps, Fields, SockRec
<1> HIDE DEF d
<1>7. d.hash = "null" /\ d.ref = 0
  BY <1>1, <1>4, <1>6 DEF Keeps, Fields
<1>8. s \in SockRec /\ Keeps(s, d, {"hash", "ref"}) /\ s.hash = "linked" /\ s.ref = 1
  BY <1>3, <1>5, <1>7, HashIs DEF list_add_head
<1>9. /\ Keeps(s, a, {"state", "rcv_nxt", "hash", "ref"})
      /\ s.state = "SYN_RECV" /\ s.rcv_nxt = seg.seq + 1
  BY <1>4, <1>6, <1>8 DEF Keeps, Fields
<1>10. s.snd_nxt = 0
  BY <1>1, <1>9 DEF Keeps, Fields
<1>11. t \in SockRec /\ Keeps(t, s, {"snd_nxt"}) /\ t.snd_nxt = 1
  BY <1>8, <1>10, AfterControlIs
<1>12. /\ Keeps(t, a, {"state", "rcv_nxt", "hash", "ref", "snd_nxt"})
       /\ t.state = "SYN_RECV" /\ t.hash = "linked" /\ t.ref = 1 /\ t.rcv_nxt = seg.seq + 1
  BY <1>8, <1>9, <1>11 DEF Keeps, Fields
<1> QED
  BY <1>8, <1>9, <1>10, <1>11, <1>12 DEF a

\* a sock with another rcv_nxt and state
RcvState(s, n, st) == [s EXCEPT !.rcv_nxt = n, !.state = st]

\* Its fields.
LEMMA RcvStateIs ==
  ASSUME NEW s \in SockRec, NEW n \in Nat, NEW st \in States,
         NEW t, t = RcvState(s, n, st)
  PROVE  t \in SockRec /\ Keeps(t, s, {"rcv_nxt", "state"}) /\ t.rcv_nxt = n /\ t.state = st
<1> DEFINE u == [s EXCEPT !.rcv_nxt = n]
<1>1. u \in SockRec
  BY SockExcept
<1>2. t = [u EXCEPT !.state = st]
  BY DEF SockRec, RcvState
<1>3. Keeps(u, s, {"rcv_nxt"}) /\ u.rcv_nxt = n
  BY DEF Keeps, Fields, SockRec
<1> HIDE DEF u
<1>4. t \in SockRec /\ Keeps(t, u, {"state"}) /\ t.state = st
  BY <1>1, <1>2, StateIs
<1> QED
  BY <1>3, <1>4 DEF Keeps, Fields

\* m is a segment of s with the flags fl, the sequence number n and l bytes.
Msg(m, s, fl, n, l) ==
  m \in SegRec /\ m.flags = fl /\ m.seq = n /\ m.ack = s.rcv_nxt /\ m.len = l

\* The segments a stack sends.
LEMMA ControlIs ==
  ASSUME NEW s \in SockRec, NEW fl \in SUBSET {"SYN", "ACK", "FIN", "PSH"}
  PROVE  Msg(Control(s, fl), s, fl, s.snd_nxt, 0)
BY SockFields DEF Msg, Control, Segment, SegRec

\* A segment of data.
LEMMA DataIs ==
  ASSUME NEW s \in SockRec, NEW n \in Nat
  PROVE  Msg(Data(s, n), s, {"PSH", "ACK"}, n, 1)
<1>1. s.rcv_nxt \in Nat
  BY SockFields
<1> QED
  BY <1>1 DEF Msg, Data, Segment, SegRec

-----------------------------------------------------------------------------
(***************************************************************************)
(* One connection: every change of a sock keeps the link of its two ends.  *)
(***************************************************************************)

\* What a segment to the server says stays true while the client goes on.
LEMMA ToServerStays ==
  ASSUME NEW c \in SockRec, NEW d \in SockRec, NEW p, NEW r, NEW seg \in SegRec,
         ToServer(seg, c, p),
         d.snd_nxt = c.snd_nxt \/ d.snd_nxt = c.snd_nxt + 1,
         d.state = "SYN_SENT" => c.state = "SYN_SENT",
         r # "start", p \in Shut => r \in Shut
  PROVE  ToServer(seg, d, r)
BY SockFields DEF ToServer, SegRec

\* The client changes its sock, or its application goes on, and it sends ms.
LEMMA ClientMoves ==
  ASSUME NEW c, NEW s, NEW toC, NEW toS, NEW p, NEW g, Link(c, s, toC, toS, p, g),
         NEW d \in SockRec, NEW r \in ClientPcs, NEW ms \in SUBSET SegRec,
         ClientSock(d, r), ClientRefs(d, r), EndsFit(d, s, r),
         d.snd_nxt = c.snd_nxt \/ d.snd_nxt = c.snd_nxt + 1,
         d.state = "SYN_SENT" => c.state = "SYN_SENT",
         r # "start", p \in Shut => r \in Shut, \A m \in ms : ToServer(m, d, r)
  PROVE  Link(d, s, toC, toS \cup ms, r, g)
<1>1. \A x \in toS : ToServer(x, d, r)
  BY ToServerStays DEF Link
<1> QED
  BY <1>1 DEF Link

\* The server changes the child, whose application has read h blocks, and sends ms.
LEMMA ServerMoves ==
  ASSUME NEW c, NEW s, NEW toC, NEW toS, NEW p, NEW g, Link(c, s, toC, toS, p, g),
         NEW t \in SockRec, NEW h \in Nat, NEW ms \in SUBSET SegRec,
         ServerSock(t, h), EndsFit(c, t, p), t.state # "NONE",
         s.state \in {"LAST_ACK", "CLOSED"} => t.state \in {"LAST_ACK", "CLOSED"},
         \A m \in ms : ToClient(m, t)
  PROVE  Link(c, t, toC \cup ms, toS, p, h)
<1>1. \A x \in toC : ToClient(x, t)
  BY DEF Link, ToClient
<1> QED
  BY <1>1 DEF Link

\* Fewer segments under way.
LEMMA LinkShrinks ==
  ASSUME NEW c, NEW s, NEW toC, NEW toS, NEW p, NEW g, Link(c, s, toC, toS, p, g),
         NEW tc \in SUBSET toC, NEW ts \in SUBSET toS
  PROVE  Link(c, s, tc, ts, p, g)
BY DEF Link

\* RcvFin, the client's side.
LEMMA FinC ==
  ASSUME NEW c, NEW s, NEW toC, NEW toS, NEW p, NEW g, Link(c, s, toC, toS, p, g),
         NEW seg \in toC, c.state = "ESTABLISHED", "FIN" \in seg.flags,
         NEW d \in SockRec, Keeps(d, c, {"rcv_nxt", "state"}),
         d.state = "CLOSE_WAIT", d.rcv_nxt = seg.seq + 1,
         NEW m, Msg(m, d, {"ACK"}, d.snd_nxt, 0)
  PROVE  Link(d, s, toC, toS \cup {m}, p, g)
<1>1. c \in SockRec /\ p \in ClientPcs /\ MaxData \in Nat /\ MaxRetrans \in Nat
  BY ConnAssumption DEF Link
<1>2. /\ d.hash = c.hash /\ d.bind = c.bind /\ d.ref = c.ref /\ d.freed = c.freed
      /\ d.snd_una = c.snd_una /\ d.snd_nxt = c.snd_nxt /\ d.ring = c.ring /\ d.buf = c.buf
      /\ d.persist = c.persist /\ d.retrans = c.retrans /\ d.cnt = c.cnt /\ d.timewait = c.timewait
  BY DEF Keeps, Fields
<1>3. seg.seq \in Nat /\ s.state \in {"LAST_ACK", "CLOSED"}
  BY DEF Link, SegRec, ToClient
<1>4. p \in Shut
  BY <1>3 DEF Link, EndsFit
<1>5. ClientSock(d, p)
  BY <1>1, <1>2, <1>3, <1>4, SockFields
  DEF Link, ClientSock, Shut, Waiting, Using, Closing, ClientPcs
<1>6. ClientRefs(d, p)
  BY <1>1, <1>2, <1>3, <1>4, SockFields
  DEF Link, ClientSock, ClientRefs, Owed, Count, Shut, Waiting, Using, ClientPcs
<1>7. EndsFit(d, s, p)
  BY <1>1, <1>2, <1>3, <1>4, SockFields
  DEF Link, ClientSock, EndsFit, Shut, Waiting, Using, Closing, ClientPcs
<1>8. p # "start" /\ p \in ClientPcs /\ (p \in Shut => p \in Shut)
  BY <1>1, <1>2, <1>3, <1>4 DEF Link, ClientSock, Shut, Waiting, Using, ClientPcs
<1>9. /\ d.snd_nxt = c.snd_nxt \/ d.snd_nxt = c.snd_nxt + 1
      /\ d.state = "SYN_SENT" => c.state = "SYN_SENT"
  BY <1>1, <1>2, <1>3, <1>4
<1>10. ToServer(m, d, p) /\ m \in SegRec
  BY <1>1, <1>2, <1>3, <1>4, <1>8, <1>9, SockFields
  DEF Link, ClientSock, EndsFit, ToServer, Msg, Shut, Waiting, Using, SegRec
<1> QED
  BY <1>1, <1>5, <1>6, <1>7, <1>8, <1>9, <1>10, ClientMoves

\* RcvSynSent: the client has heard of the child.
LEMMA SynSentC ==
  ASSUME NEW c, NEW s, NEW toC, NEW toS, NEW p, NEW g, Link(c, s, toC, toS, p, g),
         NEW seg \in toC, c.state = "SYN_SENT",
         NEW d \in SockRec,
         Keeps(d, c, {"rcv_nxt", "state", "buf", "retrans", "ref", "cnt", "snd_una", "persist"}),
         d.state = "ESTABLISHED", d.rcv_nxt = seg.seq + 1, d.buf = {}, ~d.retrans,
         d.ref = c.ref + Count(d.persist), d.cnt \in {0, c.cnt},
         \/ d.snd_una = c.snd_una /\ ~d.persist
         \/ d.snd_una = seg.ack /\ d.snd_una <= c.snd_nxt,
         NEW m, Msg(m, d, {"ACK"}, d.snd_nxt, 0)
  PROVE  Link(d, s, toC, toS \cup {m}, p, g)
<1>1. c \in SockRec /\ p \in ClientPcs /\ MaxData \in Nat /\ MaxRetrans \in Nat
  BY ConnAssumption DEF Link
<1>2. /\ d.hash = c.hash /\ d.bind = c.bind /\ d.freed = c.freed /\ d.snd_nxt = c.snd_nxt
      /\ d.ring = c.ring /\ d.timewait = c.timewait
  BY DEF Keeps, Fields
<1>3. seg.seq \in Nat /\ seg.ack \in Nat /\ seg.ack >= 1 /\ s.state # "NONE"
  BY DEF Link, SegRec, ToClient
<1>4. p \in Waiting /\ ~c.persist /\ ~c.retrans /\ ~c.timewait
  BY DEF Link, ClientSock, Waiting, Using
<1>5. ClientSock(d, p)
  BY <1>1, <1>2, <1>3, <1>4, SockFields
  DEF Link, ClientSock, Shut, Waiting, Using, Closing, ClientPcs
<1>6. ClientRefs(d, p)
  BY <1>1, <1>2, <1>3, <1>4, SockFields
  DEF Link, ClientSock, ClientRefs, Owed, Count, Shut, Waiting, Using, ClientPcs
<1>7. EndsFit(d, s, p)
  BY <1>1, <1>2, <1>3, <1>4, SockFields
  DEF Link, ClientSock, EndsFit, Shut, Waiting, Using, Closing, ClientPcs
<1>8. p # "start" /\ p \in ClientPcs /\ (p \in Shut => p \in Shut)
  BY <1>1, <1>2, <1>3, <1>4 DEF Link, ClientSock, Shut, Waiting, Using, ClientPcs
<1>9. /\ d.snd_nxt = c.snd_nxt \/ d.snd_nxt = c.snd_nxt + 1
      /\ d.state = "SYN_SENT" => c.state = "SYN_SENT"
  BY <1>1, <1>2, <1>3, <1>4
<1>10. ToServer(m, d, p) /\ m \in SegRec
  BY <1>1, <1>2, <1>3, <1>4, <1>8, <1>9, SockFields
  DEF Link, ClientSock, EndsFit, ToServer, Msg, Shut, Waiting, Using, SegRec
<1> QED
  BY <1>1, <1>5, <1>6, <1>7, <1>8, <1>9, <1>10, ClientMoves

\* RcvAck, the client's side: the window opens.
LEMMA AckC ==
  ASSUME NEW c, NEW s, NEW toC, NEW toS, NEW p, NEW g, Link(c, s, toC, toS, p, g),
         NEW seg \in toC, c.state = "ESTABLISHED",
         NEW d \in SockRec, Keeps(d, c, {"buf", "retrans", "ref", "cnt", "snd_una", "persist"}),
         d.buf \subseteq c.buf, d.buf = {} => ~d.retrans, d.retrans => c.retrans, d.cnt \in {0, c.cnt},
         d.ref = c.ref - Count(c.retrans) + Count(d.retrans) - Count(c.persist) + Count(d.persist),
         \/ d.snd_una = c.snd_una /\ d.persist = c.persist
         \/ d.snd_una = seg.ack /\ d.snd_una <= c.snd_nxt /\ ~d.persist
  PROVE  Link(d, s, toC, toS, p, g)
<1>1. c \in SockRec /\ p \in ClientPcs /\ MaxData \in Nat /\ MaxRetrans \in Nat
  BY ConnAssumption DEF Link
<1>2. /\ d.state = c.state /\ d.hash = c.hash /\ d.bind = c.bind /\ d.freed = c.freed
      /\ d.snd_nxt = c.snd_nxt /\ d.rcv_nxt = c.rcv_nxt /\ d.ring = c.ring /\ d.timewait = c.timewait
  BY DEF Keeps, Fields
<1>3. p # "start"
  BY DEF Link, ClientSock, alloc_tcp_sock
<1>4. d.buf \subseteq 1..MaxData /\ (\A q \in d.buf : q < d.snd_nxt) /\ d.cnt <= MaxRetrans
  BY <1>1, <1>2, <1>3, SockFields DEF Link, ClientSock
<1>5. ClientSock(d, p)
  BY <1>1, <1>2, <1>3, <1>4, SockFields
  DEF Link, ClientSock, Shut, Waiting, Using, Closing, ClientPcs
<1>6. ClientRefs(d, p)
  BY <1>1, <1>2, <1>3, <1>4, SockFields
  DEF Link, ClientSock, ClientRefs, Owed, Count, Shut, Waiting, Using, ClientPcs
<1>7. EndsFit(d, s, p)
  BY <1>1, <1>2, <1>3, <1>4, SockFields
  DEF Link, ClientSock, EndsFit, Shut, Waiting, Using, Closing, ClientPcs
<1>8. p # "start" /\ p \in ClientPcs /\ (p \in Shut => p \in Shut)
  BY <1>1, <1>2, <1>3, <1>4 DEF Link, ClientSock, Shut, Waiting, Using, ClientPcs
<1>9. /\ d.snd_nxt = c.snd_nxt \/ d.snd_nxt = c.snd_nxt + 1
      /\ d.state = "SYN_SENT" => c.state = "SYN_SENT"
  BY <1>1, <1>2, <1>3, <1>4
<1>10. Link(d, s, toC, toS \cup {}, p, g)
  BY <1>1, <1>5, <1>6, <1>7, <1>8, <1>9, ClientMoves
<1> QED
  BY <1>10

\* An acknowledgement the client sends, its sock as it was.
LEMMA PlainAckC ==
  ASSUME NEW c, NEW s, NEW toC, NEW toS, NEW p, NEW g, Link(c, s, toC, toS, p, g),
         c.state = "ESTABLISHED", NEW m, Msg(m, c, {"ACK"}, c.snd_nxt, 0)
  PROVE  Link(c, s, toC, toS \cup {m}, p, g)
<1>1. c \in SockRec /\ p \in ClientPcs /\ MaxData \in Nat /\ MaxRetrans \in Nat
  BY ConnAssumption DEF Link
<1>2. p # "start" /\ c.rcv_nxt >= 1
  BY DEF Link, ClientSock, EndsFit, alloc_tcp_sock
<1>3. ClientSock(c, p)
  BY <1>1, <1>2, SockFields
  DEF Link, ClientSock, Shut, Waiting, Using, Closing, ClientPcs
<1>4. ClientRefs(c, p)
  BY <1>1, <1>2, SockFields
  DEF Link, ClientSock, ClientRefs, Owed, Count, Shut, Waiting, Using, ClientPcs
<1>5. EndsFit(c, s, p)
  BY <1>1, <1>2, SockFields
  DEF Link, ClientSock, EndsFit, Shut, Waiting, Using, Closing, ClientPcs
<1>6. p # "start" /\ p \in ClientPcs /\ (p \in Shut => p \in Shut)
  BY <1>1, <1>2 DEF Link, ClientSock, Shut, Waiting, Using, ClientPcs
<1>7. ToServer(m, c, p) /\ m \in SegRec
  BY <1>1, <1>2, <1>6, SockFields
  DEF Link, ClientSock, EndsFit, ToServer, Msg, Shut, Waiting, Using, SegRec
<1> QED
  BY <1>1, <1>3, <1>4, <1>5, <1>6, <1>7, ClientMoves

\* RcvCloseWait, the client's side.
LEMMA CloseWaitC ==
  ASSUME NEW c, NEW s, NEW toC, NEW toS, NEW p, NEW g, Link(c, s, toC, toS, p, g),
         NEW seg \in toC, c.state = "CLOSE_WAIT",
         NEW d \in SockRec, Keeps(d, c, {"state", "rcv_nxt", "snd_nxt"}), d.state = "LAST_ACK",
         d.rcv_nxt = seg.seq + 1, d.snd_nxt = c.snd_nxt + 1,
         NEW m, Msg(m, d, {"ACK", "FIN"}, c.snd_nxt, 0)
  PROVE  Link(d, s, toC, toS \cup {m}, p, g)
<1>1. c \in SockRec /\ p \in ClientPcs /\ MaxData \in Nat /\ MaxRetrans \in Nat
  BY ConnAssumption DEF Link
<1>2. /\ d.hash = c.hash /\ d.bind = c.bind /\ d.ref = c.ref /\ d.freed = c.freed
      /\ d.snd_una = c.snd_una /\ d.ring = c.ring /\ d.buf = c.buf /\ d.persist = c.persist
      /\ d.retrans = c.retrans /\ d.cnt = c.cnt /\ d.timewait = c.timewait
  BY DEF Keeps, Fields
<1>3. seg.seq \in Nat /\ p \in Shut
  BY DEF Link, SegRec, ClientSock
<1>4. ClientSock(d, p)
  BY <1>1, <1>2, <1>3, SockFields
  DEF Link, ClientSock, Shut, Waiting, Using, Closing, ClientPcs
<1>5. ClientRefs(d, p)
  BY <1>1, <1>2, <1>3, SockFields
  DEF Link, ClientSock, ClientRefs, Owed, Count, Shut, Waiting, Using, ClientPcs
<1>6. EndsFit(d, s, p)
  BY <1>1, <1>2, <1>3, SockFields
  DEF Link, ClientSock, EndsFit, Shut, Waiting, Using, Closing, ClientPcs
<1>7. p # "start" /\ p \in ClientPcs /\ (p \in Shut => p \in Shut)
  BY <1>1, <1>2, <1>3 DEF Link, ClientSock, Shut, Waiting, Using, ClientPcs
<1>8. /\ d.snd_nxt = c.snd_nxt \/ d.snd_nxt = c.snd_nxt + 1
      /\ d.state = "SYN_SENT" => c.state = "SYN_SENT"
  BY <1>1, <1>2, <1>3
<1>9. ToServer(m, d, p) /\ m \in SegRec
  BY <1>1, <1>2, <1>3, <1>7, <1>8, SockFields
  DEF Link, ClientSock, EndsFit, ToServer, Msg, Shut, Waiting, Using, SegRec
<1> QED
  BY <1>1, <1>4, <1>5, <1>6, <1>7, <1>8, <1>9, ClientMoves

\* RcvLastAck, the client's side.
LEMMA LastAckC ==
  ASSUME NEW c, NEW s, NEW toC, NEW toS, NEW p, NEW g, Link(c, s, toC, toS, p, g),
         c.state = "LAST_ACK",
         NEW d \in SockRec, Keeps(d, c, {"buf", "retrans", "ref", "cnt", "state"}), d.state = "CLOSED",
         d.buf \subseteq c.buf, d.buf = {} => ~d.retrans, d.retrans => c.retrans, d.cnt \in {0, c.cnt},
         d.ref = c.ref - Count(c.retrans) + Count(d.retrans)
  PROVE  Link(d, s, toC, toS, p, g)
<1>1. c \in SockRec /\ p \in ClientPcs /\ MaxData \in Nat /\ MaxRetrans \in Nat
  BY ConnAssumption DEF Link
<1>2. /\ d.hash = c.hash /\ d.bind = c.bind /\ d.freed = c.freed /\ d.snd_una = c.snd_una
      /\ d.snd_nxt = c.snd_nxt /\ d.rcv_nxt = c.rcv_nxt /\ d.ring = c.ring /\ d.persist = c.persist
      /\ d.timewait = c.timewait
  BY DEF Keeps, Fields
<1>3. p \in Shut
  BY DEF Link, ClientSock
<1>4. d.buf \subseteq 1..MaxData /\ (\A q \in d.buf : q < d.snd_nxt) /\ d.cnt <= MaxRetrans
  BY <1>1, <1>2, <1>3, SockFields DEF Link, ClientSock
<1>5. ClientSock(d, p)
  BY <1>1, <1>2, <1>3, <1>4, SockFields
  DEF Link, ClientSock, Shut, Waiting, Using, Closing, ClientPcs
<1>6. ClientRefs(d, p)
  BY <1>1, <1>2, <1>3, <1>4, SockFields
  DEF Link, ClientSock, ClientRefs, Owed, Count, Shut, Waiting, Using, ClientPcs
<1>7. EndsFit(d, s, p)
  BY <1>1, <1>2, <1>3, <1>4, SockFields
  DEF Link, ClientSock, EndsFit, Shut, Waiting, Using, Closing, ClientPcs
<1>8. p # "start" /\ p \in ClientPcs /\ (p \in Shut => p \in Shut)
  BY <1>1, <1>2, <1>3, <1>4 DEF Link, ClientSock, Shut, Waiting, Using, ClientPcs
<1>9. /\ d.snd_nxt = c.snd_nxt \/ d.snd_nxt = c.snd_nxt + 1
      /\ d.state = "SYN_SENT" => c.state = "SYN_SENT"
  BY <1>1, <1>2, <1>3, <1>4
<1>10. Link(d, s, toC, toS \cup {}, p, g)
  BY <1>1, <1>5, <1>6, <1>7, <1>8, <1>9, ClientMoves
<1> QED
  BY <1>10

\* RcvFinWait1, a FIN: CLOSING, with the timer of TIME_WAIT.
LEMMA FinWait1FinC ==
  ASSUME NEW c, NEW s, NEW toC, NEW toS, NEW p, NEW g, Link(c, s, toC, toS, p, g),
         NEW seg \in toC, c.state = "FIN_WAIT_1", "FIN" \in seg.flags,
         NEW d \in SockRec,
         Keeps(d, c, {"rcv_nxt", "buf", "retrans", "ref", "cnt", "state", "timewait"}),
         d.state = "CLOSING", d.rcv_nxt = seg.seq + 1, d.timewait,
         d.buf \subseteq c.buf, d.buf = {} => ~d.retrans, d.retrans => c.retrans, d.cnt \in {0, c.cnt},
         d.ref = c.ref - Count(c.retrans) + Count(d.retrans) + 1,
         NEW m, Msg(m, d, {"ACK"}, d.snd_nxt, 0)
  PROVE  Link(d, s, toC, toS \cup {m}, p, g)
<1>1. c \in SockRec /\ p \in ClientPcs /\ MaxData \in Nat /\ MaxRetrans \in Nat
  BY ConnAssumption DEF Link
<1>2. /\ d.hash = c.hash /\ d.bind = c.bind /\ d.freed = c.freed /\ d.snd_una = c.snd_una
      /\ d.snd_nxt = c.snd_nxt /\ d.ring = c.ring /\ d.persist = c.persist
  BY DEF Keeps, Fields
<1>3. seg.seq \in Nat /\ p = "done" /\ ~c.timewait /\ s.state \in {"LAST_ACK", "CLOSED"}
  BY DEF Link, SegRec, ClientSock, ToClient, Closing
<1>4. d.buf \subseteq 1..MaxData /\ (\A q \in d.buf : q < d.snd_nxt) /\ d.cnt <= MaxRetrans
  BY <1>1, <1>2, <1>3, SockFields DEF Link, ClientSock
<1>5. ClientSock(d, p)
  BY <1>1, <1>2, <1>3, <1>4, SockFields
  DEF Link, ClientSock, Shut, Waiting, Using, Closing, ClientPcs
<1>6. ClientRefs(d, p)
  BY <1>1, <1>2, <1>3, <1>4, SockFields
  DEF Link, ClientSock, ClientRefs, Owed, Count, Shut, Waiting, Using, ClientPcs
<1>7. EndsFit(d, s, p)
  BY <1>1, <1>2, <1>3, <1>4, SockFields
  DEF Link, ClientSock, EndsFit, Shut, Waiting, Using, Closing, ClientPcs
<1>8. p # "start" /\ p \in ClientPcs /\ (p \in Shut => p \in Shut)
  BY <1>1, <1>2, <1>3, <1>4 DEF Link, ClientSock, Shut, Waiting, Using, ClientPcs
<1>9. /\ d.snd_nxt = c.snd_nxt \/ d.snd_nxt = c.snd_nxt + 1
      /\ d.state = "SYN_SENT" => c.state = "SYN_SENT"
  BY <1>1, <1>2, <1>3, <1>4
<1>10. ToServer(m, d, p) /\ m \in SegRec
  BY <1>1, <1>2, <1>3, <1>4, <1>8, <1>9, SockFields
  DEF Link, ClientSock, EndsFit, ToServer, Msg, Shut, Waiting, Using, SegRec
<1> QED
  BY <1>1, <1>5, <1>6, <1>7, <1>8, <1>9, <1>10, ClientMoves

\* RcvFinWait1, anything else.
LEMMA FinWait1AckC ==
  ASSUME NEW c, NEW s, NEW toC, NEW toS, NEW p, NEW g, Link(c, s, toC, toS, p, g),
         c.state = "FIN_WAIT_1",
         NEW d \in SockRec, Keeps(d, c, {"state"}), d.state = "FIN_WAIT_2"
  PROVE  Link(d, s, toC, toS, p, g)
<1>1. c \in SockRec /\ p \in ClientPcs /\ MaxData \in Nat /\ MaxRetrans \in Nat
  BY ConnAssumption DEF Link
<1>2. /\ d.hash = c.hash /\ d.bind = c.bind /\ d.ref = c.ref /\ d.freed = c.freed
      /\ d.snd_una = c.snd_una /\ d.snd_nxt = c.snd_nxt /\ d.rcv_nxt = c.rcv_nxt /\ d.ring = c.ring
      /\ d.buf = c.buf /\ d.persist = c.persist /\ d.retrans = c.retrans /\ d.cnt = c.cnt
      /\ d.timewait = c.timewait
  BY DEF Keeps, Fields
<1>3. p = "done" /\ ~c.timewait
  BY DEF Link, ClientSock, Closing
<1>4. ClientSock(d, p)
  BY <1>1, <1>2, <1>3, SockFields
  DEF Link, ClientSock, Shut, Waiting, Using, Closing, ClientPcs
<1>5. ClientRefs(d, p)
  BY <1>1, <1>2, <1>3, SockFields
  DEF Link, ClientSock, ClientRefs, Owed, Count, Shut, Waiting, Using, ClientPcs
<1>6. EndsFit(d, s, p)
  BY <1>1, <1>2, <1>3, SockFields
  DEF Link, ClientSock, EndsFit, Shut, Waiting, Using, Closing, ClientPcs
<1>7. p # "start" /\ p \in ClientPcs /\ (p \in Shut => p \in Shut)
  BY <1>1, <1>2, <1>3 DEF Link, ClientSock, Shut, Waiting, Using, ClientPcs
<1>8. /\ d.snd_nxt = c.snd_nxt \/ d.snd_nxt = c.snd_nxt + 1
      /\ d.state = "SYN_SENT" => c.state = "SYN_SENT"
  BY <1>1, <1>2, <1>3
<1>9. Link(d, s, toC, toS \cup {}, p, g)
  BY <1>1, <1>4, <1>5, <1>6, <1>7, <1>8, ClientMoves
<1> QED
  BY <1>9

\* RcvFinWait2, a FIN: TIME_WAIT.
LEMMA FinWait2C ==
  ASSUME NEW c, NEW s, NEW toC, NEW toS, NEW p, NEW g, Link(c, s, toC, toS, p, g),
         NEW seg \in toC, c.state = "FIN_WAIT_2", "FIN" \in seg.flags,
         NEW d \in SockRec, Keeps(d, c, {"rcv_nxt", "ref", "state", "timewait"}),
         d.state = "TIME_WAIT", d.rcv_nxt = seg.seq + 1, d.timewait, d.ref = c.ref + 1,
         NEW m, Msg(m, d, {"ACK"}, d.snd_nxt, 0)
  PROVE  Link(d, s, toC, toS \cup {m}, p, g)
<1>1. c \in SockRec /\ p \in ClientPcs /\ MaxData \in Nat /\ MaxRetrans \in Nat
  BY ConnAssumption DEF Link
<1>2. /\ d.hash = c.hash /\ d.bind = c.bind /\ d.freed = c.freed /\ d.snd_una = c.snd_una
      /\ d.snd_nxt = c.snd_nxt /\ d.ring = c.ring /\ d.buf = c.buf /\ d.persist = c.persist
      /\ d.retrans = c.retrans /\ d.cnt = c.cnt
  BY DEF Keeps, Fields
<1>3. seg.seq \in Nat /\ p = "done" /\ ~c.timewait /\ s.state \in {"LAST_ACK", "CLOSED"}
  BY DEF Link, SegRec, ClientSock, ToClient, Closing
<1>4. ClientSock(d, p)
  BY <1>1, <1>2, <1>3, SockFields
  DEF Link, ClientSock, Shut, Waiting, Using, Closing, ClientPcs
<1>5. ClientRefs(d, p)
  BY <1>1, <1>2, <1>3, SockFields
  DEF Link, ClientSock, ClientRefs, Owed, Count, Shut, Waiting, Using, ClientPcs
<1>6. EndsFit(d, s, p)
  BY <1>1, <1>2, <1>3, SockFields
  DEF Link, ClientSock, EndsFit, Shut, Waiting, Using, Closing, ClientPcs
<1>7. p # "start" /\ p \in ClientPcs /\ (p \in Shut => p \in Shut)
  BY <1>1, <1>2, <1>3 DEF Link, ClientSock, Shut, Waiting, Using, ClientPcs
<1>8. /\ d.snd_nxt = c.snd_nxt \/ d.snd_nxt = c.snd_nxt + 1
      /\ d.state = "SYN_SENT" => c.state = "SYN_SENT"
  BY <1>1, <1>2, <1>3
<1>9. ToServer(m, d, p) /\ m \in SegRec
  BY <1>1, <1>2, <1>3, <1>7, <1>8, SockFields
  DEF Link, ClientSock, EndsFit, ToServer, Msg, Shut, Waiting, Using, SegRec
<1> QED
  BY <1>1, <1>4, <1>5, <1>6, <1>7, <1>8, <1>9, ClientMoves

\* The client's application goes on.
LEMMA AppC ==
  ASSUME NEW c, NEW s, NEW toC, NEW toS, NEW p, NEW g, Link(c, s, toC, toS, p, g),
         NEW r, 
         \/ p \in Waiting /\ r \in Waiting
         \/ p = "connected" /\ c.state = "ESTABLISHED" /\ r = "write"
         \/ p = "write" /\ r = "close"
  PROVE  Link(c, s, toC, toS, r, g)
<1>1. c \in SockRec /\ p \in ClientPcs /\ MaxData \in Nat /\ MaxRetrans \in Nat
  BY ConnAssumption DEF Link
<1>2. ClientSock(c, r)
  BY <1>1, SockFields
  DEF Link, ClientSock, Shut, Waiting, Using, Closing, ClientPcs
<1>3. ClientRefs(c, r)
  BY <1>1, SockFields
  DEF Link, ClientSock, ClientRefs, Owed, Count, Shut, Waiting, Using, ClientPcs
<1>4. EndsFit(c, s, r)
  BY <1>1, SockFields
  DEF Link, ClientSock, EndsFit, Shut, Waiting, Using, Closing, ClientPcs
<1>5. r # "start" /\ r \in ClientPcs /\ (p \in Shut => r \in Shut)
  BY <1>1 DEF Link, ClientSock, Shut, Waiting, Using, ClientPcs
<1>6. Link(c, s, toC, toS \cup {}, r, g)
  BY <1>1, <1>2, <1>3, <1>4, <1>5, ClientMoves
<1> QED
  BY <1>6

\* Write: a block goes into the send buffer, with the timer.
LEMMA WriteC ==
  ASSUME NEW c, NEW s, NEW toC, NEW toS, NEW p, NEW g, Link(c, s, toC, toS, p, g),
         p = "write", c.snd_nxt <= MaxData, ~c.persist, c.buf = {},
         NEW d \in SockRec, Keeps(d, c, {"snd_nxt", "buf", "retrans", "ref"}),
         d.snd_nxt = c.snd_nxt + 1, d.buf = {c.snd_nxt}, d.retrans,
         d.ref = IF c.retrans THEN c.ref ELSE c.ref + 1,
         NEW m, Msg(m, c, {"PSH", "ACK"}, c.snd_nxt, 1)
  PROVE  Link(d, s, toC, toS \cup {m}, p, g)
<1>1. c \in SockRec /\ p \in ClientPcs /\ MaxData \in Nat /\ MaxRetrans \in Nat
  BY ConnAssumption DEF Link
<1>2. /\ d.state = c.state /\ d.hash = c.hash /\ d.bind = c.bind /\ d.freed = c.freed
      /\ d.snd_una = c.snd_una /\ d.rcv_nxt = c.rcv_nxt /\ d.ring = c.ring /\ d.persist = c.persist
      /\ d.cnt = c.cnt /\ d.timewait = c.timewait
  BY DEF Keeps, Fields
<1>3. ~c.retrans /\ c.ref = Owed(c) /\ c.snd_nxt >= 1
  BY DEF Link, ClientSock, ClientRefs, Using
<1>4. ClientSock(d, p)
  BY <1>1, <1>2, <1>3, SockFields
  DEF Link, ClientSock, Shut, Waiting, Using, Closing, ClientPcs
<1>5. ClientRefs(d, p)
  BY <1>1, <1>2, <1>3, SockFields
  DEF Link, ClientSock, ClientRefs, Owed, Count, Shut, Waiting, Using, ClientPcs
<1>6. EndsFit(d, s, p)
  BY <1>1, <1>2, <1>3, SockFields
  DEF Link, ClientSock, EndsFit, Shut, Waiting, Using, Closing, ClientPcs
<1>7. p # "start" /\ p \in ClientPcs /\ (p \in Shut => p \in Shut)
  BY <1>1, <1>2, <1>3 DEF Link, ClientSock, Shut, Waiting, Using, ClientPcs
<1>8. /\ d.snd_nxt = c.snd_nxt \/ d.snd_nxt = c.snd_nxt + 1
      /\ d.state = "SYN_SENT" => c.state = "SYN_SENT"
  BY <1>1, <1>2, <1>3
<1>9. ToServer(m, d, p) /\ m \in SegRec
  BY <1>1, <1>2, <1>3, <1>7, <1>8, SockFields
  DEF Link, ClientSock, EndsFit, ToServer, Msg, Shut, Waiting, Using, SegRec
<1> QED
  BY <1>1, <1>4, <1>5, <1>6, <1>7, <1>8, <1>9, ClientMoves

\* CloseFin: the client's FIN goes out.
LEMMA CloseFinC ==
  ASSUME NEW c, NEW s, NEW toC, NEW toS, NEW p, NEW g, Link(c, s, toC, toS, p, g),
         p = "close", c.state = "ESTABLISHED",
         NEW d \in SockRec, Keeps(d, c, {"snd_nxt"}), d.snd_nxt = c.snd_nxt + 1,
         NEW m, Msg(m, c, {"FIN", "ACK"}, c.snd_nxt, 0)
  PROVE  Link(d, s, toC, toS \cup {m}, "closing", g)
<1>1. c \in SockRec /\ p \in ClientPcs /\ MaxData \in Nat /\ MaxRetrans \in Nat
  BY ConnAssumption DEF Link
<1>2. /\ d.state = c.state /\ d.hash = c.hash /\ d.bind = c.bind /\ d.ref = c.ref
      /\ d.freed = c.freed /\ d.snd_una = c.snd_una /\ d.rcv_nxt = c.rcv_nxt /\ d.ring = c.ring
      /\ d.buf = c.buf /\ d.persist = c.persist /\ d.retrans = c.retrans /\ d.cnt = c.cnt
      /\ d.timewait = c.timewait
  BY DEF Keeps, Fields
<1>3. ClientSock(d, "closing")
  BY <1>1, <1>2, SockFields
  DEF Link, ClientSock, Shut, Waiting, Using, Closing, ClientPcs
<1>4. ClientRefs(d, "closing")
  BY <1>1, <1>2, SockFields
  DEF Link, ClientSock, ClientRefs, Owed, Count, Shut, Waiting, Using, ClientPcs
<1>5. EndsFit(d, s, "closing")
  BY <1>1, <1>2, SockFields
  DEF Link, ClientSock, EndsFit, Shut, Waiting, Using, Closing, ClientPcs
<1>6. "closing" # "start" /\ "closing" \in ClientPcs /\ (p \in Shut => "closing" \in Shut)
  BY <1>1, <1>2 DEF Link, ClientSock, Shut, Waiting, Using, ClientPcs
<1>7. /\ d.snd_nxt = c.snd_nxt \/ d.snd_nxt = c.snd_nxt + 1
      /\ d.state = "SYN_SENT" => c.state = "SYN_SENT"
  BY <1>1, <1>2
<1>8. ToServer(m, d, "closing") /\ m \in SegRec
  BY <1>1, <1>2, <1>6, <1>7, SockFields
  DEF Link, ClientSock, EndsFit, ToServer, Msg, Shut, Waiting, Using, SegRec
<1> QED
  BY <1>1, <1>3, <1>4, <1>5, <1>6, <1>7, <1>8, ClientMoves

\* CloseFinWait stores FIN_WAIT_1 whatever the state has become.
LEMMA CloseFinWaitC ==
  ASSUME NEW c, NEW s, NEW toC, NEW toS, NEW p, NEW g, Link(c, s, toC, toS, p, g),
         p = "closing",
         NEW d \in SockRec, Keeps(d, c, {"state"}), d.state = "FIN_WAIT_1"
  PROVE  Link(d, s, toC, toS, "done", g)
<1>1. c \in SockRec /\ p \in ClientPcs /\ MaxData \in Nat /\ MaxRetrans \in Nat
  BY ConnAssumption DEF Link
<1>2. /\ d.hash = c.hash /\ d.bind = c.bind /\ d.ref = c.ref /\ d.freed = c.freed
      /\ d.snd_una = c.snd_una /\ d.snd_nxt = c.snd_nxt /\ d.rcv_nxt = c.rcv_nxt /\ d.ring = c.ring
      /\ d.buf = c.buf /\ d.persist = c.persist /\ d.retrans = c.retrans /\ d.cnt = c.cnt
      /\ d.timewait = c.timewait
  BY DEF Keeps, Fields
<1>3. ~c.timewait
  BY DEF Link, ClientSock
<1>4. ClientSock(d, "done")
  BY <1>1, <1>2, <1>3, SockFields
  DEF Link, ClientSock, Shut, Waiting, Using, Closing, ClientPcs
<1>5. ClientRefs(d, "done")
  BY <1>1, <1>2, <1>3, SockFields
  DEF Link, ClientSock, ClientRefs, Owed, Count, Shut, Waiting, Using, ClientPcs
<1>6. EndsFit(d, s, "done")
  BY <1>1, <1>2, <1>3, SockFields
  DEF Link, ClientSock, EndsFit, Shut, Waiting, Using, Closing, ClientPcs
<1>7. "done" # "start" /\ "done" \in ClientPcs /\ (p \in Shut => "done" \in Shut)
  BY <1>1, <1>2, <1>3 DEF Link, ClientSock, Shut, Waiting, Using, ClientPcs
<1>8. /\ d.snd_nxt = c.snd_nxt \/ d.snd_nxt = c.snd_nxt + 1
      /\ d.state = "SYN_SENT" => c.state = "SYN_SENT"
  BY <1>1, <1>2, <1>3
<1>9. Link(d, s, toC, toS \cup {}, "done", g)
  BY <1>1, <1>4, <1>5, <1>6, <1>7, <1>8, ClientMoves
<1> QED
  BY <1>9

\* CloseClosed takes the sock out of the table.
LEMMA CloseClosedC ==
  ASSUME NEW c, NEW s, NEW toC, NEW toS, NEW p, NEW g, Link(c, s, toC, toS, p, g),
         p = "close", c.state = "CLOSED",
         NEW d \in SockRec, Keeps(d, c, {"hash", "ref", "freed"}), d.hash = "gone",
         d.ref = c.ref - 1, ~d.freed
  PROVE  Link(d, s, toC, toS, "done", g)
<1>1. c \in SockRec /\ p \in ClientPcs /\ MaxData \in Nat /\ MaxRetrans \in Nat
  BY ConnAssumption DEF Link
<1>2. /\ d.state = c.state /\ d.bind = c.bind /\ d.snd_una = c.snd_una /\ d.snd_nxt = c.snd_nxt
      /\ d.rcv_nxt = c.rcv_nxt /\ d.ring = c.ring /\ d.buf = c.buf /\ d.persist = c.persist
      /\ d.retrans = c.retrans /\ d.cnt = c.cnt /\ d.timewait = c.timewait
  BY DEF Keeps, Fields
<1>3. ClientSock(d, "done")
  BY <1>1, <1>2, SockFields
  DEF Link, ClientSock, Shut, Waiting, Using, Closing, ClientPcs
<1>4. ClientRefs(d, "done")
  BY <1>1, <1>2, SockFields
  DEF Link, ClientSock, ClientRefs, Owed, Count, Shut, Waiting, Using, ClientPcs
<1>5. EndsFit(d, s, "done")
  BY <1>1, <1>2, SockFields
  DEF Link, ClientSock, EndsFit, Shut, Waiting, Using, Closing, ClientPcs
<1>6. "done" # "start" /\ "done" \in ClientPcs /\ (p \in Shut => "done" \in Shut)
  BY <1>1, <1>2 DEF Link, ClientSock, Shut, Waiting, Using, ClientPcs
<1>7. /\ d.snd_nxt = c.snd_nxt \/ d.snd_nxt = c.snd_nxt + 1
      /\ d.state = "SYN_SENT" => c.state = "SYN_SENT"
  BY <1>1, <1>2
<1>8. Link(d, s, toC, toS \cup {}, "done", g)
  BY <1>1, <1>3, <1>4, <1>5, <1>6, <1>7, ClientMoves
<1> QED
  BY <1>8

\* The persist timer of the client.
LEMMA ProbeC ==
  ASSUME NEW c, NEW s, NEW toC, NEW toS, NEW p, NEW g, Link(c, s, toC, toS, p, g),
         c.persist, NEW d \in SockRec, Keeps(d, c, {"probes"}),
         NEW m, Msg(m, c, {"PSH", "ACK"}, 0, 1)
  PROVE  Link(d, s, toC, toS \cup {m}, p, g)
<1>1. c \in SockRec /\ p \in ClientPcs /\ MaxData \in Nat /\ MaxRetrans \in Nat
  BY ConnAssumption DEF Link
<1>2. /\ d.state = c.state /\ d.hash = c.hash /\ d.bind = c.bind /\ d.ref = c.ref
      /\ d.freed = c.freed /\ d.snd_una = c.snd_una /\ d.snd_nxt = c.snd_nxt /\ d.rcv_nxt = c.rcv_nxt
      /\ d.ring = c.ring /\ d.buf = c.buf /\ d.persist = c.persist /\ d.retrans = c.retrans
      /\ d.cnt = c.cnt /\ d.timewait = c.timewait
  BY DEF Keeps, Fields
<1>3. p # "start" /\ c.rcv_nxt >= 1 /\ c.state # "SYN_SENT" /\ c.snd_nxt >= 1
  BY DEF Link, ClientSock
<1>4. ClientSock(d, p)
  BY <1>1, <1>2, <1>3, SockFields
  DEF Link, ClientSock, Shut, Waiting, Using, Closing, ClientPcs
<1>5. ClientRefs(d, p)
  BY <1>1, <1>2, <1>3, SockFields
  DEF Link, ClientSock, ClientRefs, Owed, Count, Shut, Waiting, Using, ClientPcs
<1>6. EndsFit(d, s, p)
  BY <1>1, <1>2, <1>3, SockFields
  DEF Link, ClientSock, EndsFit, Shut, Waiting, Using, Closing, ClientPcs
<1>7. p # "start" /\ p \in ClientPcs /\ (p \in Shut => p \in Shut)
  BY <1>1, <1>2, <1>3 DEF Link, ClientSock, Shut, Waiting, Using, ClientPcs
<1>8. /\ d.snd_nxt = c.snd_nxt \/ d.snd_nxt = c.snd_nxt + 1
      /\ d.state = "SYN_SENT" => c.state = "SYN_SENT"
  BY <1>1, <1>2, <1>3
<1>9. ToServer(m, d, p) /\ m \in SegRec
  BY <1>1, <1>2, <1>3, <1>7, <1>8, SockFields
  DEF Link, ClientSock, EndsFit, ToServer, Msg, Shut, Waiting, Using, SegRec
<1> QED
  BY <1>1, <1>4, <1>5, <1>6, <1>7, <1>8, <1>9, ClientMoves

\* The retransmission timer sends a block again.
LEMMA RetransC ==
  ASSUME NEW c, NEW s, NEW toC, NEW toS, NEW p, NEW g, Link(c, s, toC, toS, p, g),
         c.retrans, c.cnt < MaxRetrans, NEW q \in c.buf,
         NEW d \in SockRec, Keeps(d, c, {"cnt"}), d.cnt = c.cnt + 1,
         NEW m, Msg(m, c, {"PSH", "ACK"}, q, 1)
  PROVE  Link(d, s, toC, toS \cup {m}, p, g)
<1>1. c \in SockRec /\ p \in ClientPcs /\ MaxData \in Nat /\ MaxRetrans \in Nat
  BY ConnAssumption DEF Link
<1>2. /\ d.state = c.state /\ d.hash = c.hash /\ d.bind = c.bind /\ d.ref = c.ref
      /\ d.freed = c.freed /\ d.snd_una = c.snd_una /\ d.snd_nxt = c.snd_nxt /\ d.rcv_nxt = c.rcv_nxt
      /\ d.ring = c.ring /\ d.buf = c.buf /\ d.persist = c.persist /\ d.retrans = c.retrans
      /\ d.timewait = c.timewait
  BY DEF Keeps, Fields
<1>3. p \in Using
  BY DEF Link, ClientSock
<1>4. c.rcv_nxt >= 1 /\ c.state # "SYN_SENT" /\ q \in Nat
  BY <1>3 DEF Link, ClientSock, EndsFit, Using, Waiting, Shut
<1>5. ClientSock(d, p)
  BY <1>1, <1>2, <1>3, <1>4, SockFields
  DEF Link, ClientSock, Shut, Waiting, Using, Closing, ClientPcs
<1>6. ClientRefs(d, p)
  BY <1>1, <1>2, <1>3, <1>4, SockFields
  DEF Link, ClientSock, ClientRefs, Owed, Count, Shut, Waiting, Using, ClientPcs
<1>7. EndsFit(d, s, p)
  BY <1>1, <1>2, <1>3, <1>4, SockFields
  DEF Link, ClientSock, EndsFit, Shut, Waiting, Using, Closing, ClientPcs
<1>8. p # "start" /\ p \in ClientPcs /\ (p \in Shut => p \in Shut)
  BY <1>1, <1>2, <1>3, <1>4 DEF Link, ClientSock, Shut, Waiting, Using, ClientPcs
<1>9. /\ d.snd_nxt = c.snd_nxt \/ d.snd_nxt = c.snd_nxt + 1
      /\ d.state = "SYN_SENT" => c.state = "SYN_SENT"
  BY <1>1, <1>2, <1>3, <1>4
<1>10. ToServer(m, d, p) /\ m \in SegRec
  BY <1>1, <1>2, <1>3, <1>4, <1>8, <1>9, SockFields
  DEF Link, ClientSock, EndsFit, ToServer, Msg, Shut, Waiting, Using, SegRec
<1> QED
  BY <1>1, <1>5, <1>6, <1>7, <1>8, <1>9, <1>10, ClientMoves

\* The retransmission timer gives up, and one reference too many.
LEMMA GiveUpC ==
  ASSUME NEW c, NEW s, NEW toC, NEW toS, NEW p, NEW g, Link(c, s, toC, toS, p, g),
         c.retrans, c.state # "CLOSED",
         NEW d \in SockRec, Keeps(d, c, {"retrans", "ref", "state", "freed"}),
         ~d.retrans, d.ref = c.ref - 2, d.state = "CLOSED", ~d.freed
  PROVE  Link(d, s, toC, toS, p, g)
<1>1. c \in SockRec /\ p \in ClientPcs /\ MaxData \in Nat /\ MaxRetrans \in Nat
  BY ConnAssumption DEF Link
<1>2. /\ d.hash = c.hash /\ d.bind = c.bind /\ d.snd_una = c.snd_una /\ d.snd_nxt = c.snd_nxt
      /\ d.rcv_nxt = c.rcv_nxt /\ d.ring = c.ring /\ d.buf = c.buf /\ d.persist = c.persist
      /\ d.cnt = c.cnt /\ d.timewait = c.timewait
  BY DEF Keeps, Fields
<1>3. p \in Using /\ c.buf # {}
  BY DEF Link, ClientSock
<1>4. ClientSock(d, p)
  BY <1>1, <1>2, <1>3, SockFields
  DEF Link, ClientSock, Shut, Waiting, Using, Closing, ClientPcs
<1>5. ClientRefs(d, p)
  BY <1>1, <1>2, <1>3, SockFields
  DEF Link, ClientSock, ClientRefs, Owed, Count, Shut, Waiting, Using, ClientPcs
<1>6. EndsFit(d, s, p)
  BY <1>1, <1>2, <1>3, SockFields
  DEF Link, ClientSock, EndsFit, Shut, Waiting, Using, Closing, ClientPcs
<1>7. p # "start" /\ p \in ClientPcs /\ (p \in Shut => p \in Shut)
  BY <1>1, <1>2, <1>3 DEF Link, ClientSock, Shut, Waiting, Using, ClientPcs
<1>8. /\ d.snd_nxt = c.snd_nxt \/ d.snd_nxt = c.snd_nxt + 1
      /\ d.state = "SYN_SENT" => c.state = "SYN_SENT"
  BY <1>1, <1>2, <1>3
<1>9. Link(d, s, toC, toS \cup {}, p, g)
  BY <1>1, <1>4, <1>5, <1>6, <1>7, <1>8, ClientMoves
<1> QED
  BY <1>9

\* The timer of TIME_WAIT: the reference it took pays for the table's.
LEMMA TimeWaitC ==
  ASSUME NEW c, NEW s, NEW toC, NEW toS, NEW p, NEW g, Link(c, s, toC, toS, p, g),
         c.timewait,
         NEW d \in SockRec, Keeps(d, c, {"timewait", "state", "hash", "ref", "freed"}),
         ~d.timewait, d.ref = c.ref - 1, d.state = "CLOSED", d.hash = "gone", ~d.freed
  PROVE  Link(d, s, toC, toS, p, g)
<1>1. c \in SockRec /\ p \in ClientPcs /\ MaxData \in Nat /\ MaxRetrans \in Nat
  BY ConnAssumption DEF Link
<1>2. /\ d.bind = c.bind /\ d.snd_una = c.snd_una /\ d.snd_nxt = c.snd_nxt /\ d.rcv_nxt = c.rcv_nxt
      /\ d.ring = c.ring /\ d.buf = c.buf /\ d.persist = c.persist /\ d.retrans = c.retrans
      /\ d.cnt = c.cnt
  BY DEF Keeps, Fields
<1>3. p = "done"
  BY DEF Link, ClientSock
<1>4. ClientSock(d, p)
  BY <1>1, <1>2, <1>3, SockFields
  DEF Link, ClientSock, Shut, Waiting, Using, Closing, ClientPcs
<1>5. ClientRefs(d, p)
  BY <1>1, <1>2, <1>3, SockFields
  DEF Link, ClientSock, ClientRefs, Owed, Count, Shut, Waiting, Using, ClientPcs
<1>6. EndsFit(d, s, p)
  BY <1>1, <1>2, <1>3, SockFields
  DEF Link, ClientSock, EndsFit, Shut, Waiting, Using, Closing, ClientPcs
<1>7. p # "start" /\ p \in ClientPcs /\ (p \in Shut => p \in Shut)
  BY <1>1, <1>2, <1>3 DEF Link, ClientSock, Shut, Waiting, Using, ClientPcs
<1>8. /\ d.snd_nxt = c.snd_nxt \/ d.snd_nxt = c.snd_nxt + 1
      /\ d.state = "SYN_SENT" => c.state = "SYN_SENT"
  BY <1>1, <1>2, <1>3
<1>9. Link(d, s, toC, toS \cup {}, p, g)
  BY <1>1, <1>4, <1>5, <1>6, <1>7, <1>8, ClientMoves
<1> QED
  BY <1>9

\* The retransmission timer of a closed sock.
LEMMA TimerOfClosedC ==
  ASSUME NEW c, NEW s, NEW toC, NEW toS, NEW p, NEW g, Link(c, s, toC, toS, p, g),
         c.retrans, c.state = "CLOSED",
         NEW d \in SockRec, Keeps(d, c, {"retrans", "state", "hash", "ref", "freed"}),
         ~d.retrans, d.ref = c.ref - 1, d.state = "CLOSED", d.hash = "gone", ~d.freed
  PROVE  Link(d, s, toC, toS, p, g)
<1>1. c \in SockRec /\ p \in ClientPcs /\ MaxData \in Nat /\ MaxRetrans \in Nat
  BY ConnAssumption DEF Link
<1>2. /\ d.bind = c.bind /\ d.snd_una = c.snd_una /\ d.snd_nxt = c.snd_nxt /\ d.rcv_nxt = c.rcv_nxt
      /\ d.ring = c.ring /\ d.buf = c.buf /\ d.persist = c.persist /\ d.cnt = c.cnt
      /\ d.timewait = c.timewait
  BY DEF Keeps, Fields
<1>3. p \in Using
  BY DEF Link, ClientSock
<1>4. ClientSock(d, p)
  BY <1>1, <1>2, <1>3, SockFields
  DEF Link, ClientSock, Shut, Waiting, Using, Closing, ClientPcs
<1>5. ClientRefs(d, p)
  BY <1>1, <1>2, <1>3, SockFields
  DEF Link, ClientSock, ClientRefs, Owed, Count, Shut, Waiting, Using, ClientPcs
<1>6. EndsFit(d, s, p)
  BY <1>1, <1>2, <1>3, SockFields
  DEF Link, ClientSock, EndsFit, Shut, Waiting, Using, Closing, ClientPcs
<1>7. p # "start" /\ p \in ClientPcs /\ (p \in Shut => p \in Shut)
  BY <1>1, <1>2, <1>3 DEF Link, ClientSock, Shut, Waiting, Using, ClientPcs
<1>8. /\ d.snd_nxt = c.snd_nxt \/ d.snd_nxt = c.snd_nxt + 1
      /\ d.state = "SYN_SENT" => c.state = "SYN_SENT"
  BY <1>1, <1>2, <1>3
<1>9. Link(d, s, toC, toS \cup {}, p, g)
  BY <1>1, <1>4, <1>5, <1>6, <1>7, <1>8, ClientMoves
<1> QED
  BY <1>9

\* Connect: the SYN goes out.
LEMMA ConnectC ==
  ASSUME NEW c, NEW s, NEW toC, NEW toS, NEW p, NEW g, Link(c, s, toC, toS, p, g),
         p = "start",
         NEW d \in SockRec, Keeps(d, alloc_tcp_sock, {"state", "hash", "bind", "ref", "snd_nxt"}),
         d.state = "SYN_SENT", d.hash = "linked", d.bind = "self", d.ref = 3, d.snd_nxt = 1,
         NEW m \in SegRec, m.flags = {"SYN"}, m.seq = 0, m.len = 0
  PROVE  Link(d, s, toC, toS \cup {m}, "connecting", g)
<1>1. c \in SockRec /\ s.state = "NONE" /\ toS = {}
  BY DEF Link, EndsFit, ToServer
<1>2. /\ ~d.freed /\ d.ring = 0 /\ d.cnt = 0 /\ d.snd_una = 0 /\ d.buf = {}
      /\ ~d.retrans /\ ~d.persist /\ ~d.timewait
  BY DEF Keeps, Fields, alloc_tcp_sock
<1>3. MaxData \in Nat /\ MaxRetrans \in Nat
  BY ConnAssumption
<1>4. ClientSock(d, "connecting")
  BY <1>2, <1>3, SockFields DEF ClientSock, Shut, Waiting, Using, Closing
<1>5. ClientRefs(d, "connecting")
  BY <1>2, SockFields DEF ClientRefs, Owed, Count
<1>6. EndsFit(d, s, "connecting")
  BY <1>1, <1>2 DEF EndsFit, Shut, Using, Closing
<1>7. ToServer(m, d, "connecting")
  BY SockFields DEF ToServer, Shut
<1> QED
  BY <1>1, <1>4, <1>5, <1>6, <1>7 DEF Link, ClientPcs, Waiting

\* RcvListen, a SYN: the child exists and answers.
LEMMA ListenS ==
  ASSUME NEW c, NEW s, NEW toC, NEW toS, NEW p, NEW g, Link(c, s, toC, toS, p, g),
         NEW seg \in toS, s.state = "NONE", "SYN" \in seg.flags,
         NEW t \in SockRec, Keeps(t, alloc_tcp_sock, {"state", "rcv_nxt", "hash", "ref", "snd_nxt"}),
         t.state = "SYN_RECV", t.hash = "linked", t.ref = 1, t.snd_nxt = 1, t.rcv_nxt = seg.seq + 1,
         NEW m, Msg(m, t, {"SYN", "ACK"}, 0, 0)
  PROVE  Link(c, t, toC \cup {m}, toS, p, g)
<1>1. c \in SockRec /\ s \in SockRec /\ g \in Nat /\ p \in ClientPcs /\ MaxData \in Nat
  BY ConnAssumption DEF Link
<1>2. /\ ~t.freed /\ t.ring = 0 /\ t.cnt = 0 /\ t.snd_una = 0 /\ t.buf = {} /\ t.bind = "null"
      /\ ~t.retrans /\ ~t.persist /\ ~t.timewait
  BY DEF Keeps, Fields, alloc_tcp_sock
<1>3. t.rcv_nxt = 1 /\ p # "start" /\ c.snd_nxt >= 1 /\ g = 0
  BY DEF Link, ToServer, ClientSock, ServerSock
<1>4. ServerSock(t, g)
  BY <1>1, <1>2, <1>3, SockFields DEF Link, ServerSock, Count
<1>5. EndsFit(c, t, p)
  BY <1>1, <1>2, <1>3, SockFields DEF Link, ServerSock, ClientSock, EndsFit, Shut, Using, Waiting, Closing, ClientPcs
<1>6. t.state # "NONE" /\ (s.state \in {"LAST_ACK", "CLOSED"} => t.state \in {"LAST_ACK", "CLOSED"})
  BY <1>1, <1>2, <1>3 DEF Link, ServerSock
<1>7. ToClient(m, t) /\ m \in SegRec
  BY <1>1, <1>2, <1>3, SockFields DEF Link, ServerSock, ToClient, Msg
<1> QED
  BY <1>1, <1>4, <1>5, <1>6, <1>7, ServerMoves

\* RcvSynRecv: the handshake is complete.
LEMMA SynRecvS ==
  ASSUME NEW c, NEW s, NEW toC, NEW toS, NEW p, NEW g, Link(c, s, toC, toS, p, g),
         NEW seg \in toS, s.state = "SYN_RECV", "ACK" \in seg.flags,
         NEW t \in SockRec, Keeps(t, s, {"state", "snd_una", "persist", "ref", "retrans"}),
         t.state = "ESTABLISHED", ~t.retrans, t.ref = s.ref - Count(s.persist) + Count(t.persist),
         \/ t.snd_una = s.snd_una /\ t.persist = s.persist
         \/ t.snd_una = seg.ack /\ t.snd_una <= s.snd_nxt
  PROVE  Link(c, t, toC, toS, p, g)
<1>1. c \in SockRec /\ s \in SockRec /\ g \in Nat /\ p \in ClientPcs /\ MaxData \in Nat
  BY ConnAssumption DEF Link
<1>2. /\ t.hash = s.hash /\ t.bind = s.bind /\ t.freed = s.freed /\ t.snd_nxt = s.snd_nxt
      /\ t.rcv_nxt = s.rcv_nxt /\ t.ring = s.ring /\ t.buf = s.buf /\ t.cnt = s.cnt
      /\ t.timewait = s.timewait
  BY DEF Keeps, Fields
<1>3. seg.ack \in Nat /\ seg.ack >= 1 /\ c.state # "SYN_SENT"
  BY DEF Link, ToServer, SegRec
<1>4. ServerSock(t, g)
  BY <1>1, <1>2, <1>3, SockFields DEF Link, ServerSock, Count
<1>5. EndsFit(c, t, p)
  BY <1>1, <1>2, <1>3, SockFields DEF Link, ServerSock, ClientSock, EndsFit, Shut, Using, Waiting, Closing, ClientPcs
<1>6. t.state # "NONE" /\ (s.state \in {"LAST_ACK", "CLOSED"} => t.state \in {"LAST_ACK", "CLOSED"})
  BY <1>1, <1>2, <1>3 DEF Link, ServerSock
<1>7. g \in Nat
  BY <1>1, SockFields
<1>8. Link(c, t, toC \cup {}, toS, p, g)
  BY <1>1, <1>4, <1>5, <1>6, <1>7, ServerMoves
<1> QED
  BY <1>8

\* RcvFin, the server's side.
LEMMA FinS ==
  ASSUME NEW c, NEW s, NEW toC, NEW toS, NEW p, NEW g, Link(c, s, toC, toS, p, g),
         NEW seg \in toS, s.state = "ESTABLISHED", "FIN" \in seg.flags,
         NEW t \in SockRec, Keeps(t, s, {"rcv_nxt", "state"}), t.state = "CLOSE_WAIT", t.rcv_nxt = seg.seq + 1,
         NEW m, Msg(m, t, {"ACK"}, t.snd_nxt, 0)
  PROVE  Link(c, t, toC \cup {m}, toS, p, g)
<1>1. c \in SockRec /\ s \in SockRec /\ g \in Nat /\ p \in ClientPcs /\ MaxData \in Nat
  BY ConnAssumption DEF Link
<1>2. /\ t.hash = s.hash /\ t.bind = s.bind /\ t.ref = s.ref /\ t.freed = s.freed
      /\ t.snd_una = s.snd_una /\ t.snd_nxt = s.snd_nxt /\ t.ring = s.ring /\ t.buf = s.buf
      /\ t.persist = s.persist /\ t.retrans = s.retrans /\ t.cnt = s.cnt /\ t.timewait = s.timewait
  BY DEF Keeps, Fields
<1>3. seg.seq \in Nat /\ p \in Shut
  BY DEF Link, ToServer, SegRec
<1>4. ServerSock(t, g)
  BY <1>1, <1>2, <1>3, SockFields DEF Link, ServerSock, Count
<1>5. EndsFit(c, t, p)
  BY <1>1, <1>2, <1>3, SockFields DEF Link, ServerSock, ClientSock, EndsFit, Shut, Using, Waiting, Closing, ClientPcs
<1>6. t.state # "NONE" /\ (s.state \in {"LAST_ACK", "CLOSED"} => t.state \in {"LAST_ACK", "CLOSED"})
  BY <1>1, <1>2, <1>3 DEF Link, ServerSock
<1>7. ToClient(m, t) /\ m \in SegRec
  BY <1>1, <1>2, <1>3, SockFields DEF Link, ServerSock, ToClient, Msg
<1> QED
  BY <1>1, <1>4, <1>5, <1>6, <1>7, ServerMoves

\* RcvAck, the server's side: its persist timer stops.
LEMMA AckS ==
  ASSUME NEW c, NEW s, NEW toC, NEW toS, NEW p, NEW g, Link(c, s, toC, toS, p, g),
         NEW seg \in toS, s.state = "ESTABLISHED",
         NEW t \in SockRec, Keeps(t, s, {"buf", "retrans", "ref", "cnt", "snd_una", "persist"}),
         t.buf = {}, ~t.retrans, t.cnt = 0, t.ref = s.ref - Count(s.persist) + Count(t.persist),
         \/ t.snd_una = s.snd_una /\ t.persist = s.persist
         \/ t.snd_una = seg.ack /\ t.snd_una <= s.snd_nxt /\ ~t.persist
  PROVE  Link(c, t, toC, toS, p, g)
<1>1. c \in SockRec /\ s \in SockRec /\ g \in Nat /\ p \in ClientPcs /\ MaxData \in Nat
  BY ConnAssumption DEF Link
<1>2. /\ t.state = s.state /\ t.hash = s.hash /\ t.bind = s.bind /\ t.freed = s.freed
      /\ t.snd_nxt = s.snd_nxt /\ t.rcv_nxt = s.rcv_nxt /\ t.ring = s.ring /\ t.timewait = s.timewait
  BY DEF Keeps, Fields
<1>3. seg.ack \in Nat
  BY DEF Link, SegRec
<1>4. ServerSock(t, g)
  BY <1>1, <1>2, <1>3, SockFields DEF Link, ServerSock, Count
<1>5. EndsFit(c, t, p)
  BY <1>1, <1>2, <1>3, SockFields DEF Link, ServerSock, ClientSock, EndsFit, Shut, Using, Waiting, Closing, ClientPcs
<1>6. t.state # "NONE" /\ (s.state \in {"LAST_ACK", "CLOSED"} => t.state \in {"LAST_ACK", "CLOSED"})
  BY <1>1, <1>2, <1>3 DEF Link, ServerSock
<1>7. g \in Nat
  BY <1>1, SockFields
<1>8. Link(c, t, toC \cup {}, toS, p, g)
  BY <1>1, <1>4, <1>5, <1>6, <1>7, ServerMoves
<1> QED
  BY <1>8

\* An acknowledgement the server sends, its sock as it was.
LEMMA PlainAckS ==
  ASSUME NEW c, NEW s, NEW toC, NEW toS, NEW p, NEW g, Link(c, s, toC, toS, p, g),
         s.state = "ESTABLISHED", NEW m, Msg(m, s, {"ACK"}, s.snd_nxt, 0)
  PROVE  Link(c, s, toC \cup {m}, toS, p, g)
<1>1. c \in SockRec /\ s \in SockRec /\ g \in Nat /\ p \in ClientPcs /\ MaxData \in Nat
  BY ConnAssumption DEF Link
<1>2. ServerSock(s, g)
  BY <1>1, SockFields DEF Link, ServerSock, Count
<1>3. EndsFit(c, s, p)
  BY <1>1, SockFields DEF Link, ServerSock, ClientSock, EndsFit, Shut, Using, Waiting, Closing, ClientPcs
<1>4. s.state # "NONE" /\ (s.state \in {"LAST_ACK", "CLOSED"} => s.state \in {"LAST_ACK", "CLOSED"})
  BY <1>1 DEF Link, ServerSock
<1>5. ToClient(m, s) /\ m \in SegRec
  BY <1>1, SockFields DEF Link, ServerSock, ToClient, Msg
<1> QED
  BY <1>1, <1>2, <1>3, <1>4, <1>5, ServerMoves

\* RcvData, the block expected: it is buffered and acknowledged.
LEMMA DataS ==
  ASSUME NEW c, NEW s, NEW toC, NEW toS, NEW p, NEW g, Link(c, s, toC, toS, p, g),
         NEW seg \in toS, s.state = "ESTABLISHED", seg.len = 1, seg.seq = s.rcv_nxt,
         NEW t \in SockRec, Keeps(t, s, {"rcv_nxt", "ring"}),
         t.rcv_nxt = s.rcv_nxt + 1, t.ring = s.ring + 1,
         NEW m, Msg(m, t, {"ACK"}, t.snd_nxt, 0)
  PROVE  Link(c, t, toC \cup {m}, toS, p, g)
<1>1. c \in SockRec /\ s \in SockRec /\ g \in Nat /\ p \in ClientPcs /\ MaxData \in Nat
  BY ConnAssumption DEF Link
<1>2. /\ t.state = s.state /\ t.hash = s.hash /\ t.bind = s.bind /\ t.ref = s.ref
      /\ t.freed = s.freed /\ t.snd_una = s.snd_una /\ t.snd_nxt = s.snd_nxt /\ t.buf = s.buf
      /\ t.persist = s.persist /\ t.retrans = s.retrans /\ t.cnt = s.cnt /\ t.timewait = s.timewait
  BY DEF Keeps, Fields
<1>3. seg.seq <= MaxData /\ seg.seq < c.snd_nxt
  BY DEF Link, ToServer
<1>4. ServerSock(t, g)
  BY <1>1, <1>2, <1>3, SockFields DEF Link, ServerSock, Count
<1>5. EndsFit(c, t, p)
  BY <1>1, <1>2, <1>3, SockFields DEF Link, ServerSock, ClientSock, EndsFit, Shut, Using, Waiting, Closing, ClientPcs
<1>6. t.state # "NONE" /\ (s.state \in {"LAST_ACK", "CLOSED"} => t.state \in {"LAST_ACK", "CLOSED"})
  BY <1>1, <1>2, <1>3 DEF Link, ServerSock
<1>7. ToClient(m, t) /\ m \in SegRec
  BY <1>1, <1>2, <1>3, SockFields DEF Link, ServerSock, ToClient, Msg
<1> QED
  BY <1>1, <1>4, <1>5, <1>6, <1>7, ServerMoves

\* RcvCloseWait, the server's side: its FIN goes out.
LEMMA CloseWaitS ==
  ASSUME NEW c, NEW s, NEW toC, NEW toS, NEW p, NEW g, Link(c, s, toC, toS, p, g),
         NEW seg \in toS, s.state = "CLOSE_WAIT",
         NEW t \in SockRec, Keeps(t, s, {"state", "rcv_nxt", "snd_nxt"}), t.state = "LAST_ACK",
         t.rcv_nxt = seg.seq + 1, t.snd_nxt = s.snd_nxt + 1,
         NEW m, Msg(m, t, {"ACK", "FIN"}, s.snd_nxt, 0)
  PROVE  Link(c, t, toC \cup {m}, toS, p, g)
<1>1. c \in SockRec /\ s \in SockRec /\ g \in Nat /\ p \in ClientPcs /\ MaxData \in Nat
  BY ConnAssumption DEF Link
<1>2. /\ t.hash = s.hash /\ t.bind = s.bind /\ t.ref = s.ref /\ t.freed = s.freed
      /\ t.snd_una = s.snd_una /\ t.ring = s.ring /\ t.buf = s.buf /\ t.persist = s.persist
      /\ t.retrans = s.retrans /\ t.cnt = s.cnt /\ t.timewait = s.timewait
  BY DEF Keeps, Fields
<1>3. seg.seq \in Nat
  BY DEF Link, SegRec
<1>4. ServerSock(t, g)
  BY <1>1, <1>2, <1>3, SockFields DEF Link, ServerSock, Count
<1>5. EndsFit(c, t, p)
  BY <1>1, <1>2, <1>3, SockFields DEF Link, ServerSock, ClientSock, EndsFit, Shut, Using, Waiting, Closing, ClientPcs
<1>6. t.state # "NONE" /\ (s.state \in {"LAST_ACK", "CLOSED"} => t.state \in {"LAST_ACK", "CLOSED"})
  BY <1>1, <1>2, <1>3 DEF Link, ServerSock
<1>7. ToClient(m, t) /\ m \in SegRec
  BY <1>1, <1>2, <1>3, SockFields DEF Link, ServerSock, ToClient, Msg
<1> QED
  BY <1>1, <1>4, <1>5, <1>6, <1>7, ServerMoves

\* RcvLastAck, the server's side.
LEMMA LastAckS ==
  ASSUME NEW c, NEW s, NEW toC, NEW toS, NEW p, NEW g, Link(c, s, toC, toS, p, g),
         s.state = "LAST_ACK",
         NEW t \in SockRec, Keeps(t, s, {"buf", "retrans", "ref", "cnt", "state"}), t.state = "CLOSED",
         t.buf = {}, ~t.retrans, t.cnt = 0, t.ref = s.ref
  PROVE  Link(c, t, toC, toS, p, g)
<1>1. c \in SockRec /\ s \in SockRec /\ g \in Nat /\ p \in ClientPcs /\ MaxData \in Nat
  BY ConnAssumption DEF Link
<1>2. /\ t.hash = s.hash /\ t.bind = s.bind /\ t.freed = s.freed /\ t.snd_una = s.snd_una
      /\ t.snd_nxt = s.snd_nxt /\ t.rcv_nxt = s.rcv_nxt /\ t.ring = s.ring /\ t.persist = s.persist
      /\ t.timewait = s.timewait
  BY DEF Keeps, Fields
<1>3. ServerSock(t, g)
  BY <1>1, <1>2, SockFields DEF Link, ServerSock, Count
<1>4. EndsFit(c, t, p)
  BY <1>1, <1>2, SockFields DEF Link, ServerSock, ClientSock, EndsFit, Shut, Using, Waiting, Closing, ClientPcs
<1>5. t.state # "NONE" /\ (s.state \in {"LAST_ACK", "CLOSED"} => t.state \in {"LAST_ACK", "CLOSED"})
  BY <1>1, <1>2 DEF Link, ServerSock
<1>6. g \in Nat
  BY <1>1, SockFields
<1>7. Link(c, t, toC \cup {}, toS, p, g)
  BY <1>1, <1>3, <1>4, <1>5, <1>6, ServerMoves
<1> QED
  BY <1>7

\* ReadLoop takes what the ring holds.
LEMMA ReadS ==
  ASSUME NEW c, NEW s, NEW toC, NEW toS, NEW p, NEW g, Link(c, s, toC, toS, p, g),
         s.state # "NONE",
         NEW t \in SockRec, Keeps(t, s, {"ring"}), t.ring = 0
  PROVE  Link(c, t, toC, toS, p, g + s.ring)
<1>1. c \in SockRec /\ s \in SockRec /\ g \in Nat /\ p \in ClientPcs /\ MaxData \in Nat
  BY ConnAssumption DEF Link
<1>2. /\ t.state = s.state /\ t.hash = s.hash /\ t.bind = s.bind /\ t.ref = s.ref
      /\ t.freed = s.freed /\ t.snd_una = s.snd_una /\ t.snd_nxt = s.snd_nxt /\ t.rcv_nxt = s.rcv_nxt
      /\ t.buf = s.buf /\ t.persist = s.persist /\ t.retrans = s.retrans /\ t.cnt = s.cnt
      /\ t.timewait = s.timewait
  BY DEF Keeps, Fields
<1>3. ServerSock(t, g + s.ring)
  BY <1>1, <1>2, SockFields DEF Link, ServerSock, Count
<1>4. EndsFit(c, t, p)
  BY <1>1, <1>2, SockFields DEF Link, ServerSock, ClientSock, EndsFit, Shut, Using, Waiting, Closing, ClientPcs
<1>5. t.state # "NONE" /\ (s.state \in {"LAST_ACK", "CLOSED"} => t.state \in {"LAST_ACK", "CLOSED"})
  BY <1>1, <1>2 DEF Link, ServerSock
<1>6. g + s.ring \in Nat
  BY <1>1, SockFields
<1>7. Link(c, t, toC \cup {}, toS, p, g + s.ring)
  BY <1>1, <1>3, <1>4, <1>5, <1>6, ServerMoves
<1> QED
  BY <1>7

\* CloseLastAck.
LEMMA CloseLastAckS ==
  ASSUME NEW c, NEW s, NEW toC, NEW toS, NEW p, NEW g, Link(c, s, toC, toS, p, g),
         s.state = "CLOSE_WAIT",
         NEW t \in SockRec, Keeps(t, s, {"state"}), t.state = "LAST_ACK"
  PROVE  Link(c, t, toC, toS, p, g)
<1>1. c \in SockRec /\ s \in SockRec /\ g \in Nat /\ p \in ClientPcs /\ MaxData \in Nat
  BY ConnAssumption DEF Link
<1>2. /\ t.hash = s.hash /\ t.bind = s.bind /\ t.ref = s.ref /\ t.freed = s.freed
      /\ t.snd_una = s.snd_una /\ t.snd_nxt = s.snd_nxt /\ t.rcv_nxt = s.rcv_nxt /\ t.ring = s.ring
      /\ t.buf = s.buf /\ t.persist = s.persist /\ t.retrans = s.retrans /\ t.cnt = s.cnt
      /\ t.timewait = s.timewait
  BY DEF Keeps, Fields
<1>3. ServerSock(t, g)
  BY <1>1, <1>2, SockFields DEF Link, ServerSock, Count
<1>4. EndsFit(c, t, p)
  BY <1>1, <1>2, SockFields DEF Link, ServerSock, ClientSock, EndsFit, Shut, Using, Waiting, Closing, ClientPcs
<1>5. t.state # "NONE" /\ (s.state \in {"LAST_ACK", "CLOSED"} => t.state \in {"LAST_ACK", "CLOSED"})
  BY <1>1, <1>2 DEF Link, ServerSock
<1>6. g \in Nat
  BY <1>1, SockFields
<1>7. Link(c, t, toC \cup {}, toS, p, g)
  BY <1>1, <1>3, <1>4, <1>5, <1>6, ServerMoves
<1> QED
  BY <1>7

\* CloseSend: the FIN of the server's application.
LEMMA CloseSendS ==
  ASSUME NEW c, NEW s, NEW toC, NEW toS, NEW p, NEW g, Link(c, s, toC, toS, p, g),
         s.state \in {"LAST_ACK", "CLOSED"}, s.snd_nxt = 1,
         NEW t \in SockRec, Keeps(t, s, {"snd_nxt"}), t.snd_nxt = s.snd_nxt + 1,
         NEW m, Msg(m, s, {"FIN", "ACK"}, s.snd_nxt, 0)
  PROVE  Link(c, t, toC \cup {m}, toS, p, g)
<1>1. c \in SockRec /\ s \in SockRec /\ g \in Nat /\ p \in ClientPcs /\ MaxData \in Nat
  BY ConnAssumption DEF Link
<1>2. /\ t.state = s.state /\ t.hash = s.hash /\ t.bind = s.bind /\ t.ref = s.ref
      /\ t.freed = s.freed /\ t.snd_una = s.snd_una /\ t.rcv_nxt = s.rcv_nxt /\ t.ring = s.ring
      /\ t.buf = s.buf /\ t.persist = s.persist /\ t.retrans = s.retrans /\ t.cnt = s.cnt
      /\ t.timewait = s.timewait
  BY DEF Keeps, Fields
<1>3. ServerSock(t, g)
  BY <1>1, <1>2, SockFields DEF Link, ServerSock, Count
<1>4. EndsFit(c, t, p)
  BY <1>1, <1>2, SockFields DEF Link, ServerSock, ClientSock, EndsFit, Shut, Using, Waiting, Closing, ClientPcs
<1>5. t.state # "NONE" /\ (s.state \in {"LAST_ACK", "CLOSED"} => t.state \in {"LAST_ACK", "CLOSED"})
  BY <1>1, <1>2 DEF Link, ServerSock
<1>6. ToClient(m, t) /\ m \in SegRec
  BY <1>1, <1>2, SockFields DEF Link, ServerSock, ToClient, Msg
<1> QED
  BY <1>1, <1>3, <1>4, <1>5, <1>6, ServerMoves

\* The persist timer of a child.
LEMMA ProbeS ==
  ASSUME NEW c, NEW s, NEW toC, NEW toS, NEW p, NEW g, Link(c, s, toC, toS, p, g),
         s.persist, NEW t \in SockRec, Keeps(t, s, {"probes"}),
         NEW m, Msg(m, s, {"PSH", "ACK"}, 0, 1)
  PROVE  Link(c, t, toC \cup {m}, toS, p, g)
<1>1. c \in SockRec /\ s \in SockRec /\ g \in Nat /\ p \in ClientPcs /\ MaxData \in Nat
  BY ConnAssumption DEF Link
<1>2. /\ t.state = s.state /\ t.hash = s.hash /\ t.bind = s.bind /\ t.ref = s.ref
      /\ t.freed = s.freed /\ t.snd_una = s.snd_una /\ t.snd_nxt = s.snd_nxt /\ t.rcv_nxt = s.rcv_nxt
      /\ t.ring = s.ring /\ t.buf = s.buf /\ t.persist = s.persist /\ t.retrans = s.retrans
      /\ t.cnt = s.cnt /\ t.timewait = s.timewait
  BY DEF Keeps, Fields
<1>3. ServerSock(t, g)
  BY <1>1, <1>2, SockFields DEF Link, ServerSock, Count
<1>4. EndsFit(c, t, p)
  BY <1>1, <1>2, SockFields DEF Link, ServerSock, ClientSock, EndsFit, Shut, Using, Waiting, Closing, ClientPcs
<1>5. t.state # "NONE" /\ (s.state \in {"LAST_ACK", "CLOSED"} => t.state \in {"LAST_ACK", "CLOSED"})
  BY <1>1, <1>2 DEF Link, ServerSock
<1>6. ToClient(m, t) /\ m \in SegRec
  BY <1>1, <1>2, SockFields DEF Link, ServerSock, ToClient, Msg
<1> QED
  BY <1>1, <1>3, <1>4, <1>5, <1>6, ServerMoves

-----------------------------------------------------------------------------
(***************************************************************************)
(* The handlers of tcp_process, the calls of the application and the       *)
(* timers, on one connection: what each computes keeps the link.           *)
(***************************************************************************)

\* Every timer of a client's sock has its reference, and one more is left.
LEMMA RefsLeft ==
  ASSUME NEW c, NEW s, NEW toC, NEW toS, NEW p, NEW g, Link(c, s, toC, toS, p, g), p # "start"
  PROVE  /\ c \in SockRec
         /\ c.ref >= 1 + Count(c.persist) + Count(c.retrans) + Count(c.timewait)
         /\ c.persist => c.ref > 1
         /\ c.retrans => c.ref > 2 + Count(c.persist)
         /\ c.timewait => c.ref > 1
<1>1. c \in SockRec /\ c.ref \in Nat /\ c.persist \in BOOLEAN /\ c.retrans \in BOOLEAN /\ c.timewait \in BOOLEAN
  BY SockFields DEF Link
<1>2. c.ref + 2 >= Owed(c) /\ (c.retrans => c.ref + 1 >= Owed(c))
  BY DEF Link, ClientRefs
<1> QED
  BY <1>1, <1>2 DEF Owed, Count

\* tcp_update_window_safe when the window is open, and when it is not
OpenWindow(s, seg) == UpdateWindow(s, seg, TRUE)
ClosedWindow(s, seg) == UpdateWindow(s, seg, FALSE)

\* tcp_update_window_safe when the window is open.
LEMMA OpenWindowIs ==
  ASSUME NEW s \in SockRec, NEW seg \in SegRec, s.persist => s.ref > 0,
         NEW t, t = OpenWindow(s, seg)
  PROVE  /\ t \in SockRec /\ Keeps(t, s, {"snd_una", "persist", "ref"})
         /\ t.ref = s.ref - Count(s.persist) + Count(t.persist)
         /\ \/ t.snd_una = s.snd_una /\ t.persist = s.persist
            \/ t.snd_una = seg.ack /\ t.snd_una <= s.snd_nxt /\ ~t.persist
<1>1. CASE ~(s.snd_una <= seg.ack /\ seg.ack <= s.snd_nxt)
  <2>1. t = s
    BY <1>1 DEF OpenWindow, UpdateWindow
  <2> QED
    BY <2>1, SockFields DEF Keeps, Count
<1>2. CASE s.snd_una <= seg.ack /\ seg.ack <= s.snd_nxt
  <2> DEFINE r == IF s.persist THEN s.ref - 1 ELSE s.ref
             u == [s EXCEPT !.snd_una = seg.ack]
             v == [u EXCEPT !.persist = FALSE]
             w == [v EXCEPT !.ref = r]
  <2>1. t = w
    BY <1>2 DEF OpenWindow, UpdateWindow, SockRec
  <2>2. r \in Nat /\ r = s.ref - Count(s.persist)
    BY SockFields DEF Count
  <2> HIDE DEF r
  <2>3. u \in SockRec
    BY SockExcept DEF SegRec
  <2>4. Keeps(u, s, {"snd_una"}) /\ u.snd_una = seg.ack
    BY DEF Keeps, Fields, SockRec
  <2> HIDE DEF u
  <2>5. v \in SockRec
    BY <2>3, SockExcept
  <2>6. Keeps(v, u, {"persist"}) /\ ~v.persist
    BY <2>3 DEF Keeps, Fields, SockRec
  <2> HIDE DEF v
  <2>7. w \in SockRec
    BY <2>2, <2>5, SockExcept
  <2>8. Keeps(w, v, {"ref"}) /\ w.ref = r
    BY <2>5 DEF Keeps, Fields, SockRec
  <2> HIDE DEF w
  <2>9. Keeps(w, s, {"snd_una", "persist", "ref"}) /\ w.snd_una = seg.ack /\ ~w.persist
    BY <2>4, <2>6, <2>8 DEF Keeps, Fields
  <2>10. w.ref = s.ref - Count(s.persist) + Count(w.persist)
    BY <2>2, <2>8, <2>9 DEF Count
  <2> QED
    BY <1>2, <2>1, <2>7, <2>9, <2>10
<1> QED
  BY <1>1, <1>2

\* And when it is not.
LEMMA ClosedWindowIs ==
  ASSUME NEW s \in SockRec, NEW seg \in SegRec, s.persist => s.ref > 0,
         NEW t, t = ClosedWindow(s, seg)
  PROVE  /\ t \in SockRec /\ Keeps(t, s, {"snd_una", "persist", "ref"})
         /\ t.ref = s.ref - Count(s.persist) + Count(t.persist)
         /\ \/ t.snd_una = s.snd_una /\ t.persist = s.persist
            \/ t.snd_una = seg.ack /\ t.snd_una <= s.snd_nxt
BY UpdateWindowIs DEF ClosedWindow

\* a sock that has buffered the segment it expected
BlockIn(s, seg) == [s EXCEPT !.rcv_nxt = SeqEnd(seg), !.ring = @ + seg.len]

\* Its fields.
LEMMA BlockInIs ==
  ASSUME NEW s \in SockRec, NEW seg \in SegRec, NEW t, t = BlockIn(s, seg)
  PROVE  /\ t \in SockRec /\ Keeps(t, s, {"rcv_nxt", "ring"})
         /\ t.rcv_nxt = seg.seq + seg.len /\ t.ring = s.ring + seg.len
<1> DEFINE n == seg.seq + seg.len
           r == s.ring + seg.len
           u == [s EXCEPT !.rcv_nxt = n]
           v == [u EXCEPT !.ring = r]
<1>1. n \in Nat /\ r \in Nat
  BY SockFields DEF SegRec
<1>2. t = v
  BY DEF SockRec, BlockIn, SeqEnd
<1> HIDE DEF n, r
<1>3. u \in SockRec
  BY <1>1, SockExcept
<1>4. Keeps(u, s, {"rcv_nxt"}) /\ u.rcv_nxt = n
  BY DEF Keeps, Fields, SockRec
<1> HIDE DEF u
<1>5. v \in SockRec
  BY <1>1, <1>3, SockExcept
<1>6. Keeps(v, u, {"ring"}) /\ v.ring = r
  BY <1>3 DEF Keeps, Fields, SockRec
<1> HIDE DEF v
<1>7. Keeps(v, s, {"rcv_nxt", "ring"}) /\ v.rcv_nxt = n /\ v.ring = r
  BY <1>4, <1>6 DEF Keeps, Fields
<1> QED
  BY <1>2, <1>5, <1>7 DEF n, r

\* RcvSynSent.
LEMMA SynSentLink ==
  ASSUME NEW c, NEW s, NEW toC, NEW toS, NEW p, NEW g, Link(c, s, toC, toS, p, g),
         NEW seg \in toC, c.state = "SYN_SENT",
         NEW t, t = UnsetRetrans(ClosedWindow(UpdateSendBuffer(
                      RcvState(c, seg.seq + 1, "ESTABLISHED"), seg.ack), seg))
  PROVE  t \in SockRec /\ Link(t, s, toC, toS \cup {Control(t, {"ACK"})}, p, g)
<1> DEFINE u == RcvState(c, seg.seq + 1, "ESTABLISHED")
           v == UpdateSendBuffer(u, seg.ack)
           w == ClosedWindow(v, seg)
<1>1. /\ c \in SockRec /\ seg \in SegRec /\ seg.seq + 1 \in Nat
      /\ p \in Waiting /\ ~c.persist /\ ~c.retrans /\ c.buf = {} /\ c.ref \in Nat
      /\ "ESTABLISHED" \in States
  BY SockFields DEF States, Link, SegRec, ClientSock, Waiting, Using, Shut
<1>2. /\ u \in SockRec /\ Keeps(u, c, {"rcv_nxt", "state"})
      /\ u.rcv_nxt = seg.seq + 1 /\ u.state = "ESTABLISHED"
  BY <1>1, RcvStateIs
<1> HIDE DEF u
<1>3. ~u.persist /\ ~u.retrans /\ u.buf = {} /\ u.ref = c.ref /\ u.cnt = c.cnt /\ u.snd_nxt = c.snd_nxt /\ u.snd_una = c.snd_una
  BY <1>1, <1>2 DEF Keeps, Fields
<1>4. /\ v \in SockRec /\ Keeps(v, u, {"buf", "retrans", "ref", "cnt"})
      /\ v.buf = {} /\ ~v.retrans /\ v.ref = u.ref - Count(u.retrans) + Count(v.retrans) /\ v.cnt \in {0, u.cnt}
  BY <1>2, <1>3, UpdateSendBufferIs
<1> HIDE DEF v
<1>5. /\ ~v.persist /\ v.ref = c.ref /\ v.cnt \in {0, c.cnt} /\ v.snd_nxt = c.snd_nxt /\ v.snd_una = c.snd_una
  BY <1>1, <1>3, <1>4 DEF Keeps, Fields, Count
<1>6. /\ w \in SockRec /\ Keeps(w, v, {"snd_una", "persist", "ref"})
      /\ w.ref = v.ref - Count(v.persist) + Count(w.persist)
      /\ \/ w.snd_una = v.snd_una /\ w.persist = v.persist
         \/ w.snd_una = seg.ack /\ w.snd_una <= v.snd_nxt
  BY <1>1, <1>4, <1>5, ClosedWindowIs
<1> HIDE DEF w
<1>7. /\ ~w.retrans /\ w.buf = {} /\ w.ref = c.ref + Count(w.persist) /\ w.cnt \in {0, c.cnt}
      /\ \/ w.snd_una = c.snd_una /\ ~w.persist
         \/ w.snd_una = seg.ack /\ w.snd_una <= c.snd_nxt
  BY <1>1, <1>4, <1>5, <1>6 DEF Keeps, Fields, Count
<1>8. t = w
  BY <1>7 DEF UnsetRetrans, u, v, w
<1>9. /\ Keeps(w, c, {"rcv_nxt", "state", "buf", "retrans", "ref", "cnt", "snd_una", "persist"})
      /\ w.state = "ESTABLISHED" /\ w.rcv_nxt = seg.seq + 1
  <2>1. Keeps(v, c, {"rcv_nxt", "state", "buf", "retrans", "ref", "cnt"})
    BY <1>2, <1>4 DEF Keeps, Fields
  <2>2. Keeps(w, c, {"rcv_nxt", "state", "buf", "retrans", "ref", "cnt", "snd_una", "persist"})
    BY <1>6, <2>1 DEF Keeps, Fields
  <2> QED
    BY <1>2, <1>4, <1>6, <2>2 DEF Keeps, Fields
<1>10. Msg(Control(w, {"ACK"}), w, {"ACK"}, w.snd_nxt, 0)
  BY <1>6, ControlIs
<1> QED
  BY <1>6, <1>7, <1>8, <1>9, <1>10, SynSentC

\* RcvFin, the client's side.
LEMMA FinLinkC ==
  ASSUME NEW c, NEW s, NEW toC, NEW toS, NEW p, NEW g, Link(c, s, toC, toS, p, g),
         NEW seg \in toC, c.state = "ESTABLISHED", "FIN" \in seg.flags,
         NEW t, t = RcvState(c, seg.seq + 1, "CLOSE_WAIT")
  PROVE  t \in SockRec /\ Link(t, s, toC, toS \cup {Control(t, {"ACK"})}, p, g)
<1>1. c \in SockRec /\ seg.seq + 1 \in Nat /\ "CLOSE_WAIT" \in States
  BY DEF Link, SegRec, States
<1>2. /\ t \in SockRec /\ Keeps(t, c, {"rcv_nxt", "state"})
      /\ t.rcv_nxt = seg.seq + 1 /\ t.state = "CLOSE_WAIT"
  BY <1>1, RcvStateIs
<1>3. Msg(Control(t, {"ACK"}), t, {"ACK"}, t.snd_nxt, 0)
  BY <1>2, ControlIs
<1> QED
  BY <1>2, <1>3, FinC

\* RcvFin, the server's side.
LEMMA FinLinkS ==
  ASSUME NEW c, NEW s, NEW toC, NEW toS, NEW p, NEW g, Link(c, s, toC, toS, p, g),
         NEW seg \in toS, s.state = "ESTABLISHED", "FIN" \in seg.flags,
         NEW t, t = RcvState(s, seg.seq + 1, "CLOSE_WAIT")
  PROVE  /\ t \in SockRec /\ t.state = "CLOSE_WAIT"
         /\ Link(c, t, toC \cup {Control(t, {"ACK"})}, toS, p, g)
<1>1. s \in SockRec /\ seg.seq + 1 \in Nat /\ "CLOSE_WAIT" \in States
  BY DEF Link, SegRec, States
<1>2. /\ t \in SockRec /\ Keeps(t, s, {"rcv_nxt", "state"})
      /\ t.rcv_nxt = seg.seq + 1 /\ t.state = "CLOSE_WAIT"
  BY <1>1, RcvStateIs
<1>3. Msg(Control(t, {"ACK"}), t, {"ACK"}, t.snd_nxt, 0)
  BY <1>2, ControlIs
<1> QED
  BY <1>2, <1>3, FinS

\* RcvAck, the client's side.
LEMMA AckLinkC ==
  ASSUME NEW c, NEW s, NEW toC, NEW toS, NEW p, NEW g, Link(c, s, toC, toS, p, g),
         NEW seg \in toC, c.state = "ESTABLISHED",
         NEW t, t = OpenWindow(UpdateSendBuffer(c, seg.ack), seg)
  PROVE  t \in SockRec /\ Link(t, s, toC, toS, p, g)
<1> DEFINE v == UpdateSendBuffer(c, seg.ack)
<1>1. c \in SockRec /\ seg \in SegRec /\ p # "start" /\ c.ref \in Nat /\ c.snd_una \in Nat
  BY SockFields DEF Link, SegRec, ClientSock, alloc_tcp_sock
<1>2. (c.retrans => c.ref > 2 + Count(c.persist)) /\ (c.persist => c.ref > 1)
  BY <1>1, RefsLeft
<1>3. c.retrans => c.ref > 0
  BY <1>1, <1>2 DEF Count
<1>4. /\ v \in SockRec /\ Keeps(v, c, {"buf", "retrans", "ref", "cnt"})
      /\ v.buf = {q \in c.buf : q >= seg.ack} /\ (v.buf = {} => ~v.retrans)
      /\ (v.buf # {} => (v.retrans <=> c.retrans))
      /\ v.ref = c.ref - Count(c.retrans) + Count(v.retrans) /\ v.cnt \in {0, c.cnt}
  BY <1>1, <1>3, UpdateSendBufferIs
<1> HIDE DEF v
<1>5. v.persist = c.persist /\ v.snd_nxt = c.snd_nxt /\ v.snd_una = c.snd_una
  BY <1>4 DEF Keeps, Fields
<1>6. v.persist => v.ref > 0
  BY <1>1, <1>2, <1>4, <1>5, SockFields DEF Count
<1>7. t = OpenWindow(v, seg)
  BY DEF v
<1>8. /\ t \in SockRec /\ Keeps(t, v, {"snd_una", "persist", "ref"})
      /\ t.ref = v.ref - Count(v.persist) + Count(t.persist)
      /\ \/ t.snd_una = v.snd_una /\ t.persist = v.persist
         \/ t.snd_una = seg.ack /\ t.snd_una <= v.snd_nxt /\ ~t.persist
  BY <1>1, <1>4, <1>6, <1>7, OpenWindowIs
<1>9. Keeps(t, c, {"buf", "retrans", "ref", "cnt", "snd_una", "persist"})
  BY <1>4, <1>8 DEF Keeps, Fields
<1>10. t.buf = v.buf /\ t.retrans = v.retrans /\ t.cnt = v.cnt
  BY <1>8 DEF Keeps, Fields
<1>11. /\ t.buf \subseteq c.buf /\ (t.buf = {} => ~t.retrans) /\ (t.retrans => c.retrans) /\ t.cnt \in {0, c.cnt}
  BY <1>4, <1>10
<1>12. t.ref = c.ref - Count(c.retrans) + Count(t.retrans) - Count(c.persist) + Count(t.persist)
  <2>1. /\ Count(c.retrans) \in Nat /\ Count(t.retrans) \in Nat
        /\ Count(c.persist) \in Nat /\ Count(t.persist) \in Nat
    BY DEF Count
  <2>2. t.ref = v.ref - Count(c.persist) + Count(t.persist)
    BY <1>5, <1>8
  <2>3. v.ref = c.ref - Count(c.retrans) + Count(t.retrans)
    BY <1>4, <1>10
  <2> QED
    BY <1>1, <2>1, <2>2, <2>3
<1>13. \/ t.snd_una = c.snd_una /\ t.persist = c.persist
       \/ t.snd_una = seg.ack /\ t.snd_una <= c.snd_nxt /\ ~t.persist
  BY <1>5, <1>8
<1> QED
  BY <1>8, <1>9, <1>11, <1>12, <1>13, AckC

\* A child has no send buffer: tcp_update_send_buffer leaves it as it was.
LEMMA ChildBuffer ==
  ASSUME NEW s \in SockRec, NEW ack, s.buf = {}, ~s.retrans, s.cnt = 0,
         NEW t, t = UpdateSendBuffer(s, ack)
  PROVE  /\ t \in SockRec /\ Keeps(t, s, {"buf", "retrans", "ref", "cnt"})
         /\ t.buf = {} /\ ~t.retrans /\ t.cnt = 0 /\ t.ref = s.ref
<1>1. /\ t \in SockRec /\ Keeps(t, s, {"buf", "retrans", "ref", "cnt"})
      /\ t.buf = {} /\ ~t.retrans /\ t.cnt \in {0, s.cnt}
      /\ t.ref = s.ref - Count(s.retrans) + Count(t.retrans)
  BY UpdateSendBufferIs
<1> QED
  BY <1>1, SockFields DEF Count

\* RcvAck, the server's side.
LEMMA AckLinkS ==
  ASSUME NEW c, NEW s, NEW toC, NEW toS, NEW p, NEW g, Link(c, s, toC, toS, p, g),
         NEW seg \in toS, s.state = "ESTABLISHED",
         NEW t, t = OpenWindow(UpdateSendBuffer(s, seg.ack), seg)
  PROVE  t \in SockRec /\ t.state = "ESTABLISHED" /\ Link(c, t, toC, toS, p, g)
<1> DEFINE v == UpdateSendBuffer(s, seg.ack)
<1>1. s \in SockRec /\ seg \in SegRec /\ s.buf = {} /\ ~s.retrans /\ s.cnt = 0
  BY DEF Link, ServerSock
<1>2. /\ v \in SockRec /\ Keeps(v, s, {"buf", "retrans", "ref", "cnt"})
      /\ v.buf = {} /\ ~v.retrans /\ v.cnt = 0 /\ v.ref = s.ref
  BY <1>1, ChildBuffer
<1> HIDE DEF v
<1>3. v.persist = s.persist /\ v.snd_nxt = s.snd_nxt /\ v.snd_una = s.snd_una
  BY <1>2 DEF Keeps, Fields
<1>4. v.persist => v.ref > 0
  BY <1>2, <1>3 DEF Link, ServerSock, Count
<1>5. t = OpenWindow(v, seg)
  BY DEF v
<1>6. /\ t \in SockRec /\ Keeps(t, v, {"snd_una", "persist", "ref"})
      /\ t.ref = v.ref - Count(v.persist) + Count(t.persist)
      /\ \/ t.snd_una = v.snd_una /\ t.persist = v.persist
         \/ t.snd_una = seg.ack /\ t.snd_una <= v.snd_nxt /\ ~t.persist
  BY <1>1, <1>2, <1>4, <1>5, OpenWindowIs
<1>7. Keeps(t, s, {"buf", "retrans", "ref", "cnt", "snd_una", "persist"})
  BY <1>2, <1>6 DEF Keeps, Fields
<1>8. t.buf = {} /\ ~t.retrans /\ t.cnt = 0 /\ t.state = "ESTABLISHED"
  BY <1>2, <1>6, <1>7 DEF Keeps, Fields
<1>9. /\ t.ref = s.ref - Count(s.persist) + Count(t.persist)
      /\ \/ t.snd_una = s.snd_una /\ t.persist = s.persist
         \/ t.snd_una = seg.ack /\ t.snd_una <= s.snd_nxt /\ ~t.persist
  BY <1>2, <1>3, <1>6
<1> QED
  BY <1>6, <1>7, <1>8, <1>9, AckS

\* An acknowledgement sent with the sock as it is.
LEMMA PlainAckLink ==
  ASSUME NEW c, NEW s, NEW toC, NEW toS, NEW p, NEW g, Link(c, s, toC, toS, p, g)
  PROVE  /\ c.state = "ESTABLISHED" => Link(c, s, toC, toS \cup {Control(c, {"ACK"})}, p, g)
         /\ s.state = "ESTABLISHED" => Link(c, s, toC \cup {Control(s, {"ACK"})}, toS, p, g)
<1>1. /\ Msg(Control(c, {"ACK"}), c, {"ACK"}, c.snd_nxt, 0)
      /\ Msg(Control(s, {"ACK"}), s, {"ACK"}, s.snd_nxt, 0)
  BY ControlIs DEF Link
<1> QED
  BY <1>1, PlainAckC, PlainAckS

\* RcvData, the server's side: the block expected.
LEMMA DataLinkS ==
  ASSUME NEW c, NEW s, NEW toC, NEW toS, NEW p, NEW g, Link(c, s, toC, toS, p, g),
         NEW seg \in toS, s.state = "ESTABLISHED", seg.len > 0, seg.seq = s.rcv_nxt,
         NEW t, t = BlockIn(s, seg)
  PROVE  /\ t \in SockRec /\ t.state = "ESTABLISHED"
         /\ Link(c, t, toC \cup {Control(t, {"ACK"})}, toS, p, g)
<1>1. s \in SockRec /\ seg \in SegRec /\ seg.len = 1
  BY DEF Link, SegRec
<1>2. /\ t \in SockRec /\ Keeps(t, s, {"rcv_nxt", "ring"})
      /\ t.rcv_nxt = seg.seq + seg.len /\ t.ring = s.ring + seg.len
  BY <1>1, BlockInIs
<1>3. t.state = "ESTABLISHED"
  BY <1>2 DEF Keeps, Fields
<1>4. Msg(Control(t, {"ACK"}), t, {"ACK"}, t.snd_nxt, 0)
  BY <1>2, ControlIs
<1>5. t.rcv_nxt = s.rcv_nxt + 1 /\ t.ring = s.ring + 1
  BY <1>1, <1>2
<1> QED
  BY <1>1, <1>2, <1>3, <1>4, <1>5, DataS

\* RcvCloseWait, at either end: what becomes of the sock.
LEMMA CloseWaitIs ==
  ASSUME NEW s \in SockRec, NEW n \in Nat, NEW u, u = RcvState(s, n, "LAST_ACK"),
         NEW t, t = AfterControl(u, {"ACK", "FIN"})
  PROVE  /\ t \in SockRec /\ Keeps(t, s, {"state", "rcv_nxt", "snd_nxt"}) /\ t.state = "LAST_ACK"
         /\ t.rcv_nxt = n /\ t.snd_nxt = s.snd_nxt + 1
         /\ Msg(Control(u, {"ACK", "FIN"}), t, {"ACK", "FIN"}, s.snd_nxt, 0)
<1>1. "LAST_ACK" \in States
  BY DEF States
<1>2. u \in SockRec /\ Keeps(u, s, {"rcv_nxt", "state"}) /\ u.rcv_nxt = n /\ u.state = "LAST_ACK"
  BY <1>1, RcvStateIs
<1>3. u.snd_nxt = s.snd_nxt
  BY <1>2 DEF Keeps, Fields
<1>4. t \in SockRec /\ Keeps(t, u, {"snd_nxt"}) /\ t.snd_nxt = u.snd_nxt + 1
  BY <1>2, AfterControlIs
<1>5. Keeps(t, s, {"state", "rcv_nxt", "snd_nxt"}) /\ t.state = "LAST_ACK" /\ t.rcv_nxt = n
  BY <1>2, <1>4 DEF Keeps, Fields
<1>6. Msg(Control(u, {"ACK", "FIN"}), u, {"ACK", "FIN"}, u.snd_nxt, 0)
  BY <1>2, ControlIs
<1> QED
  BY <1>2, <1>3, <1>4, <1>5, <1>6 DEF Msg

\* RcvCloseWait, the client's side.
LEMMA CloseWaitLinkC ==
  ASSUME NEW c, NEW s, NEW toC, NEW toS, NEW p, NEW g, Link(c, s, toC, toS, p, g),
         NEW seg \in toC, c.state = "CLOSE_WAIT", NEW u, u = RcvState(c, seg.seq + 1, "LAST_ACK"),
         NEW t, t = AfterControl(u, {"ACK", "FIN"})
  PROVE  t \in SockRec /\ Link(t, s, toC, toS \cup {Control(u, {"ACK", "FIN"})}, p, g)
<1>1. c \in SockRec /\ seg.seq + 1 \in Nat
  BY DEF Link, SegRec
<1>2. /\ t \in SockRec /\ Keeps(t, c, {"state", "rcv_nxt", "snd_nxt"}) /\ t.state = "LAST_ACK"
      /\ t.rcv_nxt = seg.seq + 1 /\ t.snd_nxt = c.snd_nxt + 1
      /\ Msg(Control(u, {"ACK", "FIN"}), t, {"ACK", "FIN"}, c.snd_nxt, 0)
  BY <1>1, CloseWaitIs
<1> QED
  BY <1>2, CloseWaitC

\* RcvCloseWait, the server's side.
LEMMA CloseWaitLinkS ==
  ASSUME NEW c, NEW s, NEW toC, NEW toS, NEW p, NEW g, Link(c, s, toC, toS, p, g),
         NEW seg \in toS, s.state = "CLOSE_WAIT", NEW u, u = RcvState(s, seg.seq + 1, "LAST_ACK"),
         NEW t, t = AfterControl(u, {"ACK", "FIN"})
  PROVE  /\ t \in SockRec /\ t.state = "LAST_ACK"
         /\ Link(c, t, toC \cup {Control(u, {"ACK", "FIN"})}, toS, p, g)
<1>1. s \in SockRec /\ seg.seq + 1 \in Nat
  BY DEF Link, SegRec
<1>2. /\ t \in SockRec /\ Keeps(t, s, {"state", "rcv_nxt", "snd_nxt"}) /\ t.state = "LAST_ACK"
      /\ t.rcv_nxt = seg.seq + 1 /\ t.snd_nxt = s.snd_nxt + 1
      /\ Msg(Control(u, {"ACK", "FIN"}), t, {"ACK", "FIN"}, s.snd_nxt, 0)
  BY <1>1, CloseWaitIs
<1> QED
  BY <1>2, CloseWaitS

\* RcvLastAck, the client's side: its port was bound twice, so it stays bound.
LEMMA LastAckLinkC ==
  ASSUME NEW c, NEW s, NEW toC, NEW toS, NEW p, NEW g, Link(c, s, toC, toS, p, g),
         c.state = "LAST_ACK", NEW ack,
         NEW v, v = UpdateSendBuffer(c, ack), NEW t, t = [v EXCEPT !.state = "CLOSED"]
  PROVE  t \in SockRec /\ t.bind = "self" /\ Link(t, s, toC, toS, p, g)
<1>1. c \in SockRec /\ p # "start" /\ c.ref \in Nat /\ c.bind = "self"
  BY SockFields DEF Link, ClientSock, alloc_tcp_sock
<1>2. c.retrans => c.ref > 0
  BY <1>1, RefsLeft DEF Count
<1>3. /\ v \in SockRec /\ Keeps(v, c, {"buf", "retrans", "ref", "cnt"})
      /\ v.buf = {q \in c.buf : q >= ack} /\ (v.buf = {} => ~v.retrans)
      /\ (v.buf # {} => (v.retrans <=> c.retrans))
      /\ v.ref = c.ref - Count(c.retrans) + Count(v.retrans) /\ v.cnt \in {0, c.cnt}
  BY <1>1, <1>2, UpdateSendBufferIs
<1>4. t \in SockRec /\ Keeps(t, v, {"state"}) /\ t.state = "CLOSED"
  BY <1>3, StateIs DEF States
<1>5. Keeps(t, c, {"buf", "retrans", "ref", "cnt", "state"})
  BY <1>3, <1>4 DEF Keeps, Fields
<1>6. t.buf = v.buf /\ t.retrans = v.retrans /\ t.ref = v.ref /\ t.cnt = v.cnt /\ t.bind = c.bind
  BY <1>4, <1>5 DEF Keeps, Fields
<1>7. /\ t.buf \subseteq c.buf /\ (t.buf = {} => ~t.retrans) /\ (t.retrans => c.retrans)
      /\ t.cnt \in {0, c.cnt} /\ t.ref = c.ref - Count(c.retrans) + Count(t.retrans)
  BY <1>3, <1>6
<1> QED
  BY <1>1, <1>4, <1>5, <1>6, <1>7, LastAckC

\* RcvLastAck, the server's side: a child was never bound.
LEMMA LastAckLinkS ==
  ASSUME NEW c, NEW s, NEW toC, NEW toS, NEW p, NEW g, Link(c, s, toC, toS, p, g),
         s.state = "LAST_ACK", NEW ack,
         NEW v, v = UpdateSendBuffer(s, ack), NEW t, t = [v EXCEPT !.state = "CLOSED"]
  PROVE  /\ t \in SockRec /\ t.state = "CLOSED" /\ t.bind = "null" /\ t.snd_nxt = s.snd_nxt
         /\ Link(c, t, toC, toS, p, g)
<1>1. s \in SockRec /\ s.buf = {} /\ ~s.retrans /\ s.cnt = 0 /\ s.bind = "null"
  BY DEF Link, ServerSock
<1>2. /\ v \in SockRec /\ Keeps(v, s, {"buf", "retrans", "ref", "cnt"})
      /\ v.buf = {} /\ ~v.retrans /\ v.cnt = 0 /\ v.ref = s.ref
  BY <1>1, ChildBuffer
<1>3. t \in SockRec /\ Keeps(t, v, {"state"}) /\ t.state = "CLOSED"
  BY <1>2, StateIs DEF States
<1>4. Keeps(t, s, {"buf", "retrans", "ref", "cnt", "state"})
  BY <1>2, <1>3 DEF Keeps, Fields
<1>5. /\ t.buf = {} /\ ~t.retrans /\ t.cnt = 0 /\ t.ref = s.ref /\ t.bind = "null" /\ t.snd_nxt = s.snd_nxt
  BY <1>1, <1>2, <1>3, <1>4 DEF Keeps, Fields
<1> QED
  BY <1>3, <1>4, <1>5, LastAckS

\* a sock with another rcv_nxt
RcvTo(s, n) == [s EXCEPT !.rcv_nxt = n]

\* Its fields.
LEMMA RcvToIs ==
  ASSUME NEW s \in SockRec, NEW n \in Nat, NEW t, t = RcvTo(s, n)
  PROVE  t \in SockRec /\ Keeps(t, s, {"rcv_nxt"}) /\ t.rcv_nxt = n
<1>1. t \in SockRec
  BY SockExcept DEF RcvTo
<1> QED
  BY <1>1 DEF RcvTo, Keeps, Fields, SockRec

\* RcvFinWait1, a FIN.
LEMMA FinWait1Link ==
  ASSUME NEW c, NEW s, NEW toC, NEW toS, NEW p, NEW g, Link(c, s, toC, toS, p, g),
         NEW seg \in toC, c.state = "FIN_WAIT_1", "FIN" \in seg.flags,
         NEW u, u = RcvTo(c, seg.seq + 1), NEW v, v = UpdateSendBuffer(u, seg.ack),
         NEW t, t = SetTimeWait([v EXCEPT !.state = "CLOSING"])
  PROVE  t \in SockRec /\ Link(t, s, toC, toS \cup {Control(v, {"ACK"})}, p, g)
<1> DEFINE n == seg.seq + 1
           w == [v EXCEPT !.state = "CLOSING"]
<1>1. c \in SockRec /\ n \in Nat /\ p # "start" /\ c.ref \in Nat /\ u = RcvTo(c, n)
  BY SockFields DEF Link, SegRec, ClientSock, alloc_tcp_sock
<1> HIDE DEF n
<1>2. c.retrans => c.ref > 0
  BY <1>1, RefsLeft DEF Count
<1>3. u \in SockRec /\ Keeps(u, c, {"rcv_nxt"}) /\ u.rcv_nxt = n
  BY <1>1, RcvToIs
<1>4. u.retrans = c.retrans /\ u.ref = c.ref /\ u.buf = c.buf /\ u.cnt = c.cnt
  BY <1>3 DEF Keeps, Fields
<1>5. /\ v \in SockRec /\ Keeps(v, u, {"buf", "retrans", "ref", "cnt"})
      /\ v.buf = {q \in u.buf : q >= seg.ack} /\ (v.buf = {} => ~v.retrans)
      /\ (v.buf # {} => (v.retrans <=> u.retrans))
      /\ v.ref = u.ref - Count(u.retrans) + Count(v.retrans) /\ v.cnt \in {0, u.cnt}
  BY <1>2, <1>3, <1>4, UpdateSendBufferIs
<1>6. w \in SockRec /\ Keeps(w, v, {"state"}) /\ w.state = "CLOSING"
  BY <1>5, StateIs DEF States
<1>7. t = SetTimeWait(w)
  BY DEF w
<1> HIDE DEF w
<1>8. t \in SockRec /\ Keeps(t, w, {"timewait", "ref"}) /\ t.timewait /\ t.ref = w.ref + 1
  BY <1>6, <1>7, SetTimeWaitIs
<1>9. /\ Keeps(t, v, {"state", "timewait", "ref"}) /\ t.state = "CLOSING" /\ w.ref = v.ref
  BY <1>6, <1>8 DEF Keeps, Fields
<1>10. Keeps(v, c, {"rcv_nxt", "buf", "retrans", "ref", "cnt"}) /\ v.rcv_nxt = n
  BY <1>3, <1>5 DEF Keeps, Fields
<1>11. /\ Keeps(t, c, {"rcv_nxt", "buf", "retrans", "ref", "cnt", "state", "timewait"})
       /\ t.rcv_nxt = n /\ t.buf = v.buf /\ t.retrans = v.retrans /\ t.cnt = v.cnt /\ t.snd_nxt = v.snd_nxt
  BY <1>9, <1>10 DEF Keeps, Fields
<1>12. /\ t.buf \subseteq c.buf /\ (t.buf = {} => ~t.retrans) /\ (t.retrans => c.retrans)
       /\ t.cnt \in {0, c.cnt}
  BY <1>4, <1>5, <1>11
<1>13. t.ref = c.ref - Count(c.retrans) + Count(t.retrans) + 1
  BY <1>4, <1>5, <1>8, <1>9, <1>11
<1>14. Msg(Control(v, {"ACK"}), v, {"ACK"}, v.snd_nxt, 0)
  BY <1>5, ControlIs
<1>15. Msg(Control(v, {"ACK"}), t, {"ACK"}, t.snd_nxt, 0)
  BY <1>10, <1>11, <1>14 DEF Msg
<1> QED
  BY <1>8, <1>9, <1>11, <1>12, <1>13, <1>15, FinWait1FinC DEF n

\* RcvFinWait2, a FIN.
LEMMA FinWait2Link ==
  ASSUME NEW c, NEW s, NEW toC, NEW toS, NEW p, NEW g, Link(c, s, toC, toS, p, g),
         NEW seg \in toC, c.state = "FIN_WAIT_2", "FIN" \in seg.flags,
         NEW u, u = RcvState(c, seg.seq + 1, "TIME_WAIT"), NEW t, t = SetTimeWait(u)
  PROVE  t \in SockRec /\ Link(t, s, toC, toS \cup {Control(u, {"ACK"})}, p, g)
<1>1. c \in SockRec /\ seg.seq + 1 \in Nat /\ "TIME_WAIT" \in States
  BY DEF Link, SegRec, States
<1>2. u \in SockRec /\ Keeps(u, c, {"rcv_nxt", "state"}) /\ u.rcv_nxt = seg.seq + 1 /\ u.state = "TIME_WAIT"
  BY <1>1, RcvStateIs
<1>3. t \in SockRec /\ Keeps(t, u, {"timewait", "ref"}) /\ t.timewait /\ t.ref = u.ref + 1
  BY <1>2, SetTimeWaitIs
<1>4. /\ Keeps(t, c, {"rcv_nxt", "ref", "state", "timewait"}) /\ u.ref = c.ref
      /\ t.state = "TIME_WAIT" /\ t.rcv_nxt = seg.seq + 1 /\ t.rcv_nxt = u.rcv_nxt /\ t.snd_nxt = u.snd_nxt
  BY <1>2, <1>3 DEF Keeps, Fields
<1>5. Msg(Control(u, {"ACK"}), u, {"ACK"}, u.snd_nxt, 0)
  BY <1>2, ControlIs
<1>6. Msg(Control(u, {"ACK"}), t, {"ACK"}, t.snd_nxt, 0)
  BY <1>4, <1>5 DEF Msg
<1> QED
  BY <1>3, <1>4, <1>6, FinWait2C

\* RcvSynRecv, an acknowledgement.
LEMMA SynRecvLink ==
  ASSUME NEW c, NEW s, NEW toC, NEW toS, NEW p, NEW g, Link(c, s, toC, toS, p, g),
         NEW seg \in toS, s.state = "SYN_RECV", "ACK" \in seg.flags,
         NEW u, u = [s EXCEPT !.state = "ESTABLISHED"],
         NEW t, t = UnsetRetrans(ClosedWindow(u, seg))
  PROVE  t \in SockRec /\ t.state = "ESTABLISHED" /\ Link(c, t, toC, toS, p, g)
<1> DEFINE w == ClosedWindow(u, seg)
<1>1. s \in SockRec /\ seg \in SegRec /\ ~s.retrans
  BY DEF Link, ServerSock
<1>2. u \in SockRec /\ Keeps(u, s, {"state"}) /\ u.state = "ESTABLISHED"
  BY <1>1, StateIs DEF States
<1>3. u.persist = s.persist /\ u.ref = s.ref /\ u.snd_una = s.snd_una /\ u.snd_nxt = s.snd_nxt
  BY <1>2 DEF Keeps, Fields
<1>4. u.persist => u.ref > 0
  BY <1>3 DEF Link, ServerSock, Count
<1>5. /\ w \in SockRec /\ Keeps(w, u, {"snd_una", "persist", "ref"})
      /\ w.ref = u.ref - Count(u.persist) + Count(w.persist)
      /\ \/ w.snd_una = u.snd_una /\ w.persist = u.persist
         \/ w.snd_una = seg.ack /\ w.snd_una <= u.snd_nxt
  BY <1>1, <1>2, <1>4, ClosedWindowIs
<1>6. t = UnsetRetrans(w)
  BY DEF w
<1> HIDE DEF w
<1>7. Keeps(w, s, {"state", "snd_una", "persist", "ref", "retrans"}) /\ w.state = "ESTABLISHED" /\ ~w.retrans
  BY <1>1, <1>2, <1>5 DEF Keeps, Fields
<1>8. t = w
  BY <1>6, <1>7 DEF UnsetRetrans
<1>9. /\ w.ref = s.ref - Count(s.persist) + Count(w.persist)
      /\ \/ w.snd_una = s.snd_una /\ w.persist = s.persist
         \/ w.snd_una = seg.ack /\ w.snd_una <= s.snd_nxt
  BY <1>3, <1>5
<1>10. Link(c, w, toC, toS, p, g)
  BY <1>5, <1>7, <1>9, SynRecvS
<1> QED
  BY <1>5, <1>7, <1>8, <1>10

\* RcvListen, a SYN.
LEMMA ListenLink ==
  ASSUME NEW c, NEW s, NEW toC, NEW toS, NEW p, NEW g, Link(c, s, toC, toS, p, g),
         NEW seg \in toS, s.state = "NONE", "SYN" \in seg.flags,
         NEW u, u = NewChild(seg), NEW t, t = AfterControl(u, {"SYN", "ACK"})
  PROVE  /\ t \in SockRec /\ t.state = "SYN_RECV"
         /\ Link(c, t, toC \cup {Control(u, {"SYN", "ACK"})}, toS, p, g)
<1>1. seg \in SegRec
  BY DEF Link
<1>2. /\ u \in SockRec /\ u.rcv_nxt = seg.seq + 1 /\ u.snd_nxt = 0
      /\ t \in SockRec
      /\ Keeps(t, alloc_tcp_sock, {"state", "rcv_nxt", "hash", "ref", "snd_nxt"})
      /\ t.state = "SYN_RECV" /\ t.hash = "linked" /\ t.ref = 1
      /\ t.snd_nxt = 1 /\ t.rcv_nxt = seg.seq + 1
  BY <1>1, NewChildIs
<1>3. Msg(Control(u, {"SYN", "ACK"}), u, {"SYN", "ACK"}, u.snd_nxt, 0)
  BY <1>2, ControlIs
<1>4. Msg(Control(u, {"SYN", "ACK"}), t, {"SYN", "ACK"}, 0, 0)
  BY <1>2, <1>3 DEF Msg
<1> QED
  BY <1>2, <1>4, ListenS

\* Connect.
LEMMA ConnectLink ==
  ASSUME NEW c, NEW s, NEW toC, NEW toS, NEW p, NEW g, Link(c, s, toC, toS, p, g),
         p = "start", NEW u, u = Connected(c), NEW t, t = AfterControl(u, {"SYN"})
  PROVE  t \in SockRec /\ Link(t, s, toC, toS \cup {Control(u, {"SYN"})}, "connecting", g)
<1>1. c = alloc_tcp_sock
  BY DEF Link, ClientSock
<1>2. /\ u \in SockRec /\ u.snd_nxt = 0 /\ u.rcv_nxt = 0
      /\ t \in SockRec /\ Keeps(t, alloc_tcp_sock, {"state", "hash", "bind", "ref", "snd_nxt"})
      /\ t.state = "SYN_SENT" /\ t.hash = "linked" /\ t.bind = "self" /\ t.ref = 3
      /\ t.snd_nxt = 1
  BY <1>1, ConnectedIs
<1>3. Msg(Control(u, {"SYN"}), u, {"SYN"}, u.snd_nxt, 0)
  BY <1>2, ControlIs
<1> QED
  BY <1>2, <1>3, ConnectC DEF Msg

\* what Write makes of the client's sock
Wrote(s) ==
  [s EXCEPT !.snd_nxt = @ + 1, !.buf = {s.snd_nxt},
            !.retrans = TRUE, !.ref = IF s.retrans THEN @ ELSE @ + 1]

\* Its fields.
LEMMA WroteIs ==
  ASSUME NEW s \in SockRec, NEW t, t = Wrote(s)
  PROVE  /\ t \in SockRec /\ Keeps(t, s, {"snd_nxt", "buf", "retrans", "ref"})
         /\ t.snd_nxt = s.snd_nxt + 1 /\ t.buf = {s.snd_nxt} /\ t.retrans
         /\ t.ref = IF s.retrans THEN s.ref ELSE s.ref + 1
<1> DEFINE n == s.snd_nxt + 1
           b == {s.snd_nxt}
           r == IF s.retrans THEN s.ref ELSE s.ref + 1
           u == [s EXCEPT !.snd_nxt = n]
           v == [u EXCEPT !.buf = b]
           w == [v EXCEPT !.retrans = TRUE]
           x == [w EXCEPT !.ref = r]
<1>1. n \in Nat /\ b \in SUBSET Nat /\ r \in Nat
  BY SockFields
<1>2. t = [s EXCEPT !.snd_nxt = n, !.buf = b, !.retrans = TRUE, !.ref = r]
  BY DEF Wrote
<1> HIDE DEF n, b, r
<1>3. t = x
  BY <1>2 DEF SockRec
<1>4. u \in SockRec
  BY <1>1, SockExcept
<1>5. Keeps(u, s, {"snd_nxt"}) /\ u.snd_nxt = n
  BY DEF Keeps, Fields, SockRec
<1> HIDE DEF u
<1>6. v \in SockRec
  BY <1>1, <1>4, SockExcept
<1>7. Keeps(v, u, {"buf"}) /\ v.buf = b
  BY <1>4 DEF Keeps, Fields, SockRec
<1> HIDE DEF v
<1>8. w \in SockRec
  BY <1>6, SockExcept
<1>9. Keeps(w, v, {"retrans"}) /\ w.retrans
  BY <1>6 DEF Keeps, Fields, SockRec
<1> HIDE DEF w
<1>10. x \in SockRec
  BY <1>1, <1>8, SockExcept
<1>11. Keeps(x, w, {"ref"}) /\ x.ref = r
  BY <1>8 DEF Keeps, Fields, SockRec
<1> HIDE DEF x
<1>12. Keeps(w, s, {"snd_nxt", "buf", "retrans"}) /\ w.snd_nxt = n /\ w.buf = b
  BY <1>5, <1>7, <1>9 DEF Keeps, Fields
<1>13. Keeps(x, s, {"snd_nxt", "buf", "retrans", "ref"}) /\ x.snd_nxt = n /\ x.buf = b /\ x.retrans
  BY <1>9, <1>11, <1>12 DEF Keeps, Fields
<1> QED
  BY <1>3, <1>10, <1>11, <1>13 DEF n, b, r

\* Write.
LEMMA WriteLink ==
  ASSUME NEW c, NEW s, NEW toC, NEW toS, NEW p, NEW g, Link(c, s, toC, toS, p, g),
         p = "write", c.snd_nxt <= MaxData, ~c.persist, c.buf = {}, NEW t, t = Wrote(c)
  PROVE  t \in SockRec /\ Link(t, s, toC, toS \cup {Data(c, c.snd_nxt)}, p, g)
<1>1. c \in SockRec /\ c.snd_nxt \in Nat
  BY SockFields DEF Link
<1>2. /\ t \in SockRec /\ Keeps(t, c, {"snd_nxt", "buf", "retrans", "ref"})
      /\ t.snd_nxt = c.snd_nxt + 1 /\ t.buf = {c.snd_nxt} /\ t.retrans
      /\ t.ref = IF c.retrans THEN c.ref ELSE c.ref + 1
  BY <1>1, WroteIs
<1>3. Msg(Data(c, c.snd_nxt), c, {"PSH", "ACK"}, c.snd_nxt, 1)
  BY <1>1, DataIs
<1> QED
  BY <1>2, <1>3, WriteC

\* CloseFin.
LEMMA CloseFinLink ==
  ASSUME NEW c, NEW s, NEW toC, NEW toS, NEW p, NEW g, Link(c, s, toC, toS, p, g),
         p = "close", c.state = "ESTABLISHED", NEW t, t = AfterControl(c, {"FIN", "ACK"})
  PROVE  t \in SockRec /\ Link(t, s, toC, toS \cup {Control(c, {"FIN", "ACK"})}, "closing", g)
<1>1. c \in SockRec
  BY DEF Link
<1>2. t \in SockRec /\ Keeps(t, c, {"snd_nxt"}) /\ t.snd_nxt = c.snd_nxt + 1
  BY <1>1, AfterControlIs
<1>3. Msg(Control(c, {"FIN", "ACK"}), c, {"FIN", "ACK"}, c.snd_nxt, 0)
  BY <1>1, ControlIs
<1> QED
  BY <1>2, <1>3, CloseFinC

\* CloseFinWait.
LEMMA CloseFinWaitLink ==
  ASSUME NEW c, NEW s, NEW toC, NEW toS, NEW p, NEW g, Link(c, s, toC, toS, p, g),
         p = "closing", NEW t, t = [c EXCEPT !.state = "FIN_WAIT_1"]
  PROVE  t \in SockRec /\ Link(t, s, toC, toS, "done", g)
<1>1. c \in SockRec
  BY DEF Link
<1>2. t \in SockRec /\ Keeps(t, c, {"state"}) /\ t.state = "FIN_WAIT_1"
  BY <1>1, StateIs DEF States
<1> QED
  BY <1>2, CloseFinWaitC

\* CloseClosed: the port was bound twice and stays bound.
LEMMA CloseClosedLink ==
  ASSUME NEW c, NEW s, NEW toC, NEW toS, NEW p, NEW g, Link(c, s, toC, toS, p, g),
         p = "close", c.state = "CLOSED", NEW t, t = tcp_bind_unhash(tcp_unhash(c))
  PROVE  t \in SockRec /\ Link(t, s, toC, toS, "done", g)
<1> DEFINE u == tcp_unhash(c)
<1>1. c \in SockRec /\ c.ref \in Nat /\ ~c.freed /\ c.bind = "self" /\ c.hash # "self"
  BY SockFields DEF Link, ClientSock
<1>2. c.ref > 1
  BY <1>1, SockFields DEF Link, ClientRefs, Owed, Count
<1>3. /\ u \in SockRec /\ Keeps(u, c, {"hash", "ref", "freed"})
      /\ u.hash = "gone" /\ u.ref = c.ref - 1 /\ ~u.freed
  BY <1>1, <1>2, UnhashIs
<1>4. t = tcp_bind_unhash(u)
  BY DEF u
<1> HIDE DEF u
<1>5. t = u
  BY <1>1, <1>3, <1>4, BindUnhashIs DEF Keeps, Fields
<1>6. Link(u, s, toC, toS, "done", g)
  BY <1>3, CloseClosedC
<1> QED
  BY <1>3, <1>5, <1>6

\* socks of which a timer or the reader changed one field
Probed(s) == [s EXCEPT !.probes = @ + 1]
Resent(s) == [s EXCEPT !.cnt = @ + 1]
Emptied(s) == [s EXCEPT !.ring = 0]
NoTimeWait(s) == [s EXCEPT !.timewait = FALSE]
NoRetrans(s) == [s EXCEPT !.retrans = FALSE]
ToClosed(s) == [s EXCEPT !.state = "CLOSED"]

\* Their fields.
LEMMA OneFieldIs ==
  ASSUME NEW s \in SockRec
  PROVE  /\ Probed(s) \in SockRec /\ Keeps(Probed(s), s, {"probes"})
         /\ Resent(s) \in SockRec /\ Keeps(Resent(s), s, {"cnt"}) /\ Resent(s).cnt = s.cnt + 1
         /\ Emptied(s) \in SockRec /\ Keeps(Emptied(s), s, {"ring"}) /\ Emptied(s).ring = 0
         /\ NoTimeWait(s) \in SockRec /\ Keeps(NoTimeWait(s), s, {"timewait"}) /\ ~NoTimeWait(s).timewait
         /\ NoRetrans(s) \in SockRec /\ Keeps(NoRetrans(s), s, {"retrans"}) /\ ~NoRetrans(s).retrans
         /\ ToClosed(s) \in SockRec /\ Keeps(ToClosed(s), s, {"state"}) /\ ToClosed(s).state = "CLOSED"
<1>1. s.probes + 1 \in Nat /\ s.cnt + 1 \in Nat
  BY SockFields
<1>2. /\ Probed(s) \in SockRec /\ Resent(s) \in SockRec /\ Emptied(s) \in SockRec
      /\ NoTimeWait(s) \in SockRec /\ NoRetrans(s) \in SockRec
  BY <1>1, SockExcept DEF Probed, Resent, Emptied, NoTimeWait, NoRetrans
<1>3. Keeps(Probed(s), s, {"probes"})
  BY DEF Probed, Keeps, Fields, SockRec
<1>4. Keeps(Resent(s), s, {"cnt"}) /\ Resent(s).cnt = s.cnt + 1
  BY DEF Resent, Keeps, Fields, SockRec
<1>5. Keeps(Emptied(s), s, {"ring"}) /\ Emptied(s).ring = 0
  BY DEF Emptied, Keeps, Fields, SockRec
<1>6. Keeps(NoTimeWait(s), s, {"timewait"}) /\ ~NoTimeWait(s).timewait
  BY DEF NoTimeWait, Keeps, Fields, SockRec
<1>7. Keeps(NoRetrans(s), s, {"retrans"}) /\ ~NoRetrans(s).retrans
  BY DEF NoRetrans, Keeps, Fields, SockRec
<1>8. ToClosed(s) \in SockRec /\ Keeps(ToClosed(s), s, {"state"}) /\ ToClosed(s).state = "CLOSED"
  BY StateIs DEF ToClosed, States
<1> QED
  BY <1>2, <1>3, <1>4, <1>5, <1>6, <1>7, <1>8

\* The probe of a client.
LEMMA ProbeLinkC ==
  ASSUME NEW c, NEW s, NEW toC, NEW toS, NEW p, NEW g, Link(c, s, toC, toS, p, g), c.persist
  PROVE  Probed(c) \in SockRec /\ Link(Probed(c), s, toC, toS \cup {Data(c, c.snd_una - 1)}, p, g)
<1>1. c \in SockRec /\ c.snd_una - 1 = 0
  BY DEF Link, ClientSock
<1>2. Probed(c) \in SockRec /\ Keeps(Probed(c), c, {"probes"})
  BY <1>1, OneFieldIs
<1>3. Msg(Data(c, 0), c, {"PSH", "ACK"}, 0, 1)
  BY <1>1, DataIs
<1> QED
  BY <1>1, <1>2, <1>3, ProbeC

\* The probe of a child.
LEMMA ProbeLinkS ==
  ASSUME NEW c, NEW s, NEW toC, NEW toS, NEW p, NEW g, Link(c, s, toC, toS, p, g), s.persist
  PROVE  /\ Probed(s) \in SockRec /\ Keeps(Probed(s), s, {"probes"})
         /\ Link(c, Probed(s), toC \cup {Data(s, s.snd_una - 1)}, toS, p, g)
<1>1. s \in SockRec /\ s.snd_una - 1 = 0
  BY DEF Link, ServerSock
<1>2. Probed(s) \in SockRec /\ Keeps(Probed(s), s, {"probes"})
  BY <1>1, OneFieldIs
<1>3. Msg(Data(s, 0), s, {"PSH", "ACK"}, 0, 1)
  BY <1>1, DataIs
<1> QED
  BY <1>1, <1>2, <1>3, ProbeS

\* RetransTimeout.
LEMMA RetransLink ==
  ASSUME NEW c, NEW s, NEW toC, NEW toS, NEW p, NEW g, Link(c, s, toC, toS, p, g),
         c.retrans, c.cnt < MaxRetrans, NEW q, q = CHOOSE x \in c.buf : TRUE
  PROVE  Resent(c) \in SockRec /\ Link(Resent(c), s, toC, toS \cup {Data(c, q)}, p, g)
<1>1. c \in SockRec /\ c.buf # {} /\ c.buf \in SUBSET Nat
  BY SockFields DEF Link, ClientSock
<1>2. q \in c.buf /\ q \in Nat
  BY <1>1
<1>3. Resent(c) \in SockRec /\ Keeps(Resent(c), c, {"cnt"}) /\ Resent(c).cnt = c.cnt + 1
  BY <1>1, OneFieldIs
<1>4. Msg(Data(c, q), c, {"PSH", "ACK"}, q, 1)
  BY <1>1, <1>2, DataIs
<1> QED
  BY <1>2, <1>3, <1>4, RetransC

\* GiveUp: the references of the timer and of the table are dropped, not the port's.
LEMMA GiveUpLink ==
  ASSUME NEW c, NEW s, NEW toC, NEW toS, NEW p, NEW g, Link(c, s, toC, toS, p, g),
         c.retrans, c.state # "CLOSED",
         NEW u, u = UnsetRetrans(c), NEW v, v = ToClosed(tcp_bind_unhash(u)),
         NEW t, t = free_tcp_sock(v)
  PROVE  t \in SockRec /\ Link(t, s, toC, toS, p, g)
<1>1. c \in SockRec /\ c.ref \in Nat /\ p # "start" /\ c.bind = "self" /\ ~c.freed
  BY SockFields DEF Link, ClientSock, Using, Shut
<1>2. c.ref > 2 /\ (c.retrans => c.ref > 0)
  <2>1. c.ref > 2 + Count(c.persist) /\ Count(c.persist) \in Nat
    BY <1>1, RefsLeft DEF Count
  <2> QED
    BY <1>1, <2>1
<1>3. u \in SockRec /\ Keeps(u, c, {"retrans", "ref"}) /\ ~u.retrans /\ u.ref = c.ref - Count(c.retrans)
  BY <1>1, <1>2, UnsetRetransIs
<1>4. u.bind = "self" /\ u.ref = c.ref - 1
  BY <1>1, <1>3 DEF Keeps, Fields, Count
<1>5. v = ToClosed(u)
  BY <1>4, BindUnhashIs
<1>6. v \in SockRec /\ Keeps(v, u, {"state"}) /\ v.state = "CLOSED"
  BY <1>3, <1>5, OneFieldIs
<1>7. v.ref = c.ref - 1 /\ ~v.freed /\ ~v.retrans /\ Keeps(v, c, {"retrans", "ref", "state"})
  BY <1>1, <1>3, <1>4, <1>6 DEF Keeps, Fields
<1>8. v.ref > 1
  BY <1>1, <1>2, <1>7
<1>9. t \in SockRec /\ Keeps(t, v, {"ref", "freed"}) /\ t.ref = v.ref - 1 /\ ~t.freed
  BY <1>6, <1>7, <1>8, FreeIs
<1>10. Keeps(t, c, {"retrans", "ref", "state", "freed"}) /\ ~t.retrans /\ t.state = "CLOSED"
  BY <1>6, <1>7, <1>9 DEF Keeps, Fields
<1>11. t.ref = c.ref - 2
  BY <1>1, <1>7, <1>9
<1> QED
  BY <1>9, <1>10, <1>11, GiveUpC

\* Expired: out of the table of connections, the port still bound.
LEMMA ExpiredIs ==
  ASSUME NEW s \in SockRec, s.ref > 1, ~s.freed, s.hash # "self", s.bind = "self", NEW t, t = Expired(s)
  PROVE  /\ t \in SockRec /\ Keeps(t, s, {"state", "hash", "ref", "freed"})
         /\ t.state = "CLOSED" /\ t.hash = "gone" /\ t.ref = s.ref - 1 /\ ~t.freed
<1> DEFINE u == [s EXCEPT !.state = "CLOSED"]
           v == tcp_unhash(u)
<1>1. u \in SockRec /\ Keeps(u, s, {"state"}) /\ u.state = "CLOSED"
  BY StateIs DEF States
<1>2. t = tcp_bind_unhash(v)
  BY DEF Expired
<1> HIDE DEF u
<1>3. u.ref = s.ref /\ ~u.freed /\ u.hash # "self" /\ u.bind = "self"
  BY <1>1 DEF Keeps, Fields
<1>4. v \in SockRec /\ Keeps(v, u, {"hash", "ref", "freed"}) /\ v.hash = "gone" /\ v.ref = u.ref - 1 /\ ~v.freed
  BY <1>1, <1>3, UnhashIs
<1> HIDE DEF v
<1>5. t = v
  BY <1>2, <1>3, <1>4, BindUnhashIs DEF Keeps, Fields
<1>6. Keeps(v, s, {"state", "hash", "ref", "freed"}) /\ v.state = "CLOSED"
  BY <1>1, <1>4 DEF Keeps, Fields
<1> QED
  BY <1>3, <1>4, <1>5, <1>6

\* TimeWaitTimeout.
LEMMA TimeWaitLink ==
  ASSUME NEW c, NEW s, NEW toC, NEW toS, NEW p, NEW g, Link(c, s, toC, toS, p, g),
         c.timewait, NEW t, t = Expired(NoTimeWait(c))
  PROVE  t \in SockRec /\ Link(t, s, toC, toS, p, g)
<1> DEFINE u == NoTimeWait(c)
<1>1. c \in SockRec /\ p # "start" /\ ~c.freed /\ c.hash # "self" /\ c.bind = "self"
  BY DEF Link, ClientSock
<1>2. c.ref > 1
  BY <1>1, RefsLeft
<1>3. u \in SockRec /\ Keeps(u, c, {"timewait"}) /\ ~u.timewait
  BY <1>1, OneFieldIs
<1>4. t = Expired(u)
  BY DEF u
<1> HIDE DEF u
<1>5. u.ref = c.ref /\ ~u.freed /\ u.hash # "self" /\ u.bind = "self"
  BY <1>1, <1>3 DEF Keeps, Fields
<1>6. /\ t \in SockRec /\ Keeps(t, u, {"state", "hash", "ref", "freed"})
      /\ t.state = "CLOSED" /\ t.hash = "gone" /\ t.ref = u.ref - 1 /\ ~t.freed
  BY <1>2, <1>3, <1>4, <1>5, ExpiredIs
<1>7. Keeps(t, c, {"timewait", "state", "hash", "ref", "freed"}) /\ ~t.timewait /\ t.ref = c.ref - 1
  BY <1>3, <1>5, <1>6 DEF Keeps, Fields
<1> QED
  BY <1>6, <1>7, TimeWaitC

\* TimerOfClosed.
LEMMA TimerOfClosedLink ==
  ASSUME NEW c, NEW s, NEW toC, NEW toS, NEW p, NEW g, Link(c, s, toC, toS, p, g),
         c.retrans, c.state = "CLOSED", NEW t, t = Expired(NoRetrans(c))
  PROVE  t \in SockRec /\ Link(t, s, toC, toS, p, g)
<1> DEFINE u == NoRetrans(c)
<1>1. c \in SockRec /\ p # "start" /\ ~c.freed /\ c.hash # "self" /\ c.bind = "self" /\ c.ref \in Nat
  BY SockFields DEF Link, ClientSock, Using, Shut
<1>2. c.ref > 1
  <2>1. c.ref > 2 + Count(c.persist) /\ Count(c.persist) \in Nat
    BY <1>1, RefsLeft DEF Count
  <2> QED
    BY <1>1, <2>1
<1>3. u \in SockRec /\ Keeps(u, c, {"retrans"}) /\ ~u.retrans
  BY <1>1, OneFieldIs
<1>4. t = Expired(u)
  BY DEF u
<1> HIDE DEF u
<1>5. u.ref = c.ref /\ ~u.freed /\ u.hash # "self" /\ u.bind = "self"
  BY <1>1, <1>3 DEF Keeps, Fields
<1>6. /\ t \in SockRec /\ Keeps(t, u, {"state", "hash", "ref", "freed"})
      /\ t.state = "CLOSED" /\ t.hash = "gone" /\ t.ref = u.ref - 1 /\ ~t.freed
  BY <1>2, <1>3, <1>4, <1>5, ExpiredIs
<1>7. Keeps(t, c, {"retrans", "state", "hash", "ref", "freed"}) /\ ~t.retrans /\ t.ref = c.ref - 1
  BY <1>3, <1>5, <1>6 DEF Keeps, Fields
<1> QED
  BY <1>6, <1>7, TimerOfClosedC

\* ReadLoop takes what the ring holds.
LEMMA ReadLink ==
  ASSUME NEW c, NEW s, NEW toC, NEW toS, NEW p, NEW g, Link(c, s, toC, toS, p, g), s.state # "NONE"
  PROVE  /\ Emptied(s) \in SockRec /\ Keeps(Emptied(s), s, {"ring"})
         /\ Link(c, Emptied(s), toC, toS, p, g + s.ring)
<1>1. s \in SockRec
  BY DEF Link
<1>2. Emptied(s) \in SockRec /\ Keeps(Emptied(s), s, {"ring"}) /\ Emptied(s).ring = 0
  BY <1>1, OneFieldIs
<1> QED
  BY <1>2, ReadS

\* CloseLastAck.
LEMMA CloseLastAckLink ==
  ASSUME NEW c, NEW s, NEW toC, NEW toS, NEW p, NEW g, Link(c, s, toC, toS, p, g),
         s.state = "CLOSE_WAIT", NEW t, t = [s EXCEPT !.state = "LAST_ACK"]
  PROVE  /\ t \in SockRec /\ t.state = "LAST_ACK" /\ t.snd_nxt = 1
         /\ Link(c, t, toC, toS, p, g)
<1>1. s \in SockRec /\ s.snd_nxt = 1
  BY DEF Link, ServerSock
<1>2. t \in SockRec /\ Keeps(t, s, {"state"}) /\ t.state = "LAST_ACK"
  BY <1>1, StateIs DEF States
<1>3. t.snd_nxt = 1
  BY <1>1, <1>2 DEF Keeps, Fields
<1> QED
  BY <1>2, <1>3, CloseLastAckS

\* CloseSend.
LEMMA CloseSendLink ==
  ASSUME NEW c, NEW s, NEW toC, NEW toS, NEW p, NEW g, Link(c, s, toC, toS, p, g),
         s.state \in {"LAST_ACK", "CLOSED"}, s.snd_nxt = 1, NEW t, t = AfterControl(s, {"FIN", "ACK"})
  PROVE  /\ t \in SockRec /\ t.state \in {"LAST_ACK", "CLOSED"}
         /\ Link(c, t, toC \cup {Control(s, {"FIN", "ACK"})}, toS, p, g)
<1>1. s \in SockRec
  BY DEF Link
<1>2. t \in SockRec /\ Keeps(t, s, {"snd_nxt"}) /\ t.snd_nxt = s.snd_nxt + 1
  BY <1>1, AfterControlIs
<1>3. t.state = s.state
  BY <1>2 DEF Keeps, Fields
<1>4. Msg(Control(s, {"FIN", "ACK"}), s, {"FIN", "ACK"}, s.snd_nxt, 0)
  BY <1>1, ControlIs
<1> QED
  BY <1>2, <1>3, <1>4, CloseSendS

-----------------------------------------------------------------------------
(***************************************************************************)
(* The channels, and what a step that touches one connection leaves to     *)
(* prove.                                                                  *)
(***************************************************************************)

\* The first segment of a channel, and the rest.
LEMMA InHead ==
  ASSUME NEW S, NEW q \in Seq(S), q # <<>>
  PROVE  Head(q) \in In(q) /\ Tail(q) \in Seq(S) /\ In(Tail(q)) \subseteq In(q)
<1>1. Len(q) \in Nat /\ Len(q) >= 1 /\ Head(q) = q[1] /\ Tail(q) \in Seq(S)
  OBVIOUS
<1>2. Len(Tail(q)) = Len(q) - 1 /\ \A i \in 1..Len(Tail(q)) : Tail(q)[i] = q[i + 1]
  BY <1>1
<1>3. \A i \in 1..Len(Tail(q)) : i + 1 \in 1..Len(q)
  BY <1>1, <1>2
<1>4. 1 \in 1..Len(q)
  BY <1>1
<1> QED
  BY <1>1, <1>2, <1>3, <1>4 DEF In

\* Segments behind those of a channel.
LEMMA InConcat ==
  ASSUME NEW q \in Seq(SegRec), NEW r \in Seq(SegRec)
  PROVE  q \o r \in Seq(SegRec) /\ In(q \o r) = In(q) \cup In(r)
<1> DEFINE w == q \o r
<1>1. w \in Seq(SegRec) /\ Len(w) = Len(q) + Len(r) /\ Len(q) \in Nat /\ Len(r) \in Nat
  OBVIOUS
<1>2. \A i \in 1..Len(w) : w[i] = IF i <= Len(q) THEN q[i] ELSE r[i - Len(q)]
  BY <1>1
<1> HIDE DEF w
<1>3. ASSUME NEW x \in In(w) PROVE x \in In(q) \cup In(r)
  <2>1. PICK i \in 1..Len(w) : x = w[i]
    BY DEF In
  <2>2. i <= Len(q) => i \in 1..Len(q)
    BY <1>1
  <2>3. ~(i <= Len(q)) => i - Len(q) \in 1..Len(r)
    BY <1>1
  <2> QED
    BY <1>2, <2>1, <2>2, <2>3 DEF In
<1>4. ASSUME NEW x \in In(q) PROVE x \in In(w)
  <2>1. PICK i \in 1..Len(q) : x = q[i]
    BY DEF In
  <2>2. i \in 1..Len(w) /\ i <= Len(q)
    BY <1>1
  <2> QED
    BY <1>2, <2>1, <2>2 DEF In
<1>5. ASSUME NEW x \in In(r) PROVE x \in In(w)
  <2>1. PICK i \in 1..Len(r) : x = r[i]
    BY DEF In
  <2>2. i + Len(q) \in 1..Len(w) /\ ~(i + Len(q) <= Len(q)) /\ (i + Len(q)) - Len(q) = i
    BY <1>1
  <2> QED
    BY <1>2, <2>1, <2>2 DEF In
<1> QED
  BY <1>1, <1>3, <1>4, <1>5 DEF w

\* The answers of the handlers.
LEMMA InSmall ==
  /\ <<>> \in Seq(SegRec) /\ In(<<>>) = {}
  /\ \A m \in SegRec : /\ <<m>> \in Seq(SegRec) /\ In(<<m>>) = {m}
                       /\ <<m, m>> \in Seq(SegRec) /\ In(<<m, m>>) = {m}
<1>1. <<>> \in Seq(SegRec) /\ In(<<>>) = {}
  BY DEF In
<1>2. ASSUME NEW m \in SegRec PROVE <<m>> \in Seq(SegRec) /\ In(<<m>>) = {m}
  <2>1. Len(<<m>>) = 1 /\ <<m>>[1] = m /\ 1..1 = {1}
    OBVIOUS
  <2> QED
    BY <2>1 DEF In
<1>3. ASSUME NEW m \in SegRec PROVE <<m, m>> \in Seq(SegRec) /\ In(<<m, m>>) = {m}
  <2>1. Len(<<m, m>>) = 2 /\ <<m, m>>[1] = m /\ <<m, m>>[2] = m /\ 1..2 = {1, 2}
    OBVIOUS
  <2> QED
    BY <2>1 DEF In
<1> QED
  BY <1>1, <1>2, <1>3

\* A segment put at the end of a channel.
LEMMA InAppend ==
  ASSUME NEW q \in Seq(SegRec), NEW m \in SegRec
  PROVE  Append(q, m) \in Seq(SegRec) /\ In(Append(q, m)) = In(q) \cup {m}
<1> DEFINE r == <<m>>
<1>1. Append(q, m) = q \o r
  OBVIOUS
<1>2. r \in Seq(SegRec) /\ In(r) = {m}
  BY InSmall
<1> HIDE DEF r
<1>3. q \o r \in Seq(SegRec) /\ In(q \o r) = In(q) \cup In(r)
  BY <1>2, InConcat
<1> QED
  BY <1>1, <1>2, <1>3

\* The sock of one end of one connection changes.
LEMMA BecomesIs ==
  ASSUME sk \in Socks, NEW k \in Conns, NEW t \in SockRec
  PROVE  /\ Becomes(k, "c", t) =>
              /\ sk' \in Socks /\ sk'[k].c = t /\ sk'[k].s = sk[k].s
              /\ \A j \in Conns : j # k => sk'[j] = sk[j]
         /\ Becomes(k, "s", t) =>
              /\ sk' \in Socks /\ sk'[k].s = t /\ sk'[k].c = sk[k].c
              /\ \A j \in Conns : j # k => sk'[j] = sk[j]
BY DEF Becomes, Socks

\* A segment is taken from the client's channel and answered.
LEMMA ReplyIsC ==
  ASSUME chan \in Chans, NEW k \in Conns, NEW out \in Seq(SegRec), chan[k].c # <<>>, Reply(k, "c", out)
  PROVE  /\ chan' \in Chans /\ (\A j \in Conns : j # k => chan'[j] = chan[j])
         /\ In(chan'[k].c) \subseteq In(chan[k].c)
         /\ In(chan'[k].s) = In(chan[k].s) \cup In(out)
<1>1. chan[k].c \in Seq(SegRec) /\ chan[k].s \in Seq(SegRec)
  BY DEF Chans
<1>2. Tail(chan[k].c) \in Seq(SegRec) /\ chan[k].s \o out \in Seq(SegRec)
  BY <1>1, InHead, InConcat
<1>3. chan' = [chan EXCEPT ![k].c = Tail(@), ![k].s = @ \o out]
  BY DEF Reply, Other
<1>4. /\ chan' \in Chans /\ (\A j \in Conns : j # k => chan'[j] = chan[j])
      /\ chan'[k].c = Tail(chan[k].c) /\ chan'[k].s = chan[k].s \o out
  BY <1>2, <1>3 DEF Chans
<1> QED
  BY <1>1, <1>4, InHead, InConcat

\* A segment is taken from the server's channel and answered.
LEMMA ReplyIsS ==
  ASSUME chan \in Chans, NEW k \in Conns, NEW out \in Seq(SegRec), chan[k].s # <<>>, Reply(k, "s", out)
  PROVE  /\ chan' \in Chans /\ (\A j \in Conns : j # k => chan'[j] = chan[j])
         /\ In(chan'[k].s) \subseteq In(chan[k].s)
         /\ In(chan'[k].c) = In(chan[k].c) \cup In(out)
<1>1. chan[k].c \in Seq(SegRec) /\ chan[k].s \in Seq(SegRec)
  BY DEF Chans
<1>2. Tail(chan[k].s) \in Seq(SegRec) /\ chan[k].c \o out \in Seq(SegRec)
  BY <1>1, InHead, InConcat
<1>3. chan' = [chan EXCEPT ![k].s = Tail(@), ![k].c = @ \o out]
  BY DEF Reply, Other
<1>4. /\ chan' \in Chans /\ (\A j \in Conns : j # k => chan'[j] = chan[j])
      /\ chan'[k].s = Tail(chan[k].s) /\ chan'[k].c = chan[k].c \o out
  BY <1>2, <1>3 DEF Chans
<1> QED
  BY <1>1, <1>4, InHead, InConcat

\* A segment is sent on either channel.
LEMMA SendIs ==
  ASSUME chan \in Chans, NEW k \in Conns, NEW m \in SegRec
  PROVE  /\ chan' = [chan EXCEPT ![k].s = Append(@, m)] =>
              /\ chan' \in Chans /\ (\A j \in Conns : j # k => chan'[j] = chan[j])
              /\ In(chan'[k].c) = In(chan[k].c) /\ In(chan'[k].s) = In(chan[k].s) \cup {m}
         /\ chan' = [chan EXCEPT ![k].c = Append(@, m)] =>
              /\ chan' \in Chans /\ (\A j \in Conns : j # k => chan'[j] = chan[j])
              /\ In(chan'[k].s) = In(chan[k].s) /\ In(chan'[k].c) = In(chan[k].c) \cup {m}
<1>1. chan[k].c \in Seq(SegRec) /\ chan[k].s \in Seq(SegRec)
  BY DEF Chans
<1>2. /\ Append(chan[k].c, m) \in Seq(SegRec) /\ In(Append(chan[k].c, m)) = In(chan[k].c) \cup {m}
      /\ Append(chan[k].s, m) \in Seq(SegRec) /\ In(Append(chan[k].s, m)) = In(chan[k].s) \cup {m}
  BY <1>1, InAppend
<1>3. ASSUME chan' = [chan EXCEPT ![k].s = Append(@, m)]
      PROVE  /\ chan' \in Chans /\ (\A j \in Conns : j # k => chan'[j] = chan[j])
             /\ chan'[k].c = chan[k].c /\ chan'[k].s = Append(chan[k].s, m)
  BY <1>2, <1>3 DEF Chans
<1>4. ASSUME chan' = [chan EXCEPT ![k].c = Append(@, m)]
      PROVE  /\ chan' \in Chans /\ (\A j \in Conns : j # k => chan'[j] = chan[j])
             /\ chan'[k].s = chan[k].s /\ chan'[k].c = Append(chan[k].c, m)
  BY <1>2, <1>4 DEF Chans
<1> QED
  BY <1>2, <1>3, <1>4

\* The accept queue takes a connection.
LEMMA QueueAppend ==
  ASSUME NEW q \in Seq(Conns), NEW k \in Conns
  PROVE  /\ Append(q, k) \in Seq(Conns) /\ Append(q, k) # <<>>
         /\ In(Append(q, k)) \subseteq In(q) \cup {k}
<1> DEFINE w == Append(q, k)
<1>1. w \in Seq(Conns) /\ Len(w) = Len(q) + 1 /\ Len(q) \in Nat /\ w # <<>>
  OBVIOUS
<1>2. \A i \in 1..Len(w) : w[i] = IF i <= Len(q) THEN q[i] ELSE k
  BY <1>1
<1> HIDE DEF w
<1>3. ASSUME NEW x \in In(w) PROVE x \in In(q) \cup {k}
  <2>1. PICK i \in 1..Len(w) : x = w[i]
    BY DEF In
  <2>2. i <= Len(q) => i \in 1..Len(q)
    BY <1>1
  <2> QED
    BY <1>2, <2>1, <2>2 DEF In
<1> QED
  BY <1>1, <1>3 DEF w

\* The connection that the server's application reads.
LEMMA MineIs ==
  ASSUME QueueInv, spc \in Reading
  PROVE  Mine \in Conns /\ accepted = {Mine} /\ sk[Mine].s.state # "NONE"
<1>1. PICK k \in Conns : accepted = {k}
  BY DEF QueueInv
<1>2. Mine = k
  BY <1>1 DEF Mine
<1> QED
  BY <1>1, <1>2 DEF QueueInv

\* The links that a step on connection k leaves alone.
LEMMA OtherLinks ==
  ASSUME LinkInv, NEW k \in Conns,
         \A j \in Conns : j # k => sk'[j] = sk[j] /\ chan'[j] = chan[j] /\ cpc'[j] = cpc[j]
                                   /\ ReadOf(j)' = ReadOf(j),
         Link(sk'[k].c, sk'[k].s, In(chan'[k].c), In(chan'[k].s), cpc'[k], ReadOf(k)')
  PROVE  LinkInv'
<1> SUFFICES ASSUME NEW j \in Conns
             PROVE  Link(sk'[j].c, sk'[j].s, In(chan'[j].c), In(chan'[j].s), cpc'[j], ReadOf(j)')
  BY DEF LinkInv
<1>1. CASE j = k
  BY <1>1
<1>2. CASE j # k
  <2>1. sk'[j] = sk[j] /\ chan'[j] = chan[j] /\ cpc'[j] = cpc[j] /\ ReadOf(j)' = ReadOf(j)
    BY <1>2
  <2>2. Link(sk[j].c, sk[j].s, In(chan[j].c), In(chan[j].s), cpc[j], ReadOf(j))
    BY DEF LinkInv
  <2> QED
    BY <2>1, <2>2
<1> QED
  BY <1>1, <1>2

\* A step of a client's stack.
LEMMA ClientStep ==
  ASSUME IInv, NEW k \in Conns, NEW t \in SockRec, Becomes(k, "c", t),
         chan' \in Chans, \A j \in Conns : j # k => chan'[j] = chan[j],
         cpc' \in [Conns -> ClientPcs], \A j \in Conns : j # k => cpc'[j] = cpc[j],
         Link(t, sk[k].s, In(chan'[k].c), In(chan'[k].s), cpc'[k], ReadOf(k)),
         UNCHANGED <<lsn, queue, accepted, spc, got, rx, wacc, wrecv>>,
         dead' \subseteq Conns \cup {Server}
  PROVE  IInv'
<1>1. /\ sk' \in Socks /\ sk'[k].c = t /\ sk'[k].s = sk[k].s
      /\ \A j \in Conns : j # k => sk'[j] = sk[j]
  BY BecomesIs DEF IInv, Shape
<1>2. \A j \in Conns : ReadOf(j)' = ReadOf(j)
  BY DEF ReadOf
<1>3. LinkInv'
  BY <1>1, <1>2, OtherLinks DEF IInv
<1>4. Shape'
  BY <1>1 DEF IInv, Shape
<1>5. ListenSock' /\ AcceptInv'
  BY DEF IInv, ListenSock, AcceptInv
<1>6. \A j \in Conns : sk'[j].s = sk[j].s
  BY <1>1
<1>7. QueueInv'
  <2>1. queue \in Seq(Conns) /\ accepted \subseteq Conns
    BY DEF IInv, QueueInv, Accepting, Reading, Shape
  <2>2. In(queue) \subseteq Conns
    BY <2>1 DEF In
  <2> QED
    BY <1>6, <2>1, <2>2 DEF IInv, QueueInv
<1>8. ReadInv'
  <2>1. Mine' = Mine
    BY DEF Mine
  <2>2. spc \in Reading => sk'[Mine].s = sk[Mine].s
    BY <1>6, MineIs DEF IInv
  <2> QED
    BY <2>1, <2>2 DEF IInv, ReadInv, ReaderSeesFin, Reading
<1> QED
  BY <1>3, <1>4, <1>5, <1>7, <1>8 DEF IInv

\* The types of a wait structure's fields.
LEMMA WaitFields ==
  ASSUME NEW w \in WaitStructs({App})
  PROVE  /\ w.notified \in BOOLEAN /\ w.dead \in BOOLEAN /\ w.sleep \in BOOLEAN
         /\ w.waiters = {} \/ w.waiters = {App}
BY DEF WaitStructs

\* wake_up leaves a structure of which sleep_on returns at once.
LEMMA WakeUpsIs ==
  ASSUME NEW w \in WaitStructs({App}), NEW v \in WakeUps(w)
  PROVE  /\ v \in WaitStructs({App}) /\ v.dead = w.dead
         /\ SleepReturnsAtOnce(v)
         /\ WaitOK(w) => WaitOK(v) /\ v.waiters = {}
<1>1. /\ w.notified \in BOOLEAN /\ w.dead \in BOOLEAN /\ w.sleep \in BOOLEAN
      /\ w.waiters = {} \/ w.waiters = {App}
  BY WaitFields
<1>2. CASE w.dead \/ w.notified
  <2>1. v = w
    BY <1>2 DEF WakeUps
  <2> QED
    BY <1>1, <1>2, <2>1 DEF SleepReturnsAtOnce, WaitOK
<1> DEFINE u == [w EXCEPT !.notified = TRUE]
<1>3. /\ u \in WaitStructs({App}) /\ u.notified /\ u.dead = w.dead /\ u.waiters = w.waiters /\ u.sleep = w.sleep
  BY DEF WaitStructs
<1>4. CASE ~(w.dead \/ w.notified) /\ w.sleep
  <2>1. v \in Signal(u)
    BY <1>4 DEF WakeUps
  <2> HIDE DEF u
  <2>2. v = [u EXCEPT !.waiters = {}]
    BY <1>1, <1>3, <2>1 DEF Signal
  <2>3. v \in WaitStructs({App}) /\ v.notified /\ v.dead = w.dead /\ v.waiters = {}
    BY <1>3, <2>2 DEF WaitStructs
  <2> QED
    BY <2>3 DEF SleepReturnsAtOnce, WaitOK
<1>5. CASE ~(w.dead \/ w.notified) /\ ~w.sleep
  <2>1. v = u
    BY <1>5 DEF WakeUps
  <2> HIDE DEF u
  <2> QED
    BY <1>1, <1>3, <1>5, <2>1 DEF SleepReturnsAtOnce, WaitOK
<1> QED
  BY <1>2, <1>4, <1>5

\* sleep_on: the sleeper either returns or is asleep.
LEMMA SleepIs ==
  ASSUME NEW w \in WaitStructs({App}), NEW v, v = Sleep(w, App)
  PROVE  /\ v \in WaitStructs({App}) /\ v.dead = w.dead
         /\ SleepReturnsAtOnce(w) /\ ~w.dead => ~v.notified
         /\ ~SleepReturnsAtOnce(w) => v.waiters = {App} /\ ~v.notified
         /\ WaitOK(w) => WaitOK(v)
<1>1. /\ w.notified \in BOOLEAN /\ w.dead \in BOOLEAN /\ w.sleep \in BOOLEAN
      /\ w.waiters = {} \/ w.waiters = {App}
  BY WaitFields
<1>2. CASE w.dead
  <2>1. v = w
    BY <1>2 DEF Sleep
  <2> QED
    BY <1>2, <2>1 DEF SleepReturnsAtOnce
<1>3. CASE ~w.dead /\ w.notified
  <2>1. v = [w EXCEPT !.notified = FALSE, !.sleep = FALSE]
    BY <1>3 DEF Sleep
  <2>2. v \in WaitStructs({App}) /\ v.dead = w.dead /\ ~v.notified /\ v.waiters = w.waiters
    BY <2>1 DEF WaitStructs
  <2> QED
    BY <1>1, <1>3, <2>2 DEF SleepReturnsAtOnce, WaitOK
<1>4. CASE ~w.dead /\ ~w.notified
  <2>1. v = [w EXCEPT !.sleep = TRUE, !.waiters = w.waiters \cup {App}]
    BY <1>4 DEF Sleep
  <2>2. /\ v \in WaitStructs({App}) /\ v.dead = w.dead /\ v.notified = w.notified
        /\ v.waiters = {App} /\ v.sleep
    BY <1>1, <2>1 DEF WaitStructs
  <2> QED
    BY <1>1, <1>4, <2>2 DEF SleepReturnsAtOnce, WaitOK
<1> QED
  BY <1>1, <1>2, <1>3, <1>4

\* sleep_on after pthread_cond_wait.
LEMMA ResumeIs ==
  ASSUME NEW w \in WaitStructs({App}), App \notin w.waiters, NEW v, v = Resume(w)
  PROVE  v \in WaitStructs({App}) /\ v.dead = w.dead /\ ~v.notified /\ WaitOK(v)
<1>1. w.waiters = {}
  BY WaitFields
<1>2. v \in WaitStructs({App}) /\ v.dead = w.dead /\ ~v.notified /\ v.waiters = w.waiters
  BY DEF Resume, WaitStructs
<1> QED
  BY <1>1, <1>2 DEF WaitOK

\* A step of the server's stack on one child, and what the receive thread adds to
\* the accept queue.
LEMMA ServerStep ==
  ASSUME IInv, NEW k \in Conns, NEW t \in SockRec, Becomes(k, "s", t), t.state # "NONE",
         chan' \in Chans, \A j \in Conns : j # k => chan'[j] = chan[j],
         Link(sk[k].c, t, In(chan'[k].c), In(chan'[k].s), cpc[k], ReadOf(k)),
         UNCHANGED <<lsn, accepted, cpc, spc, got, wacc>>,
         dead' \subseteq Conns \cup {Server},
         NEW w, wrecv' = [wrecv EXCEPT ![k] = w], WaitOK(w),
         t.state = "CLOSE_WAIT" =>
            \/ sk[k].s.state = "CLOSE_WAIT" /\ w = wrecv[k]
            \/ SleepReturnsAtOnce(w) /\ w.waiters = {},
         sk[k].s.state \in {"LAST_ACK", "CLOSED"} =>
            t.state \in {"LAST_ACK", "CLOSED"} /\ t.snd_nxt = sk[k].s.snd_nxt,
         \/ queue' = queue /\ rx' = rx
         \/ queue' = Append(queue, k) /\ rx' = TRUE
  PROVE  IInv'
<1>1. /\ sk' \in Socks /\ sk'[k].s = t /\ sk'[k].c = sk[k].c
      /\ \A j \in Conns : j # k => sk'[j] = sk[j]
  BY BecomesIs DEF IInv, Shape
<1>2. \A j \in Conns : ReadOf(j)' = ReadOf(j)
  BY DEF ReadOf
<1>3. LinkInv'
  BY <1>1, <1>2, OtherLinks DEF IInv
<1>4. /\ wrecv' \in [Conns -> WaitStructs({App})] /\ wrecv'[k] = w
      /\ \A j \in Conns : j # k => wrecv'[j] = wrecv[j]
  BY DEF IInv, Shape, WaitOK
<1>5. Shape'
  BY <1>1, <1>4 DEF IInv, Shape
<1>6. ListenSock'
  BY DEF IInv, ListenSock
<1>7. queue \in Seq(Conns) /\ accepted \subseteq Conns /\ In(queue) \subseteq Conns
  <2>1. queue \in Seq(Conns) /\ accepted \subseteq Conns
    BY DEF IInv, QueueInv, Accepting, Reading, Shape
  <2> QED
    BY <2>1 DEF In
<1>8. /\ queue' \in Seq(Conns) /\ In(queue') \subseteq In(queue) \cup {k}
      /\ queue # <<>> => queue' # <<>>
      /\ rx' => rx \/ queue' # <<>>
  <2>1. CASE queue' = queue /\ rx' = rx
    BY <1>7, <2>1
  <2>2. CASE queue' = Append(queue, k) /\ rx' = TRUE
    <3>1. /\ Append(queue, k) \in Seq(Conns) /\ Append(queue, k) # <<>>
          /\ In(Append(queue, k)) \subseteq In(queue) \cup {k}
      BY <1>7, QueueAppend
    <3>2. queue' \in Seq(Conns) /\ queue' # <<>> /\ In(queue') \subseteq In(queue) \cup {k}
      BY <2>2, <3>1
    <3> QED
      BY <3>2
  <2> QED
    BY <2>1, <2>2
<1>9. QueueInv'
  <2>1. \A j \in accepted \cup In(queue') : sk'[j].s.state # "NONE"
    <3> SUFFICES ASSUME NEW j \in accepted \cup In(queue') PROVE sk'[j].s.state # "NONE"
      OBVIOUS
    <3>1. CASE j = k
      BY <1>1, <3>1
    <3>2. CASE j # k
      <4>1. j \in accepted \cup In(queue) /\ j \in Conns
        BY <1>7, <1>8, <3>2
      <4>2. sk[j].s.state # "NONE"
        BY <4>1 DEF IInv, QueueInv
      <4> QED
        BY <1>1, <3>2, <4>1, <4>2
    <3> QED
      BY <3>1, <3>2
  <2> QED
    BY <1>8, <2>1 DEF IInv, QueueInv
<1>10. AcceptInv'
  BY <1>8 DEF IInv, AcceptInv
<1>11. ReadInv'
  <2>1. Mine' = Mine
    BY DEF Mine
  <2>2. \A j \in Conns : WaitOK(wrecv'[j])
    BY <1>4 DEF IInv, ReadInv
  <2>3. CASE spc \in Reading /\ Mine = k
    <3>1. spc = "read_sleep" /\ t.state = "CLOSE_WAIT" => SleepReturnsAtOnce(w)
      BY <2>3 DEF IInv, ReadInv
    <3>2. spc = "read_asleep" /\ App \in w.waiters => t.state # "CLOSE_WAIT"
      BY <2>3 DEF IInv, ReadInv, ReaderSeesFin
    <3>3. spc = "closing" => t.state \in {"LAST_ACK", "CLOSED"} /\ t.snd_nxt = 1
      BY <2>3 DEF IInv, ReadInv
    <3> QED
      BY <1>1, <1>4, <2>1, <2>2, <2>3, <3>1, <3>2, <3>3 DEF ReadInv, ReaderSeesFin
  <2>4. CASE spc \in Reading /\ Mine # k
    <3>1. sk'[Mine] = sk[Mine] /\ wrecv'[Mine] = wrecv[Mine]
      BY <1>1, <1>4, <2>4, MineIs DEF IInv
    <3> QED
      BY <2>1, <2>2, <3>1 DEF IInv, ReadInv, ReaderSeesFin
  <2>5. CASE spc \notin Reading
    BY <2>2, <2>5 DEF ReadInv, ReaderSeesFin, Reading
  <2> QED
    BY <2>3, <2>4, <2>5
<1> QED
  BY <1>3, <1>5, <1>6, <1>9, <1>10, <1>11 DEF IInv

\* The receive thread of a client takes a segment.
LEMMA RcvStepC ==
  ASSUME IInv, NEW k \in Conns, NEW t \in SockRec, NEW out \in Seq(SegRec),
         chan[k].c # <<>>, Reply(k, "c", out), Becomes(k, "c", t),
         Link(t, sk[k].s, In(chan[k].c), In(chan[k].s) \cup In(out), cpc[k], ReadOf(k)),
         UNCHANGED <<lsn, queue, accepted, cpc, spc, got, rx, wacc, wrecv>>,
         dead' \subseteq Conns \cup {Server}
  PROVE  IInv'
<1>1. /\ chan' \in Chans /\ (\A j \in Conns : j # k => chan'[j] = chan[j])
      /\ In(chan'[k].c) \subseteq In(chan[k].c)
      /\ In(chan'[k].s) = In(chan[k].s) \cup In(out)
  BY ReplyIsC DEF IInv, Shape
<1>2. Link(t, sk[k].s, In(chan'[k].c), In(chan'[k].s), cpc[k], ReadOf(k))
  BY <1>1, LinkShrinks
<1>3. cpc' \in [Conns -> ClientPcs] /\ cpc'[k] = cpc[k] /\ (\A j \in Conns : j # k => cpc'[j] = cpc[j])
  BY DEF IInv, Shape
<1> QED
  BY <1>1, <1>2, <1>3, ClientStep

\* The receive thread of the server takes a segment of a child; w is what is left
\* of the child's wait_recv.
LEMMA RcvStepS ==
  ASSUME IInv, NEW k \in Conns, NEW t \in SockRec, NEW out \in Seq(SegRec),
         chan[k].s # <<>>, Reply(k, "s", out), Becomes(k, "s", t), t.state # "NONE",
         Link(sk[k].c, t, In(chan[k].c) \cup In(out), In(chan[k].s), cpc[k], ReadOf(k)),
         UNCHANGED <<lsn, accepted, cpc, spc, got, wacc>>,
         dead' \subseteq Conns \cup {Server},
         NEW w, wrecv' = [wrecv EXCEPT ![k] = w], WaitOK(w),
         t.state = "CLOSE_WAIT" =>
            \/ sk[k].s.state = "CLOSE_WAIT" /\ w = wrecv[k]
            \/ SleepReturnsAtOnce(w) /\ w.waiters = {},
         sk[k].s.state \in {"LAST_ACK", "CLOSED"} =>
            t.state \in {"LAST_ACK", "CLOSED"} /\ t.snd_nxt = sk[k].s.snd_nxt,
         \/ queue' = queue /\ rx' = rx
         \/ queue' = Append(queue, k) /\ rx' = TRUE
  PROVE  IInv'
<1>1. /\ chan' \in Chans /\ (\A j \in Conns : j # k => chan'[j] = chan[j])
      /\ In(chan'[k].s) \subseteq In(chan[k].s)
      /\ In(chan'[k].c) = In(chan[k].c) \cup In(out)
  BY ReplyIsS DEF IInv, Shape
<1>2. Link(sk[k].c, t, In(chan'[k].c), In(chan'[k].s), cpc[k], ReadOf(k))
  BY <1>1, LinkShrinks
<1> QED
  BY <1>1, <1>2, ServerStep

\* A sock that stays as it was.
LEMMA SameSock ==
  ASSUME sk \in Socks, NEW k \in Conns, UNCHANGED sk
  PROVE  Becomes(k, "c", sk[k].c) /\ Becomes(k, "s", sk[k].s)
BY DEF Becomes, Socks

\* The link of a connection, and the first segments of its channels.
LEMMA LinkOf ==
  ASSUME IInv, NEW k \in Conns
  PROVE  /\ Link(sk[k].c, sk[k].s, In(chan[k].c), In(chan[k].s), cpc[k], ReadOf(k))
         /\ chan[k].c # <<>> => Head(chan[k].c) \in In(chan[k].c)
         /\ chan[k].s # <<>> => Head(chan[k].s) \in In(chan[k].s)
         /\ sk \in Socks /\ chan \in Chans /\ dead \subseteq Conns \cup {Server}
         /\ wrecv \in [Conns -> WaitStructs({App})] /\ WaitOK(wrecv[k])
         /\ sk[k].c \in SockRec /\ sk[k].s \in SockRec
         /\ wrecv = [wrecv EXCEPT ![k] = wrecv[k]]
<1>1. chan[k].c \in Seq(SegRec) /\ chan[k].s \in Seq(SegRec) /\ sk[k].c \in SockRec /\ sk[k].s \in SockRec
  BY DEF IInv, Shape, Chans, Socks
<1>2. wrecv \in [Conns -> WaitStructs({App})]
  BY DEF IInv, Shape
<1> QED
  BY <1>1, <1>2, InHead DEF IInv, LinkInv, Shape, ReadInv

\* An answer is one segment.
LEMMA OneSegment ==
  ASSUME NEW s \in SockRec, NEW fl \in SUBSET {"SYN", "ACK", "FIN", "PSH"}
  PROVE  LET m == Control(s, fl)
         IN  /\ m \in SegRec /\ <<m>> \in Seq(SegRec) /\ In(<<m>>) = {m}
             /\ <<m, m>> \in Seq(SegRec) /\ In(<<m, m>>) = {m}
<1>1. Control(s, fl) \in SegRec
  BY ControlIs DEF Msg
<1> QED
  BY <1>1, InSmall

-----------------------------------------------------------------------------
(***************************************************************************)
(* Every action keeps the invariant.                                       *)
(***************************************************************************)

\* RcvSynSent.
LEMMA RcvSynSentKeeps ==
  ASSUME IInv, NEW k \in Conns, RcvSynSent(k)
  PROVE  IInv'
<1> DEFINE seg == Head(chan[k].c)
           t == UnsetRetrans(ClosedWindow(UpdateSendBuffer(
                  RcvState(sk[k].c, seg.seq + 1, "ESTABLISHED"), seg.ack), seg))
           out == <<Control(t, {"ACK"})>>
<1>1. /\ chan[k].c # <<>> /\ sk[k].c.state = "SYN_SENT" /\ Becomes(k, "c", t) /\ Reply(k, "c", out)
      /\ UNCHANGED <<lsn, queue, accepted, cpc, spc, got, rx, wacc, wrecv, dead>>
  BY DEF RcvSynSent, Finds, Arrives, ClosedWindow, RcvState
<1>2. /\ seg \in In(chan[k].c) /\ dead \subseteq Conns \cup {Server}
      /\ Link(sk[k].c, sk[k].s, In(chan[k].c), In(chan[k].s), cpc[k], ReadOf(k))
  BY <1>1, LinkOf
<1>3. t \in SockRec /\ Link(t, sk[k].s, In(chan[k].c), In(chan[k].s) \cup {Control(t, {"ACK"})}, cpc[k], ReadOf(k))
  BY <1>1, <1>2, SynSentLink
<1> HIDE DEF t, seg
<1>4. out \in Seq(SegRec) /\ In(out) = {Control(t, {"ACK"})}
  BY <1>3, OneSegment
<1> HIDE DEF out
<1> QED
  BY <1>1, <1>2, <1>3, <1>4, RcvStepC

\* RcvFin, the client's side.
LEMMA RcvFinKeepsC ==
  ASSUME IInv, NEW k \in Conns, RcvFin(k, "c")
  PROVE  IInv'
<1> DEFINE seg == Head(chan[k].c)
           t == RcvState(sk[k].c, seg.seq + 1, "CLOSE_WAIT")
           out == <<Control(t, {"ACK"})>>
<1>1. /\ chan[k].c # <<>> /\ sk[k].c.state = "ESTABLISHED" /\ "FIN" \in seg.flags
      /\ Becomes(k, "c", t) /\ Reply(k, "c", out)
      /\ UNCHANGED <<lsn, queue, accepted, cpc, spc, got, rx, wacc, wrecv, dead>>
  BY DEF RcvFin, Finds, Arrives, RcvState
<1>2. /\ seg \in In(chan[k].c) /\ dead \subseteq Conns \cup {Server}
      /\ Link(sk[k].c, sk[k].s, In(chan[k].c), In(chan[k].s), cpc[k], ReadOf(k))
  BY <1>1, LinkOf
<1>3. t \in SockRec /\ Link(t, sk[k].s, In(chan[k].c), In(chan[k].s) \cup {Control(t, {"ACK"})}, cpc[k], ReadOf(k))
  BY <1>1, <1>2, FinLinkC
<1> HIDE DEF t, seg
<1>4. out \in Seq(SegRec) /\ In(out) = {Control(t, {"ACK"})}
  BY <1>3, OneSegment
<1> HIDE DEF out
<1> QED
  BY <1>1, <1>2, <1>3, <1>4, RcvStepC

\* RcvFin, the server's side: the reader is woken.
LEMMA RcvFinKeepsS ==
  ASSUME IInv, NEW k \in Conns, RcvFin(k, "s")
  PROVE  IInv'
<1> DEFINE seg == Head(chan[k].s)
           t == RcvState(sk[k].s, seg.seq + 1, "CLOSE_WAIT")
           out == <<Control(t, {"ACK"})>>
<1>1. /\ chan[k].s # <<>> /\ sk[k].s.state = "ESTABLISHED" /\ "FIN" \in seg.flags
      /\ Becomes(k, "s", t) /\ Reply(k, "s", out)
      /\ \E w \in WakeUps(wrecv[k]) : wrecv' = [wrecv EXCEPT ![k] = w]
      /\ UNCHANGED <<lsn, queue, accepted, cpc, spc, got, rx, wacc, dead>>
  BY DEF RcvFin, Finds, Arrives, RcvState
<1>2. /\ seg \in In(chan[k].s) /\ dead \subseteq Conns \cup {Server}
      /\ wrecv \in [Conns -> WaitStructs({App})] /\ WaitOK(wrecv[k])
      /\ Link(sk[k].c, sk[k].s, In(chan[k].c), In(chan[k].s), cpc[k], ReadOf(k))
  BY <1>1, LinkOf
<1>3. /\ t \in SockRec /\ t.state = "CLOSE_WAIT"
      /\ Link(sk[k].c, t, In(chan[k].c) \cup {Control(t, {"ACK"})}, In(chan[k].s), cpc[k], ReadOf(k))
  BY <1>1, <1>2, FinLinkS
<1> HIDE DEF t, seg
<1>4. out \in Seq(SegRec) /\ In(out) = {Control(t, {"ACK"})}
  BY <1>3, OneSegment
<1> HIDE DEF out
<1>5. PICK w \in WakeUps(wrecv[k]) : wrecv' = [wrecv EXCEPT ![k] = w]
  BY <1>1
<1>6. WaitOK(w) /\ SleepReturnsAtOnce(w) /\ w.waiters = {}
  BY <1>2, WakeUpsIs
<1> QED
  BY <1>1, <1>2, <1>3, <1>4, <1>5, <1>6, RcvStepS

\* Segments leave the channels of a connection and nothing else changes for it.
LEMMA DropStep ==
  ASSUME IInv, NEW k \in Conns, chan' \in Chans, \A j \in Conns : j # k => chan'[j] = chan[j],
         In(chan'[k].c) \subseteq In(chan[k].c), In(chan'[k].s) \subseteq In(chan[k].s),
         UNCHANGED <<sk, lsn, queue, accepted, cpc, spc, got, rx, wacc, wrecv>>,
         dead' \subseteq Conns \cup {Server}
  PROVE  IInv'
<1>1. Becomes(k, "c", sk[k].c) /\ sk[k].c \in SockRec
  BY LinkOf, SameSock
<1>2. Link(sk[k].c, sk[k].s, In(chan'[k].c), In(chan'[k].s), cpc[k], ReadOf(k))
  BY LinkOf, LinkShrinks
<1>3. cpc' \in [Conns -> ClientPcs] /\ cpc'[k] = cpc[k] /\ (\A j \in Conns : j # k => cpc'[j] = cpc[j])
  BY DEF IInv, Shape
<1> QED
  BY <1>1, <1>2, <1>3, ClientStep

\* A segment is taken and not answered.
LEMMA TakeStep ==
  ASSUME IInv, NEW k \in Conns,
         \/ chan[k].c # <<>> /\ Reply(k, "c", <<>>)
         \/ chan[k].s # <<>> /\ Reply(k, "s", <<>>),
         UNCHANGED <<sk, lsn, queue, accepted, cpc, spc, got, rx, wacc, wrecv>>,
         dead' \subseteq Conns \cup {Server}
  PROVE  IInv'
<1>1. chan \in Chans /\ <<>> \in Seq(SegRec) /\ In(<<>>) = {}
  BY LinkOf, InSmall
<1>2. /\ chan' \in Chans /\ (\A j \in Conns : j # k => chan'[j] = chan[j])
      /\ In(chan'[k].c) \subseteq In(chan[k].c) /\ In(chan'[k].s) \subseteq In(chan[k].s)
  <2> DEFINE out == <<>>
  <2>1. out \in Seq(SegRec) /\ In(out) = {}
    BY <1>1
  <2>2. \/ chan[k].c # <<>> /\ Reply(k, "c", out)
        \/ chan[k].s # <<>> /\ Reply(k, "s", out)
    OBVIOUS
  <2> HIDE DEF out
  <2>3. CASE chan[k].c # <<>> /\ Reply(k, "c", out)
    BY <1>1, <2>1, <2>3, ReplyIsC
  <2>4. CASE chan[k].s # <<>> /\ Reply(k, "s", out)
    BY <1>1, <2>1, <2>4, ReplyIsS
  <2> QED
    BY <2>2, <2>3, <2>4
<1> QED
  BY <1>2, DropStep

\* RcvNoSock, RcvIgnored and the losses of the network.
LEMMA DropKeeps ==
  ASSUME IInv, NEW k \in Conns, NEW e \in Ends,
         RcvNoSock(k, e) \/ RcvIgnored(k) \/ Lose(k, e) \/ Vanish(k, e)
  PROVE  IInv'
<1>1. dead \subseteq Conns \cup {Server} /\ HostOf(k, e) \in Conns \cup {Server}
  BY LinkOf DEF HostOf
<1>2. CASE RcvNoSock(k, e)
  <2>1. UNCHANGED <<sk, lsn, queue, accepted, cpc, spc, got, rx, wacc, wrecv>> /\ dead' \subseteq Conns \cup {Server}
    BY <1>1, <1>2 DEF RcvNoSock
  <2>2. \/ chan[k].c # <<>> /\ Reply(k, "c", <<>>)
        \/ chan[k].s # <<>> /\ Reply(k, "s", <<>>)
    BY <1>2 DEF RcvNoSock, Arrives, Ends
  <2> QED
    BY <2>1, <2>2, TakeStep
<1>3. CASE RcvIgnored(k)
  <2>1. /\ UNCHANGED <<sk, lsn, queue, accepted, cpc, spc, got, rx, wacc, wrecv, dead>>
        /\ chan[k].c # <<>> /\ Reply(k, "c", <<>>)
    BY <1>3 DEF RcvIgnored, Arrives, OnlySock
  <2> QED
    BY <1>1, <2>1, TakeStep
<1>4. CASE Lose(k, e) \/ Vanish(k, e)
  <2>1. UNCHANGED <<sk, lsn, queue, accepted, cpc, spc, got, rx, wacc, wrecv, dead>>
    BY <1>4 DEF Lose, Vanish
  <2>2. chan \in Chans /\ chan[k][e] \in Seq(SegRec) /\ chan[k][e] # <<>> /\ e \in {"c", "s"}
    BY <1>4, LinkOf DEF Lose, Vanish, Chans, Ends
  <2>3. PICK q \in Seq(SegRec) : In(q) \subseteq In(chan[k][e]) /\ chan' = [chan EXCEPT ![k][e] = q]
    <3>1. CASE Lose(k, e)
      <4>1. Tail(chan[k][e]) \in Seq(SegRec) /\ In(Tail(chan[k][e])) \subseteq In(chan[k][e])
        BY <2>2, InHead
      <4>2. chan' = [chan EXCEPT ![k][e] = Tail(chan[k][e])]
        BY <3>1 DEF Lose
      <4> QED
        BY <4>1, <4>2
    <3>2. CASE Vanish(k, e)
      <4>1. <<>> \in Seq(SegRec) /\ In(<<>>) \subseteq In(chan[k][e])
        BY InSmall
      <4>2. chan' = [chan EXCEPT ![k][e] = <<>>]
        BY <3>2 DEF Vanish
      <4> QED
        BY <4>1, <4>2
    <3> QED
      BY <1>4, <3>1, <3>2
  <2>4. /\ chan' \in Chans /\ (\A j \in Conns : j # k => chan'[j] = chan[j])
        /\ In(chan'[k].c) \subseteq In(chan[k].c) /\ In(chan'[k].s) \subseteq In(chan[k].s)
    <3>1. CASE e = "c"
      <4>1. /\ chan' \in Chans /\ (\A j \in Conns : j # k => chan'[j] = chan[j])
            /\ chan'[k].c = q /\ chan'[k].s = chan[k].s
        BY <2>2, <2>3, <3>1 DEF Chans
      <4> QED
        BY <2>3, <3>1, <4>1
    <3>2. CASE e = "s"
      <4>1. /\ chan' \in Chans /\ (\A j \in Conns : j # k => chan'[j] = chan[j])
            /\ chan'[k].s = q /\ chan'[k].c = chan[k].c
        BY <2>2, <2>3, <3>2 DEF Chans
      <4> QED
        BY <2>3, <3>2, <4>1
    <3> QED
      BY <2>2, <3>1, <3>2
  <2> QED
    BY <1>1, <2>1, <2>4, DropStep
<1> QED
  BY <1>2, <1>3, <1>4

\* RcvAck, the client's side.
LEMMA RcvAckKeepsC ==
  ASSUME IInv, NEW k \in Conns, RcvAck(k, "c")
  PROVE  IInv'
<1> DEFINE seg == Head(chan[k].c)
           c == sk[k].c
           m == Control(c, {"ACK"})
           t == OpenWindow(UpdateSendBuffer(c, seg.ack), seg)
           out == IF seg.seq < c.rcv_nxt THEN <<m>> ELSE <<>>
<1>1. /\ chan[k].c # <<>> /\ c.state = "ESTABLISHED" /\ Becomes(k, "c", t) /\ Reply(k, "c", out)
      /\ UNCHANGED <<lsn, queue, accepted, cpc, spc, got, rx, wacc, wrecv, dead>>
  BY DEF RcvAck, Finds, Arrives, OpenWindow, OnlySock
<1>2. /\ seg \in In(chan[k].c) /\ dead \subseteq Conns \cup {Server} /\ c \in SockRec
      /\ Link(c, sk[k].s, In(chan[k].c), In(chan[k].s), cpc[k], ReadOf(k))
  BY <1>1, LinkOf
<1>3. Link(c, sk[k].s, In(chan[k].c), In(chan[k].s) \cup {m}, cpc[k], ReadOf(k))
  BY <1>1, <1>2, PlainAckLink
<1>4. t \in SockRec /\ Link(t, sk[k].s, In(chan[k].c), In(chan[k].s) \cup {m}, cpc[k], ReadOf(k))
  BY <1>1, <1>2, <1>3, AckLinkC
<1>5. out \in Seq(SegRec) /\ In(out) \subseteq {m}
  BY <1>2, OneSegment, InSmall
<1> HIDE DEF t, seg, m, out
<1>6. Link(t, sk[k].s, In(chan[k].c), In(chan[k].s) \cup In(out), cpc[k], ReadOf(k))
  BY <1>4, <1>5, LinkShrinks
<1> QED
  BY <1>1, <1>2, <1>4, <1>5, <1>6, RcvStepC

\* RcvAck, the server's side.
LEMMA RcvAckKeepsS ==
  ASSUME IInv, NEW k \in Conns, RcvAck(k, "s")
  PROVE  IInv'
<1> DEFINE seg == Head(chan[k].s)
           s == sk[k].s
           m == Control(s, {"ACK"})
           t == OpenWindow(UpdateSendBuffer(s, seg.ack), seg)
           out == IF seg.seq < s.rcv_nxt THEN <<m>> ELSE <<>>
           w == wrecv[k]
<1>1. /\ chan[k].s # <<>> /\ s.state = "ESTABLISHED" /\ Becomes(k, "s", t) /\ Reply(k, "s", out)
      /\ UNCHANGED <<lsn, queue, accepted, cpc, spc, got, rx, wacc, wrecv, dead>>
  BY DEF RcvAck, Finds, Arrives, OpenWindow, OnlySock
<1>2. /\ seg \in In(chan[k].s) /\ dead \subseteq Conns \cup {Server} /\ s \in SockRec
      /\ WaitOK(w) /\ wrecv' = [wrecv EXCEPT ![k] = w]
      /\ Link(sk[k].c, s, In(chan[k].c), In(chan[k].s), cpc[k], ReadOf(k))
  BY <1>1, LinkOf
<1>3. Link(sk[k].c, s, In(chan[k].c) \cup {m}, In(chan[k].s), cpc[k], ReadOf(k))
  BY <1>1, <1>2, PlainAckLink
<1>4. /\ t \in SockRec /\ t.state = "ESTABLISHED"
      /\ Link(sk[k].c, t, In(chan[k].c) \cup {m}, In(chan[k].s), cpc[k], ReadOf(k))
  BY <1>1, <1>2, <1>3, AckLinkS
<1>5. out \in Seq(SegRec) /\ In(out) \subseteq {m}
  BY <1>2, OneSegment, InSmall
<1> HIDE DEF t, seg, m, out, w
<1>6. Link(sk[k].c, t, In(chan[k].c) \cup In(out), In(chan[k].s), cpc[k], ReadOf(k))
  BY <1>4, <1>5, LinkShrinks
<1> QED
  BY <1>1, <1>2, <1>4, <1>5, <1>6, RcvStepS

\* The two acknowledgements of an old byte.
LEMMA Answers ==
  ASSUME NEW s \in SockRec, NEW t \in SockRec
  PROVE  LET m == Control(s, {"ACK"})
             n == Control(t, {"ACK"})
         IN  /\ <<m>> \o <<n>> \in Seq(SegRec) /\ In(<<m>> \o <<n>>) = {m, n}
             /\ <<>> \o <<n>> \in Seq(SegRec) /\ In(<<>> \o <<n>>) = {n}
<1> DEFINE m == Control(s, {"ACK"})
           n == Control(t, {"ACK"})
           none == <<>>
           first == <<m>>
           last == <<n>>
<1>1. /\ first \in Seq(SegRec) /\ In(first) = {m} /\ last \in Seq(SegRec) /\ In(last) = {n}
      /\ none \in Seq(SegRec) /\ In(none) = {}
  BY OneSegment, InSmall
<1> HIDE DEF none, first, last, m, n
<1>2. /\ first \o last \in Seq(SegRec) /\ In(first \o last) = In(first) \cup In(last)
      /\ none \o last \in Seq(SegRec) /\ In(none \o last) = In(none) \cup In(last)
  BY <1>1, InConcat
<1>3. In(first \o last) = {m, n} /\ In(none \o last) = {n}
  BY <1>1, <1>2
<1> QED
  BY <1>2, <1>3 DEF none, first, last, m, n

\* RcvData, the client's side: only a probe gets there, and it is old.
LEMMA RcvDataKeepsC ==
  ASSUME IInv, NEW k \in Conns, RcvData(k, "c")
  PROVE  IInv'
<1> DEFINE seg == Head(chan[k].c)
           c == sk[k].c
           m == Control(c, {"ACK"})
<1>1. /\ chan[k].c # <<>> /\ c.state = "ESTABLISHED" /\ seg.len > 0
      /\ UNCHANGED <<lsn, queue, accepted, cpc, spc, got, rx, wacc, wrecv, dead>>
  BY DEF RcvData, Finds, Arrives
<1>2. /\ seg \in In(chan[k].c) /\ dead \subseteq Conns \cup {Server} /\ c \in SockRec
      /\ Link(c, sk[k].s, In(chan[k].c), In(chan[k].s), cpc[k], ReadOf(k))
  BY <1>1, LinkOf
<1>3. seg.seq = 0 /\ c.rcv_nxt >= 1
  BY <1>1, <1>2 DEF Link, ToClient, EndsFit, SegRec
<1>4. seg.seq < c.rcv_nxt /\ seg.seq # c.rcv_nxt
  BY <1>2, <1>3, SockFields
<1>5. PICK out : /\ out = (IF seg.seq < c.rcv_nxt THEN <<m>> ELSE <<>>) \o <<m>>
                 /\ Becomes(k, "c", c) /\ Reply(k, "c", out)
  BY <1>4 DEF RcvData
<1>6. Link(c, sk[k].s, In(chan[k].c), In(chan[k].s) \cup {m}, cpc[k], ReadOf(k))
  BY <1>1, <1>2, PlainAckLink
<1>7. out \in Seq(SegRec) /\ In(out) = {m}
  <2>1. out = <<m>> \o <<m>>
    BY <1>4, <1>5
  <2>2. <<m>> \o <<m>> \in Seq(SegRec) /\ In(<<m>> \o <<m>>) = {m, m}
    BY <1>2, Answers
  <2> HIDE DEF m
  <2> QED
    BY <2>1, <2>2
<1> HIDE DEF seg, c, m
<1> QED
  BY <1>1, <1>2, <1>5, <1>6, <1>7, RcvStepC DEF c

\* RcvData, the server's side: a new block wakes the reader, an old byte is
\* acknowledged once more.
LEMMA RcvDataKeepsS ==
  ASSUME IInv, NEW k \in Conns, RcvData(k, "s")
  PROVE  IInv'
<1> DEFINE seg == Head(chan[k].s)
           s == sk[k].s
           m == Control(s, {"ACK"})
           b == seg.seq < s.rcv_nxt
<1>1. /\ chan[k].s # <<>> /\ s.state = "ESTABLISHED" /\ seg.len > 0
      /\ UNCHANGED <<lsn, queue, accepted, cpc, spc, got, rx, wacc, dead>>
  BY DEF RcvData, Finds, Arrives
<1>2. /\ seg \in In(chan[k].s) /\ dead \subseteq Conns \cup {Server} /\ s \in SockRec
      /\ wrecv \in [Conns -> WaitStructs({App})] /\ WaitOK(wrecv[k])
      /\ wrecv = [wrecv EXCEPT ![k] = wrecv[k]]
      /\ Link(sk[k].c, s, In(chan[k].c), In(chan[k].s), cpc[k], ReadOf(k))
  BY <1>1, LinkOf
<1>3. CASE seg.seq = s.rcv_nxt
  <2> DEFINE t == BlockIn(s, seg)
             n == Control(t, {"ACK"})
             first == IF b THEN <<m>> ELSE <<>>
             out == first \o <<n>>
  <2>1. /\ Becomes(k, "s", t) /\ Reply(k, "s", out)
        /\ \E w \in WakeUps(wrecv[k]) : wrecv' = [wrecv EXCEPT ![k] = w]
    BY <1>3 DEF RcvData, BlockIn, SeqEnd
  <2>2. /\ t \in SockRec /\ t.state = "ESTABLISHED"
        /\ Link(sk[k].c, t, In(chan[k].c) \cup {n}, In(chan[k].s), cpc[k], ReadOf(k))
    BY <1>1, <1>2, <1>3, DataLinkS
  <2>3. b = FALSE
    BY <1>2, <1>3, SockFields
  <2> HIDE DEF b, t, seg, s
  <2>4. out \in Seq(SegRec) /\ In(out) = {n}
    <3>1. out = <<>> \o <<n>>
      BY <2>3
    <3>2. <<>> \o <<n>> \in Seq(SegRec) /\ In(<<>> \o <<n>>) = {n}
      BY <1>2, <2>2, Answers
    <3> HIDE DEF out, n
    <3> QED
      BY <3>1, <3>2
  <2> HIDE DEF n, m, first, out
  <2>5. PICK w \in WakeUps(wrecv[k]) : wrecv' = [wrecv EXCEPT ![k] = w]
    BY <2>1
  <2>6. WaitOK(w) /\ SleepReturnsAtOnce(w) /\ w.waiters = {}
    BY <1>2, WakeUpsIs
  <2> QED
    BY <1>1, <1>2, <2>1, <2>2, <2>4, <2>5, <2>6, RcvStepS DEF s
<1>4. CASE seg.seq # s.rcv_nxt
  <2> DEFINE first == IF b THEN <<m>> ELSE <<>>
             out == first \o <<m>>
  <2>1. Becomes(k, "s", s) /\ Reply(k, "s", out) /\ wrecv' = wrecv
    BY <1>4 DEF RcvData
  <2>2. Link(sk[k].c, s, In(chan[k].c) \cup {m}, In(chan[k].s), cpc[k], ReadOf(k))
    BY <1>1, <1>2, PlainAckLink
  <2>3. b \in BOOLEAN
    OBVIOUS
  <2> HIDE DEF b, seg, s
  <2>4. out \in Seq(SegRec) /\ In(out) = {m}
    <3>1. out = <<m>> \o <<m>> \/ out = <<>> \o <<m>>
      BY <2>3
    <3>2. /\ <<m>> \o <<m>> \in Seq(SegRec) /\ In(<<m>> \o <<m>>) = {m, m}
          /\ <<>> \o <<m>> \in Seq(SegRec) /\ In(<<>> \o <<m>>) = {m}
      BY <1>2, Answers
    <3> HIDE DEF out, m
    <3> QED
      BY <3>1, <3>2
  <2> HIDE DEF m, first, out
  <2> QED
    BY <1>1, <1>2, <2>1, <2>2, <2>4, RcvStepS DEF s
<1> QED
  BY <1>3, <1>4

\* RcvCloseWait, the client's side.
LEMMA RcvCloseWaitKeepsC ==
  ASSUME IInv, NEW k \in Conns, RcvCloseWait(k, "c")
  PROVE  IInv'
<1> DEFINE seg == Head(chan[k].c)
           c == sk[k].c
           u == RcvState(c, seg.seq + 1, "LAST_ACK")
           m == Control(u, {"ACK", "FIN"})
           t == AfterControl(u, {"ACK", "FIN"})
           out == <<m>>
<1>1. c \in SockRec /\ dead \subseteq Conns \cup {Server}
  BY LinkOf
<1>2. u = [c EXCEPT !.state = "LAST_ACK", !.rcv_nxt = seg.seq + 1]
  BY <1>1 DEF RcvState, SockRec
<1>3. /\ chan[k].c # <<>> /\ c.state = "CLOSE_WAIT"
      /\ UNCHANGED <<lsn, queue, accepted, cpc, spc, got, rx, wacc, wrecv, dead>>
  BY DEF RcvCloseWait, Finds, Arrives, OnlySock
<1>4. Becomes(k, "c", t) /\ Reply(k, "c", out)
  <2> HIDE DEF u
  <2> QED
    BY <1>2 DEF RcvCloseWait
<1>5. /\ seg \in In(chan[k].c)
      /\ Link(c, sk[k].s, In(chan[k].c), In(chan[k].s), cpc[k], ReadOf(k))
  BY <1>3, LinkOf
<1>6. t \in SockRec /\ Link(t, sk[k].s, In(chan[k].c), In(chan[k].s) \cup {m}, cpc[k], ReadOf(k))
  BY <1>3, <1>5, CloseWaitLinkC
<1>7. u \in SockRec
  <2>1. seg.seq \in Nat
    BY <1>5 DEF Link, SegRec
  <2>2. seg.seq + 1 \in Nat /\ "LAST_ACK" \in States
    BY <2>1 DEF States
  <2> QED
    BY <1>1, <2>2, RcvStateIs
<1> HIDE DEF t, u, seg
<1>8. out \in Seq(SegRec) /\ In(out) = {m}
  BY <1>7, OneSegment
<1> HIDE DEF m, out
<1> QED
  BY <1>1, <1>3, <1>4, <1>6, <1>8, RcvStepC

\* RcvCloseWait, the server's side.
LEMMA RcvCloseWaitKeepsS ==
  ASSUME IInv, NEW k \in Conns, RcvCloseWait(k, "s")
  PROVE  IInv'
<1> DEFINE seg == Head(chan[k].s)
           s == sk[k].s
           u == RcvState(s, seg.seq + 1, "LAST_ACK")
           m == Control(u, {"ACK", "FIN"})
           t == AfterControl(u, {"ACK", "FIN"})
           out == <<m>>
           w == wrecv[k]
<1>1. s \in SockRec /\ dead \subseteq Conns \cup {Server}
  BY LinkOf
<1>2. u = [s EXCEPT !.state = "LAST_ACK", !.rcv_nxt = seg.seq + 1]
  BY <1>1 DEF RcvState, SockRec
<1>3. /\ chan[k].s # <<>> /\ s.state = "CLOSE_WAIT"
      /\ UNCHANGED <<lsn, queue, accepted, cpc, spc, got, rx, wacc, wrecv, dead>>
  BY DEF RcvCloseWait, Finds, Arrives, OnlySock
<1>4. Becomes(k, "s", t) /\ Reply(k, "s", out)
  <2> HIDE DEF u
  <2> QED
    BY <1>2 DEF RcvCloseWait
<1>5. /\ seg \in In(chan[k].s) /\ WaitOK(w) /\ wrecv' = [wrecv EXCEPT ![k] = w]
      /\ Link(sk[k].c, s, In(chan[k].c), In(chan[k].s), cpc[k], ReadOf(k))
  BY <1>3, LinkOf
<1>6. /\ t \in SockRec /\ t.state = "LAST_ACK"
      /\ Link(sk[k].c, t, In(chan[k].c) \cup {m}, In(chan[k].s), cpc[k], ReadOf(k))
  BY <1>3, <1>5, CloseWaitLinkS
<1>7. u \in SockRec
  <2>1. seg.seq \in Nat
    BY <1>5 DEF Link, SegRec
  <2>2. seg.seq + 1 \in Nat /\ "LAST_ACK" \in States
    BY <2>1 DEF States
  <2> QED
    BY <1>1, <2>2, RcvStateIs
<1> HIDE DEF t, u, seg
<1>8. out \in Seq(SegRec) /\ In(out) = {m}
  BY <1>7, OneSegment
<1> HIDE DEF m, out, w
<1> QED
  BY <1>1, <1>3, <1>4, <1>5, <1>6, <1>8, RcvStepS

\* What an answer holds, when the connection fits with it under way.
LEMMA Answered ==
  ASSUME NEW m
  PROVE  /\ \A c, s, toC, toS, p, g :
              Link(c, s, toC, toS \cup {m}, p, g) \/ Link(c, s, toC \cup {m}, toS, p, g) => m \in SegRec
         /\ m \in SegRec => /\ <<m>> \in Seq(SegRec) /\ In(<<m>>) = {m}
                            /\ <<m, m>> \in Seq(SegRec) /\ In(<<m, m>>) = {m}
<1>1. \A c, s, toC, toS, p, g :
        Link(c, s, toC, toS \cup {m}, p, g) \/ Link(c, s, toC \cup {m}, toS, p, g) => m \in SegRec
  BY DEF Link
<1> QED
  BY <1>1, InSmall

\* RcvLastAck, the client's side: its port stays bound.
LEMMA RcvLastAckKeepsC ==
  ASSUME IInv, NEW k \in Conns, RcvLastAck(k, "c")
  PROVE  IInv'
<1> DEFINE ack == Head(chan[k].c).ack
           v == UpdateSendBuffer(sk[k].c, ack)
           t == [v EXCEPT !.state = "CLOSED"]
           out == <<>>
<1>1. /\ chan[k].c # <<>> /\ sk[k].c.state = "LAST_ACK" /\ Reply(k, "c", out)
      /\ IF BindUnhashCrashes(t) THEN Becomes(k, "c", t) /\ dead' = dead \cup {HostOf(k, "c")}
         ELSE Becomes(k, "c", tcp_bind_unhash(t)) /\ dead' = dead
      /\ UNCHANGED <<lsn, queue, accepted, cpc, spc, got, rx, wacc, wrecv>>
  BY DEF RcvLastAck, Finds, Arrives
<1>2. /\ dead \subseteq Conns \cup {Server}
      /\ Link(sk[k].c, sk[k].s, In(chan[k].c), In(chan[k].s), cpc[k], ReadOf(k))
  BY <1>1, LinkOf
<1>3. t \in SockRec /\ t.bind = "self" /\ Link(t, sk[k].s, In(chan[k].c), In(chan[k].s), cpc[k], ReadOf(k))
  BY <1>1, <1>2, LastAckLinkC
<1> HIDE DEF t, v
<1>4. Becomes(k, "c", t) /\ dead' = dead
  BY <1>1, <1>3, BindUnhashIs DEF BindUnhashCrashes
<1>5. out \in Seq(SegRec) /\ In(out) = {}
  BY InSmall
<1> HIDE DEF out
<1>6. Link(t, sk[k].s, In(chan[k].c), In(chan[k].s) \cup In(out), cpc[k], ReadOf(k))
  BY <1>3, <1>5
<1> QED
  BY <1>1, <1>2, <1>3, <1>4, <1>5, <1>6, RcvStepC

\* RcvLastAck, the server's side: the stack dies in tcp_bind_unhash.
LEMMA RcvLastAckKeepsS ==
  ASSUME IInv, NEW k \in Conns, RcvLastAck(k, "s")
  PROVE  IInv'
<1> DEFINE ack == Head(chan[k].s).ack
           v == UpdateSendBuffer(sk[k].s, ack)
           t == [v EXCEPT !.state = "CLOSED"]
           out == <<>>
           w == wrecv[k]
<1>1. /\ chan[k].s # <<>> /\ sk[k].s.state = "LAST_ACK" /\ Reply(k, "s", out)
      /\ IF BindUnhashCrashes(t) THEN Becomes(k, "s", t) /\ dead' = dead \cup {HostOf(k, "s")}
         ELSE Becomes(k, "s", tcp_bind_unhash(t)) /\ dead' = dead
      /\ UNCHANGED <<lsn, queue, accepted, cpc, spc, got, rx, wacc, wrecv>>
  BY DEF RcvLastAck, Finds, Arrives
<1>2. /\ dead \subseteq Conns \cup {Server} /\ WaitOK(w) /\ wrecv' = [wrecv EXCEPT ![k] = w]
      /\ Link(sk[k].c, sk[k].s, In(chan[k].c), In(chan[k].s), cpc[k], ReadOf(k))
  BY <1>1, LinkOf
<1>3. /\ t \in SockRec /\ t.state = "CLOSED" /\ t.bind = "null" /\ t.snd_nxt = sk[k].s.snd_nxt
      /\ Link(sk[k].c, t, In(chan[k].c), In(chan[k].s), cpc[k], ReadOf(k))
  BY <1>1, <1>2, LastAckLinkS
<1> HIDE DEF t, v
<1>4. Becomes(k, "s", t) /\ dead' = dead \cup {Server}
  BY <1>1, <1>3 DEF BindUnhashCrashes, HostOf
<1>5. out \in Seq(SegRec) /\ In(out) = {}
  BY InSmall
<1> HIDE DEF out, w
<1>6. Link(sk[k].c, t, In(chan[k].c) \cup In(out), In(chan[k].s), cpc[k], ReadOf(k))
  BY <1>3, <1>5
<1>7. dead' \subseteq Conns \cup {Server}
  BY <1>2, <1>4
<1> QED
  BY <1>1, <1>2, <1>3, <1>4, <1>5, <1>6, <1>7, RcvStepS

\* RcvFinWait1.
LEMMA RcvFinWait1Keeps ==
  ASSUME IInv, NEW k \in Conns, RcvFinWait1(k)
  PROVE  IInv'
<1> DEFINE seg == Head(chan[k].c)
           c == sk[k].c
<1>1. /\ chan[k].c # <<>> /\ c.state = "FIN_WAIT_1"
      /\ UNCHANGED <<lsn, queue, accepted, cpc, spc, got, rx, wacc, wrecv, dead>>
  BY DEF RcvFinWait1, Finds, Arrives, OnlySock
<1>2. /\ seg \in In(chan[k].c) /\ dead \subseteq Conns \cup {Server} /\ c \in SockRec
      /\ Link(c, sk[k].s, In(chan[k].c), In(chan[k].s), cpc[k], ReadOf(k))
  BY <1>1, LinkOf
<1>3. CASE "FIN" \in seg.flags
  <2> DEFINE u == RcvTo(c, seg.seq + 1)
             v == UpdateSendBuffer(u, seg.ack)
             t == SetTimeWait([v EXCEPT !.state = "CLOSING"])
             m == Control(v, {"ACK"})
             out == <<m, m>>
  <2>1. Becomes(k, "c", t) /\ Reply(k, "c", out)
    BY <1>3 DEF RcvFinWait1, RcvTo
  <2>2. t \in SockRec /\ Link(t, sk[k].s, In(chan[k].c), In(chan[k].s) \cup {m}, cpc[k], ReadOf(k))
    BY <1>1, <1>2, <1>3, FinWait1Link
  <2> HIDE DEF t, m, c, seg
  <2>3. out \in Seq(SegRec) /\ In(out) = {m}
    BY <2>2, Answered
  <2> HIDE DEF out
  <2> QED
    BY <1>1, <1>2, <2>1, <2>2, <2>3, RcvStepC
<1>4. CASE "FIN" \notin seg.flags
  <2> DEFINE t == [c EXCEPT !.state = "FIN_WAIT_2"]
             out == <<>>
  <2>1. Becomes(k, "c", t) /\ Reply(k, "c", out)
    BY <1>4 DEF RcvFinWait1
  <2>2. t \in SockRec /\ Keeps(t, c, {"state"}) /\ t.state = "FIN_WAIT_2"
    BY <1>2, StateIs DEF States
  <2> HIDE DEF t
  <2>3. Link(t, sk[k].s, In(chan[k].c), In(chan[k].s), cpc[k], ReadOf(k))
    BY <1>1, <1>2, <2>2, FinWait1AckC
  <2>4. out \in Seq(SegRec) /\ In(out) = {}
    BY InSmall
  <2> HIDE DEF out, c, seg
  <2>5. Link(t, sk[k].s, In(chan[k].c), In(chan[k].s) \cup In(out), cpc[k], ReadOf(k))
    BY <2>3, <2>4
  <2> QED
    BY <1>1, <1>2, <2>1, <2>2, <2>4, <2>5, RcvStepC
<1> QED
  BY <1>3, <1>4

\* RcvFinWait2.
LEMMA RcvFinWait2Keeps ==
  ASSUME IInv, NEW k \in Conns, RcvFinWait2(k)
  PROVE  IInv'
<1> DEFINE seg == Head(chan[k].c)
           c == sk[k].c
<1>1. /\ chan[k].c # <<>> /\ c.state = "FIN_WAIT_2"
      /\ UNCHANGED <<lsn, queue, accepted, cpc, spc, got, rx, wacc, wrecv, dead>>
  BY DEF RcvFinWait2, Finds, Arrives, OnlySock
<1>2. /\ seg \in In(chan[k].c) /\ dead \subseteq Conns \cup {Server}
      /\ Link(c, sk[k].s, In(chan[k].c), In(chan[k].s), cpc[k], ReadOf(k))
  BY <1>1, LinkOf
<1>3. CASE "FIN" \in seg.flags
  <2> DEFINE u == RcvState(c, seg.seq + 1, "TIME_WAIT")
             t == SetTimeWait(u)
             m == Control(u, {"ACK"})
             out == <<m>>
  <2>1. Becomes(k, "c", t) /\ Reply(k, "c", out)
    BY <1>3 DEF RcvFinWait2, RcvState
  <2>2. t \in SockRec /\ Link(t, sk[k].s, In(chan[k].c), In(chan[k].s) \cup {m}, cpc[k], ReadOf(k))
    BY <1>1, <1>2, <1>3, FinWait2Link
  <2> HIDE DEF t, m, c, seg
  <2>3. out \in Seq(SegRec) /\ In(out) = {m}
    BY <2>2, Answered
  <2> HIDE DEF out
  <2> QED
    BY <1>1, <1>2, <2>1, <2>2, <2>3, RcvStepC
<1>4. CASE "FIN" \notin seg.flags
  <2>1. Reply(k, "c", <<>>) /\ UNCHANGED sk
    BY <1>4 DEF RcvFinWait2
  <2> QED
    BY <1>1, <1>2, <2>1, TakeStep
<1> QED
  BY <1>3, <1>4

\* RcvSynRecv: the reader is woken, although there is nothing to read yet.
LEMMA RcvSynRecvKeeps ==
  ASSUME IInv, NEW k \in Conns, RcvSynRecv(k)
  PROVE  IInv'
<1> DEFINE seg == Head(chan[k].s)
           s == sk[k].s
           out == <<>>
<1>1. /\ chan[k].s # <<>> /\ s.state = "SYN_RECV" /\ Reply(k, "s", out)
      /\ UNCHANGED <<lsn, queue, accepted, cpc, spc, got, rx, wacc, dead>>
  BY DEF RcvSynRecv, Finds, Arrives
<1>2. /\ seg \in In(chan[k].s) /\ dead \subseteq Conns \cup {Server}
      /\ wrecv \in [Conns -> WaitStructs({App})] /\ WaitOK(wrecv[k])
      /\ Link(sk[k].c, s, In(chan[k].c), In(chan[k].s), cpc[k], ReadOf(k))
  BY <1>1, LinkOf
<1>3. CASE "ACK" \in seg.flags
  <2> DEFINE u == [s EXCEPT !.state = "ESTABLISHED"]
             t == UnsetRetrans(ClosedWindow(u, seg))
  <2>1. Becomes(k, "s", t) /\ \E w \in WakeUps(wrecv[k]) : wrecv' = [wrecv EXCEPT ![k] = w]
    BY <1>3 DEF RcvSynRecv, ClosedWindow
  <2>2. /\ t \in SockRec /\ t.state = "ESTABLISHED"
        /\ Link(sk[k].c, t, In(chan[k].c), In(chan[k].s), cpc[k], ReadOf(k))
    BY <1>1, <1>2, <1>3, SynRecvLink
  <2>3. out \in Seq(SegRec) /\ In(out) = {}
    BY InSmall
  <2> HIDE DEF t, out, seg
  <2>4. Link(sk[k].c, t, In(chan[k].c) \cup In(out), In(chan[k].s), cpc[k], ReadOf(k))
    BY <2>2, <2>3
  <2>5. PICK w \in WakeUps(wrecv[k]) : wrecv' = [wrecv EXCEPT ![k] = w]
    BY <2>1
  <2>6. WaitOK(w) /\ SleepReturnsAtOnce(w) /\ w.waiters = {}
    BY <1>2, WakeUpsIs
  <2> QED
    BY <1>1, <1>2, <2>1, <2>2, <2>3, <2>4, <2>5, <2>6, RcvStepS
<1>4. CASE "ACK" \notin seg.flags
  <2>1. Reply(k, "s", <<>>) /\ UNCHANGED <<sk, wrecv>>
    BY <1>4 DEF RcvSynRecv
  <2> QED
    BY <1>1, <1>2, <2>1, TakeStep
<1> QED
  BY <1>3, <1>4

\* RcvListen: the child is queued and a wake-up of wait_accept is owed.
LEMMA RcvListenKeeps ==
  ASSUME IInv, NEW k \in Conns, RcvListen(k)
  PROVE  IInv'
<1> DEFINE seg == Head(chan[k].s)
           s == sk[k].s
           syn == "SYN" \in seg.flags
<1>1. /\ chan[k].s # <<>> /\ ~rx /\ ~Hashed(s)
      /\ rx' = syn
      /\ UNCHANGED <<lsn, accepted, cpc, spc, got, wacc, wrecv, dead>>
  BY DEF RcvListen, Arrives
<1>2. /\ seg \in In(chan[k].s) /\ dead \subseteq Conns \cup {Server} /\ s \in SockRec
      /\ WaitOK(wrecv[k]) /\ wrecv = [wrecv EXCEPT ![k] = wrecv[k]]
      /\ Link(sk[k].c, s, In(chan[k].c), In(chan[k].s), cpc[k], ReadOf(k))
  BY <1>1, LinkOf
<1>3. s.state = "NONE"
  BY <1>1, <1>2 DEF Link, ServerSock, Hashed
<1>4. CASE syn
  <2> DEFINE u == NewChild(seg)
             t == AfterControl(u, {"SYN", "ACK"})
             m == Control(u, {"SYN", "ACK"})
             out == <<m>>
  <2>1. Becomes(k, "s", t) /\ Reply(k, "s", out) /\ queue' = Append(queue, k) /\ rx' = TRUE
    BY <1>1, <1>4 DEF RcvListen, Becomes, tcp_sock_accept_enqueue
  <2>2. /\ t \in SockRec /\ t.state = "SYN_RECV"
        /\ Link(sk[k].c, t, In(chan[k].c) \cup {m}, In(chan[k].s), cpc[k], ReadOf(k))
    BY <1>2, <1>3, <1>4, ListenLink
  <2> HIDE DEF t, m, seg
  <2>3. out \in Seq(SegRec) /\ In(out) = {m}
    BY <2>2, Answered
  <2> HIDE DEF out
  <2> QED
    BY <1>1, <1>2, <1>3, <2>1, <2>2, <2>3, RcvStepS
<1>5. CASE ~syn
  <2>1. Reply(k, "s", <<>>) /\ UNCHANGED <<sk, queue>>
    BY <1>5 DEF RcvListen
  <2>2. rx \in BOOLEAN
    BY DEF IInv, Shape
  <2>3. rx' = rx
    BY <1>1, <1>5, <2>2
  <2> QED
    BY <1>1, <1>2, <2>1, <2>3, TakeStep
<1> QED
  BY <1>4, <1>5

-----------------------------------------------------------------------------
(* The client application and the timers. *)

\* A step of a client that sends nothing.
LEMMA ClientQuiet ==
  ASSUME IInv, NEW k \in Conns, NEW t \in SockRec, Becomes(k, "c", t), UNCHANGED chan,
         NEW p, cpc' = [cpc EXCEPT ![k] = p],
         Link(t, sk[k].s, In(chan[k].c), In(chan[k].s), p, ReadOf(k)),
         UNCHANGED <<lsn, queue, accepted, spc, got, rx, wacc, wrecv, dead>>
  PROVE  IInv'
<1>1. chan \in Chans /\ dead \subseteq Conns \cup {Server} /\ cpc \in [Conns -> ClientPcs]
  BY DEF IInv, Shape
<1>2. p \in ClientPcs
  BY DEF Link
<1>3. /\ cpc' \in [Conns -> ClientPcs] /\ cpc'[k] = p
      /\ \A j \in Conns : j # k => cpc'[j] = cpc[j]
  BY <1>1, <1>2
<1>4. chan' \in Chans /\ (\A j \in Conns : j # k => chan'[j] = chan[j])
  BY <1>1
<1>5. Link(t, sk[k].s, In(chan'[k].c), In(chan'[k].s), cpc'[k], ReadOf(k))
  BY <1>3
<1> QED
  BY <1>1, <1>3, <1>4, <1>5, ClientStep

\* A step of a client that sends a segment.
LEMMA ClientSends ==
  ASSUME IInv, NEW k \in Conns, NEW t \in SockRec, Becomes(k, "c", t),
         NEW m, chan' = [chan EXCEPT ![k].s = Append(@, m)],
         NEW p, cpc' = [cpc EXCEPT ![k] = p],
         Link(t, sk[k].s, In(chan[k].c), In(chan[k].s) \cup {m}, p, ReadOf(k)),
         UNCHANGED <<lsn, queue, accepted, spc, got, rx, wacc, wrecv, dead>>
  PROVE  IInv'
<1>1. chan \in Chans /\ dead \subseteq Conns \cup {Server} /\ cpc \in [Conns -> ClientPcs]
  BY DEF IInv, Shape
<1>2. p \in ClientPcs /\ m \in SegRec
  BY DEF Link
<1>3. /\ cpc' \in [Conns -> ClientPcs] /\ cpc'[k] = p
      /\ \A j \in Conns : j # k => cpc'[j] = cpc[j]
  BY <1>1, <1>2
<1>4. /\ chan' \in Chans /\ (\A j \in Conns : j # k => chan'[j] = chan[j])
      /\ In(chan'[k].c) = In(chan[k].c) /\ In(chan'[k].s) = In(chan[k].s) \cup {m}
  BY <1>1, <1>2, SendIs
<1>5. Link(t, sk[k].s, In(chan'[k].c), In(chan'[k].s), cpc'[k], ReadOf(k))
  BY <1>3, <1>4
<1> QED
  BY <1>1, <1>3, <1>4, <1>5, ClientStep

\* The program counter may stay.
LEMMA SamePc ==
  ASSUME IInv, NEW k \in Conns, UNCHANGED cpc
  PROVE  cpc' = [cpc EXCEPT ![k] = cpc[k]]
BY DEF IInv, Shape

\* Connect.
LEMMA ConnectKeeps ==
  ASSUME IInv, NEW k \in Conns, Connect(k)
  PROVE  IInv'
<1> DEFINE u == Connected(sk[k].c)
           t == AfterControl(u, {"SYN"})
           m == Control(u, {"SYN"})
           p == "connecting"
<1>1. /\ cpc[k] = "start" /\ Becomes(k, "c", t) /\ chan' = [chan EXCEPT ![k].s = Append(@, m)]
      /\ cpc' = [cpc EXCEPT ![k] = p]
      /\ UNCHANGED <<lsn, queue, accepted, spc, got, rx, wacc, wrecv, dead>>
  BY DEF Connect, ClientAt, ClientGoes, OnlyClient
<1>2. Link(sk[k].c, sk[k].s, In(chan[k].c), In(chan[k].s), cpc[k], ReadOf(k))
  BY LinkOf
<1>3. t \in SockRec /\ Link(t, sk[k].s, In(chan[k].c), In(chan[k].s) \cup {m}, p, ReadOf(k))
  BY <1>1, <1>2, ConnectLink
<1> HIDE DEF t, m, p
<1> QED
  BY <1>1, <1>3, ClientSends

\* ConnectSleep, ConnectWoken, ConnectReturn and SleepOver.
LEMMA AppKeeps ==
  ASSUME IInv, NEW k \in Conns,
         ConnectSleep(k) \/ ConnectWoken(k) \/ ConnectReturn(k) \/ SleepOver(k)
  PROVE  IInv'
<1>1. PICK p : /\ cpc' = [cpc EXCEPT ![k] = p]
               /\ \/ cpc[k] \in Waiting /\ p \in Waiting
                  \/ cpc[k] = "connected" /\ sk[k].c.state = "ESTABLISHED" /\ p = "write"
                  \/ cpc[k] = "write" /\ p = "close"
  <2>1. CASE ConnectSleep(k)
    BY <2>1 DEF ConnectSleep, ClientAt, ClientGoes, Waiting
  <2>2. CASE ConnectWoken(k)
    BY <2>2 DEF ConnectWoken, ClientAt, ClientGoes, Waiting
  <2>3. CASE ConnectReturn(k)
    BY <2>3 DEF ConnectReturn, ClientAt, ClientGoes
  <2>4. CASE SleepOver(k)
    BY <2>4 DEF SleepOver, ClientAt, ClientGoes
  <2> QED
    BY <2>1, <2>2, <2>3, <2>4
<1>2. UNCHANGED <<sk, chan, lsn, queue, accepted, spc, got, rx, wacc, wrecv, dead>>
  BY DEF ConnectSleep, ConnectWoken, ConnectReturn, SleepOver, OnlyClient
<1>3. /\ Link(sk[k].c, sk[k].s, In(chan[k].c), In(chan[k].s), cpc[k], ReadOf(k))
      /\ sk[k].c \in SockRec /\ Becomes(k, "c", sk[k].c)
  BY <1>2, LinkOf, SameSock
<1>4. Link(sk[k].c, sk[k].s, In(chan[k].c), In(chan[k].s), p, ReadOf(k))
  BY <1>1, <1>3, AppC
<1> QED
  BY <1>1, <1>2, <1>3, <1>4, ClientQuiet

\* Write.
LEMMA WriteKeeps ==
  ASSUME IInv, NEW k \in Conns, Write(k)
  PROVE  IInv'
<1> DEFINE c == sk[k].c
           t == Wrote(c)
           m == Data(c, c.snd_nxt)
<1>1. /\ cpc[k] = "write" /\ c.snd_nxt <= MaxData /\ ~c.persist /\ c.buf = {}
      /\ Becomes(k, "c", t) /\ chan' = [chan EXCEPT ![k].s = Append(@, m)]
      /\ UNCHANGED <<cpc, lsn, queue, accepted, spc, got, rx, wacc, wrecv, dead>>
  BY DEF Write, ClientAt, OnlyClient, Wrote
<1>2. /\ Link(c, sk[k].s, In(chan[k].c), In(chan[k].s), cpc[k], ReadOf(k))
      /\ cpc' = [cpc EXCEPT ![k] = cpc[k]]
  BY <1>1, LinkOf, SamePc
<1>3. t \in SockRec /\ Link(t, sk[k].s, In(chan[k].c), In(chan[k].s) \cup {m}, cpc[k], ReadOf(k))
  BY <1>1, <1>2, WriteLink
<1> HIDE DEF t, m
<1> QED
  BY <1>1, <1>2, <1>3, ClientSends

\* CloseFin.
LEMMA CloseFinKeeps ==
  ASSUME IInv, NEW k \in Conns, CloseFin(k)
  PROVE  IInv'
<1> DEFINE c == sk[k].c
           t == AfterControl(c, {"FIN", "ACK"})
           m == Control(c, {"FIN", "ACK"})
           p == "closing"
<1>1. /\ cpc[k] = "close" /\ c.state = "ESTABLISHED"
      /\ Becomes(k, "c", t) /\ chan' = [chan EXCEPT ![k].s = Append(@, m)]
      /\ cpc' = [cpc EXCEPT ![k] = p]
      /\ UNCHANGED <<lsn, queue, accepted, spc, got, rx, wacc, wrecv, dead>>
  BY DEF CloseFin, ClientAt, ClientGoes, OnlyClient
<1>2. Link(c, sk[k].s, In(chan[k].c), In(chan[k].s), cpc[k], ReadOf(k))
  BY LinkOf
<1>3. t \in SockRec /\ Link(t, sk[k].s, In(chan[k].c), In(chan[k].s) \cup {m}, p, ReadOf(k))
  BY <1>1, <1>2, CloseFinLink
<1> HIDE DEF t, m, p
<1> QED
  BY <1>1, <1>3, ClientSends

\* CloseFinWait and CloseClosed.
LEMMA CloseKeeps ==
  ASSUME IInv, NEW k \in Conns, CloseFinWait(k) \/ CloseClosed(k)
  PROVE  IInv'
<1> DEFINE c == sk[k].c
           p == "done"
<1>1. Link(c, sk[k].s, In(chan[k].c), In(chan[k].s), cpc[k], ReadOf(k))
  BY LinkOf
<1>2. /\ cpc' = [cpc EXCEPT ![k] = p]
      /\ UNCHANGED <<chan, lsn, queue, accepted, spc, got, rx, wacc, wrecv, dead>>
  BY DEF CloseFinWait, CloseClosed, ClientGoes, OnlyClient
<1>3. CASE CloseFinWait(k)
  <2> DEFINE t == [c EXCEPT !.state = "FIN_WAIT_1"]
  <2>1. cpc[k] = "closing" /\ Becomes(k, "c", t)
    BY <1>3 DEF CloseFinWait, ClientAt
  <2>2. t \in SockRec /\ Link(t, sk[k].s, In(chan[k].c), In(chan[k].s), p, ReadOf(k))
    BY <1>1, <2>1, CloseFinWaitLink
  <2> HIDE DEF t, p
  <2> QED
    BY <1>2, <2>1, <2>2, ClientQuiet
<1>4. CASE CloseClosed(k)
  <2> DEFINE t == tcp_bind_unhash(tcp_unhash(c))
  <2>1. cpc[k] = "close" /\ c.state = "CLOSED" /\ Becomes(k, "c", t)
    BY <1>4 DEF CloseClosed, ClientAt
  <2>2. t \in SockRec /\ Link(t, sk[k].s, In(chan[k].c), In(chan[k].s), p, ReadOf(k))
    BY <1>1, <2>1, CloseClosedLink
  <2> HIDE DEF t, p
  <2> QED
    BY <1>2, <2>1, <2>2, ClientQuiet
<1> QED
  BY <1>3, <1>4

\* The persist timer of a client.
LEMMA ProbeKeepsC ==
  ASSUME IInv, NEW k \in Conns, Probe(k, "c")
  PROVE  IInv'
<1> DEFINE c == sk[k].c
           t == Probed(c)
           m == Data(c, c.snd_una - 1)
<1>1. /\ c.persist /\ Becomes(k, "c", t) /\ chan' = [chan EXCEPT ![k].s = Append(@, m)]
      /\ UNCHANGED <<cpc, lsn, queue, accepted, spc, got, rx, wacc, wrecv, dead>>
  BY DEF Probe, OnlyTimer, Probed, Other
<1>2. /\ Link(c, sk[k].s, In(chan[k].c), In(chan[k].s), cpc[k], ReadOf(k))
      /\ cpc' = [cpc EXCEPT ![k] = cpc[k]]
  BY <1>1, LinkOf, SamePc
<1>3. t \in SockRec /\ Link(t, sk[k].s, In(chan[k].c), In(chan[k].s) \cup {m}, cpc[k], ReadOf(k))
  BY <1>1, <1>2, ProbeLinkC
<1> HIDE DEF t, m
<1> QED
  BY <1>1, <1>2, <1>3, ClientSends

\* The persist timer of a child.
LEMMA ProbeKeepsS ==
  ASSUME IInv, NEW k \in Conns, Probe(k, "s")
  PROVE  IInv'
<1> DEFINE s == sk[k].s
           t == Probed(s)
           m == Data(s, s.snd_una - 1)
           w == wrecv[k]
<1>1. /\ s.persist /\ Becomes(k, "s", t) /\ chan' = [chan EXCEPT ![k].c = Append(@, m)]
      /\ UNCHANGED <<cpc, lsn, queue, accepted, spc, got, rx, wacc, wrecv, dead>>
  BY DEF Probe, OnlyTimer, Probed, Other
<1>2. /\ Link(sk[k].c, s, In(chan[k].c), In(chan[k].s), cpc[k], ReadOf(k))
      /\ chan \in Chans /\ dead \subseteq Conns \cup {Server}
      /\ WaitOK(w) /\ wrecv' = [wrecv EXCEPT ![k] = w]
  BY <1>1, LinkOf
<1>3. /\ t \in SockRec /\ Keeps(t, s, {"probes"})
      /\ Link(sk[k].c, t, In(chan[k].c) \cup {m}, In(chan[k].s), cpc[k], ReadOf(k))
  BY <1>1, <1>2, ProbeLinkS
<1>4. t.state = s.state /\ t.snd_nxt = s.snd_nxt /\ s.state # "NONE" /\ m \in SegRec
  BY <1>1, <1>2, <1>3 DEF Keeps, Fields, Link, ServerSock
<1> HIDE DEF t, m, w
<1>5. /\ chan' \in Chans /\ (\A j \in Conns : j # k => chan'[j] = chan[j])
      /\ In(chan'[k].s) = In(chan[k].s) /\ In(chan'[k].c) = In(chan[k].c) \cup {m}
  BY <1>1, <1>2, <1>4, SendIs
<1>6. Link(sk[k].c, t, In(chan'[k].c), In(chan'[k].s), cpc[k], ReadOf(k))
  BY <1>3, <1>5
<1> QED
  BY <1>1, <1>2, <1>3, <1>4, <1>5, <1>6, ServerStep DEF w

\* The retransmission timer.
LEMMA RetransKeeps ==
  ASSUME IInv, NEW k \in Conns, RetransTimeout(k)
  PROVE  IInv'
<1> DEFINE c == sk[k].c
           q == CHOOSE x \in c.buf : TRUE
           t == Resent(c)
           m == Data(c, q)
<1>1. /\ c.retrans /\ c.cnt < MaxRetrans /\ Becomes(k, "c", t)
      /\ chan' = [chan EXCEPT ![k].s = Append(@, m)]
      /\ UNCHANGED <<cpc, lsn, queue, accepted, spc, got, rx, wacc, wrecv, dead>>
  BY DEF RetransTimeout, OnlyTimer, Resent
<1>2. /\ Link(c, sk[k].s, In(chan[k].c), In(chan[k].s), cpc[k], ReadOf(k))
      /\ cpc' = [cpc EXCEPT ![k] = cpc[k]]
  BY <1>1, LinkOf, SamePc
<1>3. t \in SockRec /\ Link(t, sk[k].s, In(chan[k].c), In(chan[k].s) \cup {m}, cpc[k], ReadOf(k))
  BY <1>1, <1>2, RetransLink
<1> HIDE DEF t, m
<1> QED
  BY <1>1, <1>2, <1>3, ClientSends

\* GiveUp, TimeWaitTimeout and TimerOfClosed.
LEMMA TimersKeep ==
  ASSUME IInv, NEW k \in Conns, GiveUp(k) \/ TimeWaitTimeout(k) \/ TimerOfClosed(k)
  PROVE  IInv'
<1> DEFINE c == sk[k].c
<1>1. UNCHANGED <<chan, cpc, lsn, queue, accepted, spc, got, rx, wacc, wrecv, dead>>
  BY DEF GiveUp, TimeWaitTimeout, TimerOfClosed, OnlyTimer
<1>2. /\ Link(c, sk[k].s, In(chan[k].c), In(chan[k].s), cpc[k], ReadOf(k))
      /\ cpc' = [cpc EXCEPT ![k] = cpc[k]]
  BY <1>1, LinkOf, SamePc
<1>3. CASE GiveUp(k)
  <2> DEFINE u == UnsetRetrans(c)
             v == ToClosed(tcp_bind_unhash(u))
             t == free_tcp_sock(v)
  <2>1. c.retrans /\ c.state # "CLOSED" /\ Becomes(k, "c", t)
    BY <1>3 DEF GiveUp, ToClosed
  <2>2. t \in SockRec /\ Link(t, sk[k].s, In(chan[k].c), In(chan[k].s), cpc[k], ReadOf(k))
    BY <1>2, <2>1, GiveUpLink
  <2> HIDE DEF t
  <2> QED
    BY <1>1, <1>2, <2>1, <2>2, ClientQuiet
<1>4. CASE TimeWaitTimeout(k)
  <2> DEFINE t == Expired(NoTimeWait(c))
  <2>1. c.timewait /\ Becomes(k, "c", t)
    BY <1>4 DEF TimeWaitTimeout, NoTimeWait
  <2>2. t \in SockRec /\ Link(t, sk[k].s, In(chan[k].c), In(chan[k].s), cpc[k], ReadOf(k))
    BY <1>2, <2>1, TimeWaitLink
  <2> HIDE DEF t
  <2> QED
    BY <1>1, <1>2, <2>1, <2>2, ClientQuiet
<1>5. CASE TimerOfClosed(k)
  <2> DEFINE t == Expired(NoRetrans(c))
  <2>1. c.retrans /\ c.state = "CLOSED" /\ Becomes(k, "c", t)
    BY <1>5 DEF TimerOfClosed, NoRetrans
  <2>2. t \in SockRec /\ Link(t, sk[k].s, In(chan[k].c), In(chan[k].s), cpc[k], ReadOf(k))
    BY <1>2, <2>1, TimerOfClosedLink
  <2> HIDE DEF t
  <2> QED
    BY <1>1, <1>2, <2>1, <2>2, ClientQuiet
<1> QED
  BY <1>3, <1>4, <1>5

-----------------------------------------------------------------------------
(* The server application. *)

\* The connections do not change.
LEMMA LinksStay ==
  ASSUME LinkInv, UNCHANGED <<sk, chan, cpc>>, \A k \in Conns : ReadOf(k)' = ReadOf(k)
  PROVE  LinkInv'
<1> SUFFICES ASSUME NEW k \in Conns
             PROVE  Link(sk'[k].c, sk'[k].s, In(chan'[k].c), In(chan'[k].s), cpc'[k], ReadOf(k)')
  BY DEF LinkInv
<1>1. ReadOf(k)' = ReadOf(k)
  OBVIOUS
<1>2. Link(sk[k].c, sk[k].s, In(chan[k].c), In(chan[k].s), cpc[k], ReadOf(k))
  BY DEF LinkInv
<1> QED
  BY <1>1, <1>2

\* The references of the listening sock, by the place of the application.
LEMMA ListenRefs ==
  ASSUME spc \in Accepting \cup Reading
  PROVE  ListenSock <=>
           /\ lsn \in SockRec
           /\ ~lsn.retrans /\ lsn.buf = {} /\ lsn.snd_una = 0 /\ lsn.snd_nxt = 0
           /\ lsn.ring = 0 /\ lsn.cnt = 0
           /\ spc = "bind" => lsn.ref = 0
           /\ spc = "listen" => lsn.ref = 1
           /\ spc \in Reading => lsn.ref = 3
           /\ spc \in Accepting \ {"bind", "listen"} => lsn.ref = 2
BY DEF ListenSock, Accepting, Reading

\* A step of accept, or of bind and listen: only the listening sock, its wait
\* structure and the program counter change.
LEMMA AcceptStep ==
  ASSUME IInv, spc \in Accepting, spc' \in Accepting, ListenSock', AcceptInv',
         wacc' \in WaitStructs({App}), rx' \in BOOLEAN,
         UNCHANGED <<sk, queue, accepted, cpc, got, wrecv, chan, dead>>
  PROVE  IInv'
<1>1. LinkInv'
  BY LinksStay DEF IInv, ReadOf
<1>2. Shape'
  BY DEF IInv, Shape
<1>3. QueueInv'
  BY DEF IInv, QueueInv, Accepting, Reading
<1>4. ReadInv'
  BY DEF IInv, ReadInv, ReaderSeesFin, Accepting
<1> QED
  BY <1>1, <1>2, <1>3, <1>4 DEF IInv

\* Bind and Listen.
LEMMA BindListenKeep ==
  ASSUME IInv, Bind \/ Listen
  PROVE  IInv'
<1>1. /\ UNCHANGED <<sk, queue, accepted, cpc, got, wrecv, chan, dead, rx, wacc>>
      /\ spc' = "listen" \/ spc' = "accept"
      /\ spc = "bind" \/ spc = "listen"
  BY DEF Bind, Listen, OnlyServer, ServerAt
<1>2. spc \in Accepting /\ spc' \in Accepting /\ spc' \in Accepting \cup Reading
  BY <1>1 DEF Accepting
<1>3. wacc' \in WaitStructs({App}) /\ rx' \in BOOLEAN
  BY <1>1 DEF IInv, Shape
<1>4. AcceptInv'
  BY <1>1, <1>2 DEF IInv, AcceptInv
<1>5. /\ lsn \in SockRec
      /\ ~lsn.retrans /\ lsn.buf = {} /\ lsn.snd_una = 0 /\ lsn.snd_nxt = 0
      /\ lsn.ring = 0 /\ lsn.cnt = 0
      /\ spc = "bind" => lsn.ref = 0
      /\ spc = "listen" => lsn.ref = 1
  BY <1>2, ListenRefs DEF IInv
<1>6. /\ lsn' \in SockRec
      /\ ~lsn'.retrans /\ lsn'.buf = {} /\ lsn'.snd_una = 0 /\ lsn'.snd_nxt = 0
      /\ lsn'.ring = 0 /\ lsn'.cnt = 0
      /\ \/ spc' = "listen" /\ lsn'.ref = 1
         \/ spc' = "accept" /\ lsn'.ref = 2
  <2>1. CASE Bind
    <3>1. lsn' = tcp_bind_hash(lsn) /\ spc' = "listen" /\ spc = "bind"
      BY <2>1 DEF Bind, ServerAt
    <3>2. lsn' \in SockRec /\ Keeps(lsn', lsn, {"bind", "ref"}) /\ lsn'.ref = lsn.ref + 1
      BY <1>5, <3>1, BindHashIs
    <3> QED
      BY <1>5, <3>1, <3>2 DEF Keeps, Fields
  <2>2. CASE Listen
    <3> DEFINE u == [lsn EXCEPT !.state = "LISTEN"]
               h == list_add_head(lsn.hash)
               v == [u EXCEPT !.hash = h]
    <3>1. u \in SockRec /\ Keeps(u, lsn, {"state"})
      BY <1>5, StateIs DEF States
    <3>2. h \in Nodes
      BY DEF list_add_head, Nodes
    <3>3. lsn' = tcp_hash(v) /\ spc' = "accept" /\ spc = "listen"
      <4>1. [lsn EXCEPT !.state = "LISTEN", !.hash = list_add_head(@)] = v
        <5> HIDE DEF h
        <5>1. [lsn EXCEPT !.state = "LISTEN", !.hash = h] = v
          BY <1>5 DEF SockRec
        <5> QED
          BY <5>1 DEF h
      <4> HIDE DEF v
      <4> QED
        BY <2>2, <4>1 DEF Listen, ServerAt
    <3> HIDE DEF u, h
    <3>4. v \in SockRec /\ Keeps(v, u, {"hash"})
      <4>1. v \in SockRec
        BY <3>1, <3>2, SockExcept
      <4> QED
        BY <3>1, <4>1 DEF Keeps, Fields, SockRec
    <3> HIDE DEF v
    <3>5. lsn' \in SockRec /\ Keeps(lsn', v, {"hash", "ref"}) /\ lsn'.ref = v.ref + 1
      BY <3>3, <3>4, HashIs
    <3>6. v.ref = lsn.ref /\ Keeps(lsn', lsn, {"state", "hash", "ref"})
      BY <3>1, <3>4, <3>5 DEF Keeps, Fields
    <3> QED
      BY <1>5, <3>3, <3>5, <3>6 DEF Keeps, Fields
  <2> QED
    BY <2>1, <2>2
<1>7. ListenSock'
  BY <1>6 DEF ListenSock, Reading
<1> QED
  BY <1>1, <1>2, <1>3, <1>4, <1>7, AcceptStep

\* AcceptTest, AcceptSleep, AcceptWoken, and the wake-up they wait for.
LEMMA AcceptKeeps ==
  ASSUME IInv, AcceptTest \/ AcceptSleep \/ AcceptWoken \/ (WakeAccept /\ spc \in Accepting)
  PROVE  IInv'
<1>1. /\ UNCHANGED <<sk, queue, accepted, cpc, got, wrecv, chan, dead, lsn>>
      /\ WakeAccept \/ rx' = rx
  BY DEF AcceptTest, AcceptSleep, AcceptWoken, WakeAccept, OnlyServer
<1>2. /\ \/ spc \in Accepting \ {"bind", "listen"} /\ spc' \in Accepting \ {"bind", "listen"}
         \/ spc' = spc
      /\ spc \in Accepting /\ spc' \in Accepting
  BY DEF AcceptTest, AcceptSleep, AcceptWoken, WakeAccept, ServerAt, Accepting
<1>3. ListenSock'
  BY <1>1, <1>2 DEF IInv, ListenSock, Accepting, Reading
<1>4. /\ wacc \in WaitStructs({App}) /\ rx \in BOOLEAN /\ wacc.notified \in BOOLEAN
      /\ rx => queue # <<>>
      /\ ~wacc.dead /\ (wacc.notified => queue # <<>>)
      /\ spc = "asleep" /\ App \notin wacc.waiters => queue # <<>>
      /\ spc = "dequeue" => queue # <<>>
  BY <1>2, WaitFields DEF IInv, Shape, AcceptInv
<1>5. wacc' \in WaitStructs({App}) /\ rx' \in BOOLEAN /\ AcceptInv'
  <2>1. CASE AcceptTest
    <3>1. /\ wacc' = wacc /\ spc = "accept" /\ rx' = rx
          /\ spc' = IF queue = <<>> THEN "to_sleep" ELSE "dequeue"
      BY <2>1 DEF AcceptTest, OnlyServer, ServerAt
    <3> QED
      BY <1>1, <1>4, <3>1 DEF AcceptInv
  <2>2. CASE AcceptSleep
    <3>1. /\ wacc' = Sleep(wacc, App) /\ rx' = rx
          /\ spc' = IF SleepReturnsAtOnce(wacc) THEN "dequeue" ELSE "asleep"
      BY <2>2 DEF AcceptSleep, OnlyServer, ServerAt
    <3>2. /\ wacc' \in WaitStructs({App}) /\ wacc'.dead = wacc.dead
          /\ SleepReturnsAtOnce(wacc) /\ ~wacc.dead => ~wacc'.notified
          /\ ~SleepReturnsAtOnce(wacc) => wacc'.waiters = {App} /\ ~wacc'.notified
      BY <1>4, <3>1, SleepIs
    <3>3. SleepReturnsAtOnce(wacc) => queue # <<>>
      BY <1>4 DEF SleepReturnsAtOnce
    <3> QED
      BY <1>1, <1>4, <3>1, <3>2, <3>3 DEF AcceptInv
  <2>3. CASE AcceptWoken
    <3>1. wacc' = Resume(wacc) /\ rx' = rx /\ App \notin wacc.waiters /\ spc = "asleep" /\ spc' = "dequeue"
      BY <2>3 DEF AcceptWoken, OnlyServer, ServerAt
    <3>2. wacc' \in WaitStructs({App}) /\ wacc'.dead = wacc.dead /\ ~wacc'.notified
      BY <1>4, <3>1, ResumeIs
    <3> QED
      BY <1>1, <1>4, <3>1, <3>2 DEF AcceptInv
  <2>4. CASE WakeAccept
    <3>1. wacc' \in WakeUps(wacc) /\ rx /\ rx' = FALSE
      BY <2>4 DEF WakeAccept
    <3>2. wacc' \in WaitStructs({App}) /\ wacc'.dead = wacc.dead
      BY <1>4, <3>1, WakeUpsIs
    <3>3. queue' # <<>>
      BY <1>1, <1>4, <3>1
    <3> QED
      BY <1>4, <3>1, <3>2, <3>3 DEF AcceptInv
  <2> QED
    BY <2>1, <2>2, <2>3, <2>4
<1> QED
  BY <1>1, <1>2, <1>3, <1>5, AcceptStep

\* A wake-up nobody waits for any more: the application was accepted already.
LEMMA LateWakeKeeps ==
  ASSUME IInv, WakeAccept, spc \in Reading
  PROVE  IInv'
<1>1. /\ UNCHANGED <<sk, lsn, queue, accepted, cpc, spc, got, wrecv, chan, dead>>
      /\ wacc' \in WakeUps(wacc) /\ rx' = FALSE
  BY DEF WakeAccept
<1>2. wacc' \in WaitStructs({App})
  BY <1>1, WakeUpsIs DEF IInv, Shape
<1>3. Shape'
  BY <1>1, <1>2 DEF IInv, Shape
<1>4. LinkInv'
  BY <1>1, LinksStay DEF IInv, ReadOf
<1>5. ListenSock' /\ QueueInv' /\ ReadInv'
  BY <1>1 DEF IInv, ListenSock, QueueInv, ReadInv, ReaderSeesFin, Mine
<1>6. AcceptInv'
  BY <1>1 DEF AcceptInv, Accepting, Reading
<1> QED
  BY <1>3, <1>4, <1>5, <1>6 DEF IInv

\* AcceptReturn: nothing was read of the connection yet.
LEMMA AcceptReturnKeeps ==
  ASSUME IInv, AcceptReturn
  PROVE  IInv'
<1>1. /\ spc = "dequeue" /\ queue # <<>> /\ accepted' = accepted \cup {Head(queue)}
      /\ queue' = Tail(queue) /\ lsn' = tcp_hash(lsn) /\ spc' = "read"
      /\ UNCHANGED <<sk, cpc, got, wrecv, chan, dead, rx, wacc>>
  BY DEF AcceptReturn, ServerAt, OnlyServer
<1>2. /\ spc \in Accepting \ {"bind", "listen"} /\ spc \notin Reading /\ spc' \in Reading
      /\ spc' \notin Accepting /\ spc \in Accepting \cup Reading
  BY <1>1 DEF Accepting, Reading
<1>3. queue \in Seq(Conns) /\ accepted = {} /\ got = 0
  BY <1>2 DEF IInv, QueueInv
<1>4. /\ Head(queue) \in In(queue) /\ Head(queue) \in Conns
      /\ Tail(queue) \in Seq(Conns) /\ In(Tail(queue)) \subseteq In(queue)
  <2>1. Head(queue) \in In(queue) /\ Tail(queue) \in Seq(Conns) /\ In(Tail(queue)) \subseteq In(queue)
    BY <1>1, <1>3, InHead
  <2>2. In(queue) \subseteq Conns
    BY <1>3 DEF In
  <2> QED
    BY <2>1, <2>2
<1>5. accepted' = {Head(queue)}
  BY <1>1, <1>3
<1>6. QueueInv'
  <2>1. \A k \in accepted' \cup In(queue') : sk'[k].s.state # "NONE"
    BY <1>1, <1>4, <1>5 DEF IInv, QueueInv
  <2> QED
    BY <1>1, <1>2, <1>4, <1>5, <2>1 DEF QueueInv
<1>7. LinkInv'
  <2>1. \A k \in Conns : ReadOf(k)' = ReadOf(k)
    BY <1>1, <1>3 DEF ReadOf
  <2> QED
    BY <1>1, <2>1, LinksStay DEF IInv
<1>8. ListenSock'
  <2>1. /\ lsn \in SockRec /\ ~lsn.retrans /\ lsn.buf = {} /\ lsn.snd_una = 0 /\ lsn.snd_nxt = 0
        /\ lsn.ring = 0 /\ lsn.cnt = 0 /\ lsn.ref = 2
    BY <1>2, ListenRefs DEF IInv
  <2>2. lsn' \in SockRec /\ Keeps(lsn', lsn, {"hash", "ref"}) /\ lsn'.ref = 3
    BY <1>1, <2>1, HashIs
  <2>3. /\ ~lsn'.retrans /\ lsn'.buf = {} /\ lsn'.snd_una = 0 /\ lsn'.snd_nxt = 0
        /\ lsn'.ring = 0 /\ lsn'.cnt = 0
    BY <2>1, <2>2 DEF Keeps, Fields
  <2> QED
    BY <1>1, <1>2, <2>2, <2>3 DEF ListenSock
<1>9. AcceptInv' /\ ReadInv'
  BY <1>1, <1>2 DEF IInv, AcceptInv, ReadInv, ReaderSeesFin
<1>10. Shape'
  BY <1>1, <1>2 DEF IInv, Shape
<1> QED
  BY <1>6, <1>7, <1>8, <1>9, <1>10 DEF IInv

\* A step of the reader, or of close, that leaves the socks and what is under way
\* alone.
LEMMA ReaderStays ==
  ASSUME IInv, spc \in Reading, spc' \in Reading, ReadInv',
         wrecv' \in [Conns -> WaitStructs({App})],
         UNCHANGED <<sk, lsn, queue, accepted, cpc, got, rx, wacc, chan, dead>>
  PROVE  IInv'
<1>1. LinkInv'
  BY LinksStay DEF IInv, ReadOf
<1>2. Shape'
  BY DEF IInv, Shape
<1>3. QueueInv'
  BY DEF IInv, QueueInv, Accepting, Reading
<1>4. ListenSock'
  BY DEF IInv, ListenSock, Accepting, Reading
<1>5. AcceptInv'
  BY DEF AcceptInv, Accepting, Reading
<1> QED
  BY <1>1, <1>2, <1>3, <1>4, <1>5 DEF IInv

\* A step of the reader, or of close, that changes the sock.
LEMMA ReaderMoves ==
  ASSUME IInv, spc \in Reading, NEW k \in Conns, k = Mine, NEW t \in SockRec, Becomes(k, "s", t),
         t.state # "NONE", chan' \in Chans, \A j \in Conns : j # k => chan'[j] = chan[j],
         Link(sk[k].c, t, In(chan'[k].c), In(chan'[k].s), cpc[k], got'), got' \in Nat,
         \/ spc' \in {"read", "done"}
         \/ spc' = "closing" /\ t.state \in {"LAST_ACK", "CLOSED"} /\ t.snd_nxt = 1,
         UNCHANGED <<lsn, queue, accepted, cpc, rx, wacc, wrecv, dead>>
  PROVE  IInv'
<1>1. /\ sk' \in Socks /\ sk'[k].s = t /\ sk'[k].c = sk[k].c
      /\ \A j \in Conns : j # k => sk'[j] = sk[j]
  BY BecomesIs DEF IInv, Shape
<1>2. accepted = {k} /\ accepted' = {k}
  BY MineIs DEF IInv
<1>3. /\ ReadOf(k)' = got'
      /\ \A j \in Conns : j # k => ReadOf(j)' = ReadOf(j)
  BY <1>2 DEF ReadOf
<1>4. LinkInv'
  <2>1. Link(sk'[k].c, sk'[k].s, In(chan'[k].c), In(chan'[k].s), cpc'[k], ReadOf(k)')
    BY <1>1, <1>3
  <2> QED
    BY <1>1, <1>3, <2>1, OtherLinks DEF IInv
<1>5. spc' \in Reading /\ spc' \notin Accepting
  BY DEF Reading, Accepting
<1>6. Shape'
  BY <1>1, <1>5 DEF IInv, Shape
<1>7. ListenSock'
  BY <1>5 DEF IInv, ListenSock, Reading
<1>8. QueueInv'
  <2>1. queue \in Seq(Conns) /\ In(queue) \subseteq Conns
    <3>1. queue \in Seq(Conns)
      BY DEF IInv, QueueInv
    <3> QED
      BY <3>1 DEF In
  <2>2. \A j \in accepted \cup In(queue) : sk'[j].s.state # "NONE"
    <3> SUFFICES ASSUME NEW j \in accepted \cup In(queue) PROVE sk'[j].s.state # "NONE"
      OBVIOUS
    <3>1. CASE j = k
      BY <1>1, <3>1
    <3>2. CASE j # k
      <4>1. j \in Conns /\ sk[j].s.state # "NONE"
        BY <1>2, <2>1 DEF IInv, QueueInv
      <4> QED
        BY <1>1, <3>2, <4>1
    <3> QED
      BY <3>1, <3>2
  <2> QED
    BY <1>2, <1>5, <2>1, <2>2 DEF QueueInv
<1>9. AcceptInv'
  BY <1>5 DEF AcceptInv
<1>10. ReadInv'
  <2>1. Mine' = k
    BY DEF Mine
  <2>2. spc' # "read_sleep" /\ spc' # "read_asleep"
    OBVIOUS
  <2> QED
    BY <1>1, <2>1, <2>2 DEF IInv, ReadInv, ReaderSeesFin
<1> QED
  BY <1>4, <1>6, <1>7, <1>8, <1>9, <1>10 DEF IInv

\* ReadEnter and CloseNothing.
LEMMA ReadEnterKeeps ==
  ASSUME IInv, ReadEnter \/ CloseNothing
  PROVE  IInv'
<1>1. /\ UNCHANGED <<sk, lsn, queue, accepted, cpc, got, rx, wacc, wrecv, chan, dead>>
      /\ spc = "read" \/ spc = "close"
      /\ spc' = "close" \/ spc' = "read_loop" \/ spc' = "done"
  BY DEF ReadEnter, CloseNothing, ServerAt, OnlyServer
<1>2. spc \in Reading /\ spc' \in Reading
  BY <1>1 DEF Reading
<1>3. ReadInv'
  BY <1>1 DEF IInv, ReadInv, ReaderSeesFin
<1>4. wrecv' \in [Conns -> WaitStructs({App})]
  BY <1>1 DEF IInv, Shape
<1> QED
  BY <1>1, <1>2, <1>3, <1>4, ReaderStays

\* What the reader's sock is.
LEMMA ReaderLink ==
  ASSUME IInv, spc \in Reading
  PROVE  /\ Mine \in Conns /\ sk[Mine].s.state # "NONE" /\ ReadOf(Mine) = got
         /\ Link(sk[Mine].c, sk[Mine].s, In(chan[Mine].c), In(chan[Mine].s), cpc[Mine], got)
         /\ chan \in Chans /\ got \in Nat /\ sk[Mine].s.ring \in Nat
<1>1. Mine \in Conns /\ accepted = {Mine} /\ sk[Mine].s.state # "NONE"
  BY MineIs DEF IInv
<1>2. ReadOf(Mine) = got
  BY <1>1 DEF ReadOf
<1>3. /\ Link(sk[Mine].c, sk[Mine].s, In(chan[Mine].c), In(chan[Mine].s), cpc[Mine], ReadOf(Mine))
      /\ chan \in Chans /\ sk[Mine].s \in SockRec
  BY <1>1, LinkOf
<1> QED
  BY <1>1, <1>2, <1>3, SockFields DEF IInv, Shape

\* ReadLoop: what is in the ring moves to the application.
LEMMA ReadLoopKeeps ==
  ASSUME IInv, ReadLoop
  PROVE  IInv'
<1> DEFINE k == Mine
           s == sk[k].s
<1>1. /\ spc = "read_loop"
      /\ UNCHANGED <<lsn, queue, accepted, cpc, rx, wacc, wrecv, chan, dead>>
      /\ \/ s.ring > 0 /\ got' = got + s.ring /\ Becomes(k, "s", Emptied(s)) /\ spc' = "read"
         \/ s.ring = 0 /\ spc' = (IF s.state = "CLOSE_WAIT" THEN "close" ELSE "read_sleep")
            /\ UNCHANGED <<sk, got>>
  BY DEF ReadLoop, ServerAt, OnlyServer, Emptied
<1>2. spc \in Reading
  BY <1>1 DEF Reading
<1>3. /\ k \in Conns /\ s.state # "NONE" /\ chan \in Chans /\ got \in Nat /\ s.ring \in Nat
      /\ Link(sk[k].c, s, In(chan[k].c), In(chan[k].s), cpc[k], got)
  BY <1>2, ReaderLink
<1>4. CASE got' = got + s.ring /\ Becomes(k, "s", Emptied(s)) /\ spc' = "read"
  <2> DEFINE t == Emptied(s)
  <2>1. /\ t \in SockRec /\ Keeps(t, s, {"ring"})
        /\ Link(sk[k].c, t, In(chan[k].c), In(chan[k].s), cpc[k], got + s.ring)
    BY <1>3, ReadLink
  <2>2. t.state = s.state /\ Becomes(k, "s", t) /\ got' \in Nat
    BY <1>3, <1>4, <2>1 DEF Keeps, Fields
  <2>3. k = Mine
    OBVIOUS
  <2> HIDE DEF t, k
  <2>4. /\ Link(sk[k].c, t, In(chan'[k].c), In(chan'[k].s), cpc[k], got')
        /\ chan' \in Chans /\ \A j \in Conns : j # k => chan'[j] = chan[j]
    BY <1>1, <1>3, <1>4, <2>1
  <2> QED
    BY <1>1, <1>2, <1>3, <1>4, <2>1, <2>2, <2>3, <2>4, ReaderMoves
<1>5. CASE /\ s.ring = 0 /\ spc' = (IF s.state = "CLOSE_WAIT" THEN "close" ELSE "read_sleep")
           /\ UNCHANGED <<sk, got>>
  <2>1. spc' \in Reading
    BY <1>5 DEF Reading
  <2>2. ReadInv'
    <3>1. Mine' = Mine
      BY <1>1 DEF Mine
    <3>2. /\ spc' = "read_sleep" => s.state # "CLOSE_WAIT"
          /\ spc' # "read_asleep" /\ spc' # "closing"
      BY <1>5
    <3> QED
      BY <1>1, <1>5, <3>1, <3>2 DEF IInv, ReadInv, ReaderSeesFin
  <2>3. wrecv' \in [Conns -> WaitStructs({App})]
    BY <1>1 DEF IInv, Shape
  <2> QED
    BY <1>1, <1>2, <1>5, <2>1, <2>2, <2>3, ReaderStays
<1> QED
  BY <1>1, <1>4, <1>5

\* ReadSleep and ReadWoken: whoever sleeps has looked at the state, and a wake-up
\* that came in between is kept.
LEMMA ReadSleepKeeps ==
  ASSUME IInv, ReadSleep \/ ReadWoken
  PROVE  IInv'
<1> DEFINE k == Mine
           s == sk[k].s
           w == wrecv[k]
<1>1. /\ UNCHANGED <<sk, lsn, queue, accepted, cpc, got, rx, wacc, chan, dead>>
      /\ \/ /\ spc = "read_sleep" /\ wrecv' = [wrecv EXCEPT ![k] = Sleep(w, App)]
            /\ spc' = IF SleepReturnsAtOnce(w) THEN "read_loop" ELSE "read_asleep"
         \/ /\ spc = "read_asleep" /\ App \notin w.waiters /\ wrecv' = [wrecv EXCEPT ![k] = Resume(w)]
            /\ spc' = "read_loop"
  BY DEF ReadSleep, ReadWoken, ServerAt, OnlyServer
<1>2. spc \in Reading /\ spc' \in Reading
  BY <1>1 DEF Reading
<1>3. k \in Conns
  BY <1>2, ReaderLink
<1>4. wrecv \in [Conns -> WaitStructs({App})] /\ WaitOK(w) /\ w \in WaitStructs({App})
  BY <1>3 DEF IInv, Shape, ReadInv, WaitOK
<1>5. spc = "read_sleep" /\ s.state = "CLOSE_WAIT" => SleepReturnsAtOnce(w)
  BY DEF IInv, ReadInv
<1>6. PICK v : /\ wrecv' = [wrecv EXCEPT ![k] = v] /\ WaitOK(v)
               /\ \/ spc' = "read_loop"
                  \/ spc' = "read_asleep" /\ s.state # "CLOSE_WAIT"
  <2>1. CASE spc = "read_sleep"
    <3>1. WaitOK(Sleep(w, App))
      BY <1>4, SleepIs
    <3> QED
      BY <1>1, <1>5, <2>1, <3>1
  <2>2. CASE spc = "read_asleep"
    <3>1. App \notin w.waiters /\ wrecv' = [wrecv EXCEPT ![k] = Resume(w)] /\ spc' = "read_loop"
      BY <1>1, <2>2
    <3>2. WaitOK(Resume(w))
      BY <1>4, <3>1, ResumeIs
    <3> QED
      BY <3>1, <3>2
  <2> QED
    BY <1>1, <2>1, <2>2
<1>7. wrecv' \in [Conns -> WaitStructs({App})] /\ \A j \in Conns : WaitOK(wrecv'[j])
  BY <1>3, <1>4, <1>6 DEF IInv, ReadInv, WaitOK
<1>8. ReadInv'
  <2>1. Mine' = Mine /\ sk' = sk
    BY <1>1 DEF Mine
  <2> QED
    BY <1>6, <1>7, <2>1 DEF ReadInv, ReaderSeesFin
<1> QED
  BY <1>1, <1>2, <1>7, <1>8, ReaderStays

\* CloseLastAck and CloseSend.
LEMMA ServerCloseKeeps ==
  ASSUME IInv, CloseLastAck \/ CloseSend
  PROVE  IInv'
<1> DEFINE k == Mine
           s == sk[k].s
<1>1. spc \in Reading /\ UNCHANGED <<lsn, queue, accepted, cpc, got, rx, wacc, wrecv, dead>>
  BY DEF CloseLastAck, CloseSend, ServerAt, OnlyServer, Reading
<1>2. /\ k \in Conns /\ s.state # "NONE" /\ chan \in Chans /\ got \in Nat
      /\ Link(sk[k].c, s, In(chan[k].c), In(chan[k].s), cpc[k], got)
  BY <1>1, ReaderLink
<1>3. k = Mine
  OBVIOUS
<1>4. CASE CloseLastAck
  <2> DEFINE t == [s EXCEPT !.state = "LAST_ACK"]
  <2>1. s.state = "CLOSE_WAIT" /\ Becomes(k, "s", t) /\ spc' = "closing" /\ chan' = chan
    BY <1>4 DEF CloseLastAck
  <2>2. /\ t \in SockRec /\ t.state = "LAST_ACK" /\ t.snd_nxt = 1
        /\ Link(sk[k].c, t, In(chan[k].c), In(chan[k].s), cpc[k], got)
    BY <1>2, <2>1, CloseLastAckLink
  <2> HIDE DEF t, k
  <2>3. Link(sk[k].c, t, In(chan'[k].c), In(chan'[k].s), cpc[k], got')
    BY <1>1, <2>1, <2>2
  <2> QED
    BY <1>1, <1>2, <1>3, <2>1, <2>2, <2>3, ReaderMoves
<1>5. CASE CloseSend
  <2> DEFINE t == AfterControl(s, {"FIN", "ACK"})
             m == Control(s, {"FIN", "ACK"})
  <2>1. /\ spc = "closing" /\ Becomes(k, "s", t) /\ spc' = "done"
        /\ chan' = [chan EXCEPT ![k].c = Append(@, m)]
    BY <1>5 DEF CloseSend, ServerAt
  <2>2. s.state \in {"LAST_ACK", "CLOSED"} /\ s.snd_nxt = 1
    BY <2>1 DEF IInv, ReadInv
  <2>3. /\ t \in SockRec /\ t.state \in {"LAST_ACK", "CLOSED"}
        /\ Link(sk[k].c, t, In(chan[k].c) \cup {m}, In(chan[k].s), cpc[k], got)
    BY <1>2, <2>2, CloseSendLink
  <2> HIDE DEF t, m, k
  <2>4. m \in SegRec
    BY <2>3, Answered
  <2>5. /\ chan' \in Chans /\ (\A j \in Conns : j # k => chan'[j] = chan[j])
        /\ In(chan'[k].s) = In(chan[k].s) /\ In(chan'[k].c) = In(chan[k].c) \cup {m}
    BY <1>2, <2>1, <2>4, SendIs
  <2>6. Link(sk[k].c, t, In(chan'[k].c), In(chan'[k].s), cpc[k], got')
    BY <1>1, <2>3, <2>5
  <2> QED
    BY <1>1, <1>2, <1>3, <2>1, <2>3, <2>5, <2>6, ReaderMoves
<1> QED
  BY <1>4, <1>5

-----------------------------------------------------------------------------
(* The invariant, and what it implies. *)

\* The first state.
LEMMA InitInv ==
  ASSUME Init
  PROVE  IInv
<1> DEFINE c == alloc_tcp_sock
           s == NoSock
<1>1. MaxData \in Nat /\ MaxRetrans \in Nat
  BY ConnAssumption
<1>2. /\ c \in SockRec /\ c.state = "CLOSED" /\ c.ref = 0 /\ ~c.freed /\ c.buf = {} /\ ~c.persist
      /\ ~c.retrans /\ ~c.timewait /\ c.snd_una = 0 /\ c.snd_nxt = 0 /\ c.rcv_nxt = 0 /\ c.ring = 0
      /\ c.cnt = 0
  BY DEF alloc_tcp_sock, SockRec, States, Nodes
<1>3. /\ s \in SockRec /\ s.state = "NONE" /\ s.ref = 0 /\ ~s.freed /\ s.buf = {} /\ ~s.persist
      /\ ~s.retrans /\ ~s.timewait /\ s.snd_una = 0 /\ s.snd_nxt = 0 /\ s.ring = 0 /\ s.cnt = 0
      /\ s.hash = "null" /\ s.bind = "null"
  BY DEF alloc_tcp_sock, NoSock, SockRec, States, Nodes
<1>4. /\ sk \in Socks /\ \A k \in Conns : sk[k].c = c /\ sk[k].s = s
  BY <1>2, <1>3 DEF Init, Socks
<1>5. In(<<>>) = {} /\ <<>> \in Seq(SegRec)
  BY InSmall
<1>6. /\ chan \in Chans
      /\ \A k \in Conns : In(chan[k].c) = {} /\ In(chan[k].s) = {}
  BY <1>5 DEF Init, Chans
<1>7. WaitInit \in WaitStructs({App}) /\ WaitOK(WaitInit)
  BY DEF WaitInit, WaitStructs, WaitOK
<1>8. Shape
  BY <1>4, <1>6, <1>7 DEF Init, Shape, ClientPcs, Accepting
<1>9. LinkInv
  <2>1. ClientSock(c, "start")
    BY <1>1, <1>2 DEF ClientSock, Waiting, Using, Shut, Closing
  <2>2. ClientRefs(c, "start")
    BY DEF ClientRefs
  <2>3. ServerSock(s, 0)
    BY <1>1, <1>3 DEF ServerSock, Count
  <2>4. EndsFit(c, s, "start")
    BY <1>2, <1>3 DEF EndsFit, Using, Shut, Closing
  <2>5. Link(c, s, {}, {}, "start", 0)
    BY <1>2, <1>3, <2>1, <2>2, <2>3, <2>4 DEF Link, ClientPcs
  <2>6. \A k \in Conns : cpc[k] = "start" /\ ReadOf(k) = 0
    BY DEF Init, ReadOf
  <2> HIDE DEF c, s
  <2> QED
    BY <1>4, <1>6, <2>5, <2>6 DEF LinkInv
<1>10. ListenSock
  <2>1. lsn = c /\ spc = "bind"
    BY DEF Init
  <2> HIDE DEF c
  <2> QED
    BY <1>2, <2>1, ListenRefs DEF Accepting, Reading
<1>11. QueueInv
  <2>1. queue = <<>> /\ accepted = {} /\ got = 0 /\ spc = "bind"
    BY DEF Init
  <2>2. queue \in Seq(Conns) /\ In(queue) = {}
    BY <1>5, <2>1
  <2> QED
    BY <2>1, <2>2 DEF QueueInv, Reading
<1>12. AcceptInv
  BY DEF Init, AcceptInv, WaitInit
<1>13. ReadInv
  BY <1>7 DEF Init, ReadInv, ReaderSeesFin
<1> QED
  BY <1>8, <1>9, <1>10, <1>11, <1>12, <1>13 DEF IInv

\* Every step preserves the invariant.
LEMMA NextInv ==
  ASSUME IInv, [Next]_vars
  PROVE  IInv'
<1>1. CASE UNCHANGED vars
  BY <1>1
  DEF vars, IInv, Shape, LinkInv, ReadOf, ListenSock, QueueInv, AcceptInv, ReadInv, ReaderSeesFin, Mine
<1>2. CASE ServerApp
  BY <1>2, BindListenKeep, AcceptKeeps, AcceptReturnKeeps, ReadEnterKeeps, ReadLoopKeeps,
     ReadSleepKeeps, ServerCloseKeeps, Zenon
  DEF ServerApp
<1>3. CASE WakeAccept
  <2>1. spc \in Accepting \/ spc \in Reading
    BY DEF IInv, Shape
  <2> QED
    BY <1>3, <2>1, AcceptKeeps, LateWakeKeeps
<1>4. ASSUME NEW k \in Conns, ClientApp(k)
      PROVE  IInv'
  BY <1>4, ConnectKeeps, AppKeeps, WriteKeeps, CloseFinKeeps, CloseKeeps, Zenon DEF ClientApp
<1>5. ASSUME NEW k \in Conns, ReceiveClient(k)
      PROVE  IInv'
  <2>1. "c" \in Ends
    BY DEF Ends
  <2>2. CASE RcvIgnored(k)
    BY <2>1, <2>2, DropKeeps
  <2> QED
    BY <1>5, <2>2, RcvSynSentKeeps, RcvFinWait1Keeps, RcvFinWait2Keeps, Zenon DEF ReceiveClient
<1>6. ASSUME NEW k \in Conns, ReceiveServer(k)
      PROVE  IInv'
  BY <1>6, RcvListenKeeps, RcvSynRecvKeeps, Zenon DEF ReceiveServer
<1>7. ASSUME NEW k \in Conns, Timers(k)
      PROVE  IInv'
  BY <1>7, RetransKeeps, TimersKeep, Zenon DEF Timers
<1>8. ASSUME NEW k \in Conns, NEW e \in Ends, Receive(k, e)
      PROVE  IInv'
  <2>1. CASE RcvNoSock(k, e)
    BY <2>1, DropKeeps
  <2>2. CASE e = "c" /\ ~RcvNoSock(k, e)
    <3>1. \/ RcvFin(k, "c") \/ RcvAck(k, "c") \/ RcvData(k, "c")
          \/ RcvCloseWait(k, "c") \/ RcvLastAck(k, "c")
      BY <1>8, <2>2 DEF Receive
    <3> QED
      BY <3>1, RcvFinKeepsC, RcvAckKeepsC, RcvDataKeepsC, RcvCloseWaitKeepsC, RcvLastAckKeepsC, Zenon
  <2>3. CASE e = "s" /\ ~RcvNoSock(k, e)
    <3>1. \/ RcvFin(k, "s") \/ RcvAck(k, "s") \/ RcvData(k, "s")
          \/ RcvCloseWait(k, "s") \/ RcvLastAck(k, "s")
      BY <1>8, <2>3 DEF Receive
    <3> QED
      BY <3>1, RcvFinKeepsS, RcvAckKeepsS, RcvDataKeepsS, RcvCloseWaitKeepsS, RcvLastAckKeepsS, Zenon
  <2> QED
    BY <2>1, <2>2, <2>3 DEF Ends
<1>9. ASSUME NEW k \in Conns, NEW e \in Ends, Probe(k, e) \/ Lose(k, e) \/ Vanish(k, e)
      PROVE  IInv'
  <2>1. CASE Probe(k, e)
    BY <2>1, ProbeKeepsC, ProbeKeepsS DEF Ends
  <2>2. CASE Lose(k, e) \/ Vanish(k, e)
    BY <2>2, DropKeeps
  <2> QED
    BY <1>9, <2>1, <2>2
<1> QED
  BY <1>1, <1>2, <1>3, <1>4, <1>5, <1>6, <1>7, <1>8, <1>9, Zenon DEF Next

\* The invariant holds of every behaviour.
THEOREM ConnInvariant == Spec => []IInv
<1>1. Init => IInv
  BY InitInv
<1>2. IInv /\ [Next]_vars => IInv'
  BY NextInv
<1> QED
  BY <1>1, <1>2, PTL DEF Spec

\* Every sock keeps its ranges: at most six references, at most one SYN and two
\* FINs of sequence space beyond the data, and a retransmission timer only over
\* unacknowledged data; accept returns one connection.
THEOREM ConnTypeOK == Spec => []TypeOK
<1>1. IInv => TypeOK
  <2> SUFFICES ASSUME IInv PROVE TypeOK
    OBVIOUS
  <2>1. MaxData \in Nat /\ MaxRetrans \in Nat
    BY ConnAssumption
  <2>2. ASSUME NEW k \in Conns
        PROVE  Sock(sk[k].c)
    <3> DEFINE c == sk[k].c
               p == cpc[k]
    <3>1. /\ c \in SockRec /\ ClientSock(c, p) /\ ClientRefs(c, p)
      BY <2>2, LinkOf DEF Link
    <3> HIDE DEF c, p
    <3>2. c.ref \in 0..6
      <4>1. CASE p = "start"
        BY <3>1, <4>1 DEF ClientSock, alloc_tcp_sock
      <4>2. CASE p # "start"
        <5>1. c.ref <= Owed(c) /\ c.ref \in Nat
          BY <3>1, <4>2, SockFields DEF ClientRefs
        <5>2. Owed(c) \in 3..6
          BY DEF Owed, Count
        <5> HIDE DEF Owed
        <5> QED
          BY <5>1, <5>2
      <4> QED
        BY <4>1, <4>2
    <3>3. Sock(c)
      BY <2>1, <3>1, <3>2, SockFields DEF Sock, ClientSock
    <3> QED
      BY <3>3 DEF c
  <2>3. ASSUME NEW k \in Conns
        PROVE  Sock(sk[k].s)
    <3> DEFINE s == sk[k].s
               g == ReadOf(k)
    <3>1. s \in SockRec /\ ServerSock(s, g) /\ g \in Nat
      BY <2>3, LinkOf DEF Link
    <3> HIDE DEF s, g
    <3>2. s.ref \in 0..6
      BY <3>1 DEF ServerSock, Count
    <3>3. Sock(s)
      BY <2>1, <3>1, <3>2, SockFields DEF Sock, ServerSock
    <3> QED
      BY <3>3 DEF s
  <2>4. Sock(lsn)
    <3>1. lsn \in SockRec /\ lsn.ref \in 0..6
      BY DEF IInv, ListenSock
    <3> QED
      BY <2>1, <3>1, SockFields DEF IInv, ListenSock, Sock
  <2>5. got \in 0..MaxData /\ accepted \subseteq Conns /\ Cardinality(accepted) <= 1
    <3>1. spc \in Accepting \/ spc \in Reading
      BY DEF IInv, Shape
    <3>2. CASE spc \in Accepting
      <4>1. accepted = {} /\ got = 0
        BY <3>2 DEF IInv, QueueInv
      <4> QED
        BY <2>1, <4>1, FS_EmptySet
    <3>3. CASE spc \in Reading
      <4>1. PICK k \in Conns : accepted = {k}
        BY <3>3 DEF IInv, QueueInv
      <4>2. Cardinality({k}) = 1
        BY FS_Singleton
      <4>3. ServerSock(sk[Mine].s, got) /\ got \in Nat /\ sk[Mine].s.ring \in Nat
        BY <3>3, ReaderLink DEF Link
      <4>4. got \in 0..MaxData
        BY <2>1, <4>3 DEF ServerSock
      <4> QED
        BY <4>1, <4>2, <4>4
    <3> QED
      BY <3>1, <3>2, <3>3
  <2> QED
    BY <2>2, <2>3, <2>4, <2>5 DEF TypeOK, IInv, Shape
<1> QED
  BY <1>1, ConnInvariant, PTL

\* The two ends agree on the handshake, whatever the network loses: a client that
\* believes in the connection has a child, and a child past SYN_RECV has received
\* no more than its client sent.
THEOREM HandshakeAgrees == Spec => []HandshakeAgreement
<1>1. IInv => HandshakeAgreement
  <2> SUFFICES ASSUME IInv, NEW k \in Conns
               PROVE  LET c == sk[k].c  s == sk[k].s IN
                      /\ c.state \in {"ESTABLISHED"} \cup Closing => s.state # "NONE" /\ c.rcv_nxt >= 1
                      /\ s.state \notin {"NONE", "SYN_RECV"} => c.state # "SYN_SENT"
                      /\ s.state = "ESTABLISHED" => s.rcv_nxt \in 1..c.snd_nxt
    BY DEF HandshakeAgreement
  <2>1. /\ sk[k].c \in SockRec /\ sk[k].s \in SockRec
        /\ EndsFit(sk[k].c, sk[k].s, cpc[k]) /\ ServerSock(sk[k].s, ReadOf(k))
    BY LinkOf DEF Link
  <2> QED
    BY <2>1, SockFields DEF EndsFit, ServerSock
<1> QED
  BY <1>1, ConnInvariant, PTL

\* The two ends agree on the close: TIME_WAIT and CLOSING only after the server's
\* FIN, and no end at the server before the client's application called close.
THEOREM CloseAgrees == Spec => []CloseAgreement
<1>1. IInv => CloseAgreement
  <2> SUFFICES ASSUME IInv, NEW k \in Conns
               PROVE  LET c == sk[k].c  s == sk[k].s IN
                      /\ c.state \in {"TIME_WAIT", "CLOSING"} => s.state \in {"LAST_ACK", "CLOSED"}
                      /\ s.state \in {"CLOSE_WAIT", "LAST_ACK", "CLOSED"} => cpc[k] \in {"closing", "done"}
    BY DEF CloseAgreement
  <2>1. EndsFit(sk[k].c, sk[k].s, cpc[k])
    BY LinkOf DEF Link
  <2> QED
    BY <2>1 DEF EndsFit, Shut
<1> QED
  BY <1>1, ConnInvariant, PTL

\* No sock is released while a table or a timer refers to it: the three threads
\* together never drop more references than were taken.  In fact no sock is
\* released at all: the two references of the client's port are never returned.
THEOREM SocksStayAllocated == Spec => []NoFreedSockInUse
<1>1. IInv => NoFreedSockInUse
  <2> SUFFICES ASSUME IInv, NEW k \in Conns, NEW e \in Ends
               PROVE  ~sk[k][e].freed
    BY DEF NoFreedSockInUse
  <2>1. ~sk[k].c.freed /\ ~sk[k].s.freed
    BY LinkOf DEF Link, ClientSock, ServerSock
  <2> QED
    BY <2>1 DEF Ends
<1> QED
  BY <1>1, ConnInvariant, PTL

\* accept finds a child in its queue when it goes on to take one, although it
\* tests the queue only before it sleeps.
THEOREM DequeueFindsChild == Spec => []NoEmptyDequeue
<1>1. IInv => NoEmptyDequeue
  BY DEF IInv, AcceptInv, NoEmptyDequeue, Accepting
<1> QED
  BY <1>1, ConnInvariant, PTL

\* A sleeping reader has not missed the FIN.
THEOREM ReaderHearsFin == Spec => []ReaderSeesFin
<1>1. IInv => ReaderSeesFin
  BY DEF IInv, ReadInv
<1> QED
  BY <1>1, ConnInvariant, PTL
=============================================================================
