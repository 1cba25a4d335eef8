------------------------------- MODULE Mospf --------------------------------
(***************************************************************************)
(* The mOSPF daemon of one router (code-exp7/mospf_daemon.c) with its five *)
(* threads: the packet thread (hellos and LSUs from the network), the      *)
(* hello and LSU timers, the neighbour check and the database check.  The  *)
(* other routers are the environment: any hello of an attached router and  *)
(* any LSU of a given set may arrive at any time, late, twice or never.    *)
(* mospf_lock makes most handlers one step.  Two things happen outside it  *)
(* and are steps of their own: the neighbour check builds and sends its    *)
(* LSU (line 168), and the database check runs the shortest-path           *)
(* computation (line 469).                                                 *)
(***************************************************************************)
EXTENDS MospfSpf, SequencesExt

CONSTANTS
  me,                        \* the router's id
  IfaceNet,                  \* networks of its interfaces, in list order
  Peers,                     \* [interface -> routers attached to its network]
  Lsus,                      \* LSUs that may arrive: [rid, seq, lsa]
  MOSPF_DEFAULT_HELLOINT,    \* seconds between hellos (5 in the code)
  MOSPF_DEFAULT_LSUINT,      \* seconds between LSUs (30 in the code)
  MOSPF_DATABASE_TIMEOUT,    \* seconds a neighbour or an entry lives (40)
  MaxSeq                     \* bound: copies of its own LSUs the router sends in all

\* A router's id is the address of its first interface, never 0, and the
\* router's own LSUs are dropped on arrival (handle_mospf_lsu, line 723).
ASSUME MospfAssumption ==
  /\ MOSPF_DEFAULT_HELLOINT \in Nat \ {0}
  /\ MOSPF_DEFAULT_LSUINT \in Nat \ {0}
  /\ MOSPF_DATABASE_TIMEOUT \in Nat \ {0}
  /\ MaxSeq \in Nat
  /\ IfaceNet \in Seq(Range(IfaceNet))
  /\ me # NoRouter
  /\ \A m \in Lsus : m.rid \notin {me, NoRouter}
  /\ \A i \in DOMAIN IfaceNet : NoRouter \notin Peers[i]

VARIABLES
  nbr_list,       \* [interface -> sequence of [nbr_id, alive]]
  mospf_db,       \* sequence of [rid, seq, alive, lsa], in list order
  sequence_num, helloint, lsuint,
  rtable,         \* the tables loaded since the last clear: the networks each has
  spf,            \* [thread -> where its spf_run is, with the table it computed]
  lsu,            \* the LSU the neighbour check is about to build or send
  issued,         \* the last LSU sent: [seq, lsa]
  reused,         \* an LSU was sent under the last one's number with other content
  raced,          \* an LSU was sent while the neighbour check held one unsent
  overlapped      \* the last two spf_runs overlapped

vars == <<nbr_list, mospf_db, sequence_num, helloint, lsuint, rtable, spf, lsu,
          issued, reused, raced, overlapped>>

Ifaces == DOMAIN IfaceNet
Connected == Range(IfaceNet)
Threads == {"packet", "database"}

NoTable == {}
Idle == [at |-> "idle", table |-> NoTable]
NoLsu == [at |-> "idle", seq |-> 0, lsa |-> {}]

\* A list of neighbours or of database entries without those whose time is up,
\* and with each a second older.
Living(s) == Kept(s, {e \in Range(s) : e.alive > 0})
Older(s) == [k \in DOMAIN s |-> [s[k] EXCEPT !.alive = @ - 1]]

Nbrs == FlattenSeq([i \in Ifaces |-> [k \in DOMAIN nbr_list[i] |-> nbr_list[i][k].nbr_id]])

\* mospf_init, after the kernel's routes have been loaded.
mospf_init ==
  /\ nbr_list = [i \in Ifaces |-> <<>>]
  /\ mospf_db = <<>>
  /\ sequence_num = 0
  /\ helloint = [i \in Ifaces |-> MOSPF_DEFAULT_HELLOINT]
  /\ lsuint = MOSPF_DEFAULT_LSUINT
  /\ rtable = <<Connected>>
  /\ spf = [t \in Threads |-> Idle]
  /\ lsu = NoLsu
  /\ issued = [seq |-> MaxSeq + 1, lsa |-> {}]
  /\ reused = FALSE /\ raced = FALSE /\ overlapped = FALSE

\* mospf_lock is free: the packet thread holds it through its spf_run; the
\* other sections under it are single steps.
Unlocked == spf["packet"] = Idle

-----------------------------------------------------------------------------
(* LSUs of this router.                                                    *)

\* The LSAs of generate_mospf_lsu: one per neighbour, or the network itself.
generate_mospf_lsu(nbr) ==
  UNION {IF nbr[i] = <<>> THEN {[network |-> IfaceNet[i], rid |-> me]}
         ELSE {[network |-> IfaceNet[i], rid |-> nbr[i][k].nbr_id] : k \in DOMAIN nbr[i]} : i \in Ifaces}

\* One copy of an LSU for every neighbour on every interface.
Copies(nbr) == Cardinality(UNION {{i} \X DOMAIN nbr[i] : i \in Ifaces})

\* mutant: the number is not counted up
IssueSame(seq, lsa, nbr) ==
  /\ UNCHANGED sequence_num
  /\ IF Copies(nbr) = 0 THEN UNCHANGED <<issued, reused>>
     ELSE /\ issued' = [seq |-> seq, lsa |-> lsa]
          /\ reused' = (reused \/ (issued.seq = seq /\ issued.lsa # lsa))

\* An LSU goes to every neighbour, and each copy counts sequence_num up; the
\* copies are alike.  Without a neighbour nothing happens.
Issue(seq, lsa, nbr) ==
  /\ sequence_num + Copies(nbr) <= MaxSeq
  /\ sequence_num' = sequence_num + Copies(nbr)
  /\ IF Copies(nbr) = 0 THEN UNCHANGED <<issued, reused>>
     ELSE /\ issued' = [seq |-> seq, lsa |-> lsa]
          /\ reused' = (reused \/ (issued.seq = seq /\ issued.lsa # lsa))

\* send_mospf_lsu under mospf_lock.
send_mospf_lsu(nbr) ==
  /\ Issue(sequence_num, generate_mospf_lsu(nbr), nbr)
  /\ raced' = (raced \/ (lsu.at = "send" /\ Copies(nbr) > 0))

\* The LSU timer, once a second.
sending_mospf_lsu_thread ==
  /\ Unlocked
  /\ IF lsuint - 1 <= 0
     THEN /\ send_mospf_lsu(nbr_list)
          /\ lsuint' = MOSPF_DEFAULT_LSUINT
     ELSE /\ lsuint' = lsuint - 1
          /\ UNCHANGED <<sequence_num, issued, reused, raced>>
  /\ UNCHANGED <<nbr_list, mospf_db, helloint, rtable, spf, lsu, overlapped>>

-----------------------------------------------------------------------------
(* Neighbours.                                                             *)

\* The hello timer, once a second: only its count is state of this router.
sending_mospf_hello_thread ==
  /\ Unlocked
  /\ helloint' = [i \in Ifaces |-> IF helloint[i] - 1 <= 0 THEN MOSPF_DEFAULT_HELLOINT ELSE helloint[i] - 1]
  /\ UNCHANGED <<nbr_list, mospf_db, sequence_num, lsuint, rtable, spf, lsu, issued, reused, raced, overlapped>>

\* A hello of r on interface i: a known neighbour is refreshed, a new one is
\* added and announced.
handle_mospf_hello(i, r) ==
  LET at == {k \in DOMAIN nbr_list[i] : nbr_list[i][k].nbr_id = r}
      alive == MOSPF_DATABASE_TIMEOUT
  IN  /\ Unlocked
      /\ IF at # {}
         THEN /\ nbr_list' = [nbr_list EXCEPT ![i][Min(at)].alive = alive]
              /\ UNCHANGED <<sequence_num, issued, reused, raced>>
         ELSE /\ nbr_list' = [nbr_list EXCEPT ![i] = Append(@, [nbr_id |-> r, alive |-> alive])]
              /\ send_mospf_lsu(nbr_list')
      /\ UNCHANGED <<mospf_db, helloint, lsuint, rtable, spf, lsu, overlapped>>

\* The neighbour check, once a second: the dead ones are removed under the lock;
\* if there were any, an LSU is to be sent after it.
CheckNbrs ==
  LET dead(i) == {k \in DOMAIN nbr_list[i] : nbr_list[i][k].alive <= 0}
  IN  /\ Unlocked
      /\ lsu.at = "idle"
      /\ nbr_list' = [i \in Ifaces |-> Older(Living(nbr_list[i]))]
      /\ lsu' = IF \E i \in Ifaces : dead(i) # {} THEN [NoLsu EXCEPT !.at = "build"] ELSE NoLsu
      /\ UNCHANGED <<mospf_db, sequence_num, helloint, lsuint, rtable, spf, issued, reused, raced, overlapped>>

\* Its LSU is built without the lock...
BuildLsu ==
  /\ lsu.at = "build"
  /\ lsu' = [at |-> "send", seq |-> sequence_num, lsa |-> generate_mospf_lsu(nbr_list)]
  /\ UNCHANGED <<nbr_list, mospf_db, sequence_num, helloint, lsuint, rtable, spf, issued, reused, raced, overlapped>>

\* ...and sent, as built, to the neighbours there are by then.
SendLsu ==
  /\ lsu.at = "send"
  /\ Issue(lsu.seq, lsu.lsa, nbr_list)
  /\ lsu' = NoLsu
  /\ UNCHANGED <<nbr_list, mospf_db, helloint, lsuint, rtable, spf, raced, overlapped>>

-----------------------------------------------------------------------------
(* The database and the routing table.                                     *)

Other(t) == CHOOSE o \in Threads : o # t

\* spf_run by thread t over the database db, up to the computed table.
Compute(t, db) ==
  /\ spf' = [spf EXCEPT ![t] = [at |-> "clear", table |-> DOMAIN Routes(me, Nbrs, db, Connected)]]
  /\ overlapped' = (spf[Other(t)].at \in {"clear", "load"})

\* The old table is freed and, in a second section under rt_lock, the new one
\* is loaded: in between there are no routes.
clear_rtable(t) ==
  /\ spf[t].at = "clear"
  /\ rtable' = <<>>
  /\ spf' = [spf EXCEPT ![t].at = "load"]
  /\ overlapped' = (overlapped \/ spf[Other(t)].at \in {"clear", "load"})
  /\ UNCHANGED <<nbr_list, mospf_db, sequence_num, helloint, lsuint, lsu, issued, reused, raced>>

load_rtable(t) ==
  /\ spf[t].at = "load"
  /\ rtable' = Append(rtable, spf[t].table)
  /\ spf' = [spf EXCEPT ![t] = Idle]
  /\ overlapped' = (overlapped \/ spf[Other(t)].at \in {"clear", "load"})
  /\ UNCHANGED <<nbr_list, mospf_db, sequence_num, helloint, lsuint, lsu, issued, reused, raced>>

\* An LSU that is taken into the database: of an unknown router, or newer.
Newer(m, at) == at = {} \/ m.seq > mospf_db[Min(at)].seq

\* An LSU: a newer one is stored and the routes are computed, under mospf_lock;
\* another only keeps its entry alive.  (It is passed on to the neighbours on
\* the other interfaces in both cases.)
handle_mospf_lsu(m) ==
  LET at == {k \in DOMAIN mospf_db : mospf_db[k].rid = m.rid}
      entry == [rid |-> m.rid, seq |-> m.seq, alive |-> MOSPF_DATABASE_TIMEOUT, lsa |-> m.lsa]
  IN  /\ Unlocked
      /\ IF Newer(m, at)
         THEN /\ mospf_db' = IF at = {} THEN Append(mospf_db, entry) ELSE [mospf_db EXCEPT ![Min(at)] = entry]
              /\ Compute("packet", mospf_db')
         ELSE /\ mospf_db' = [mospf_db EXCEPT ![Min(at)].alive = MOSPF_DATABASE_TIMEOUT]
              /\ UNCHANGED <<spf, overlapped>>
      /\ UNCHANGED <<nbr_list, sequence_num, helloint, lsuint, rtable, lsu, issued, reused, raced>>

\* mutant: an entry goes a second late
CheckDbLate ==
  LET kept == SelectSeq(Older(mospf_db), LAMBDA e : e.alive >= 0)
  IN  /\ spf["database"] = Idle
      /\ Unlocked
      /\ mospf_db' = kept
      /\ spf' = IF Len(kept) < Len(mospf_db) THEN [spf EXCEPT !["database"].at = "start"] ELSE spf
      /\ UNCHANGED <<nbr_list, sequence_num, helloint, lsuint, rtable, lsu, issued, reused, raced, overlapped>>

\* mutant: routes are not computed again after an entry has gone
CheckDbQuietly ==
  /\ spf["database"] = Idle
  /\ Unlocked
  /\ mospf_db' = Living(Older(mospf_db))
  /\ UNCHANGED <<spf, nbr_list, sequence_num, helloint, lsuint, rtable, lsu, issued, reused, raced, overlapped>>

\* The database check, once a second: old entries are removed under the lock.
CheckDb ==
  LET kept == Living(Older(mospf_db))
  IN  /\ spf["database"] = Idle
      /\ Unlocked
      /\ mospf_db' = kept
      /\ spf' = IF Len(kept) < Len(mospf_db) THEN [spf EXCEPT !["database"].at = "start"] ELSE spf
      /\ UNCHANGED <<nbr_list, sequence_num, helloint, lsuint, rtable, lsu, issued, reused, raced, overlapped>>

\* Its spf_run starts without the lock.
ComputeUnlocked ==
  /\ spf["database"].at = "start"
  /\ Compute("database", mospf_db)
  /\ UNCHANGED <<nbr_list, mospf_db, sequence_num, helloint, lsuint, rtable, lsu, issued, reused, raced>>

-----------------------------------------------------------------------------
Next ==
  \/ sending_mospf_hello_thread
  \/ sending_mospf_lsu_thread
  \/ \E i \in Ifaces : \E r \in Peers[i] : handle_mospf_hello(i, r)
  \/ CheckNbrs \/ BuildLsu \/ SendLsu
  \/ \E m \in Lsus : handle_mospf_lsu(m)
  \/ CheckDb \/ ComputeUnlocked
  \/ \E t \in Threads : clear_rtable(t) \/ load_rtable(t)

Spec == mospf_init /\ [][Next]_vars

-----------------------------------------------------------------------------
\* Types and ranges, with two facts of the lists: no router is twice in the
\* database (handle_mospf_lsu searches it first) or twice a neighbour on one
\* interface (update_nbr_list_via_hello), and an entry in the database is alive.
TypeOK ==
  /\ \A i \in Ifaces : \A j, k \in DOMAIN nbr_list[i] :
       /\ nbr_list[i][k].nbr_id \in Peers[i]
       /\ nbr_list[i][k].alive \in 0..MOSPF_DATABASE_TIMEOUT
       /\ nbr_list[i][j].nbr_id = nbr_list[i][k].nbr_id => j = k
  /\ \A j, k \in DOMAIN mospf_db :
       /\ mospf_db[k].alive \in 1..MOSPF_DATABASE_TIMEOUT
       /\ mospf_db[j].rid = mospf_db[k].rid => j = k
  /\ sequence_num \in 0..MaxSeq
  /\ helloint \in [Ifaces -> 1..MOSPF_DEFAULT_HELLOINT]
  /\ lsuint \in 1..MOSPF_DEFAULT_LSUINT
  /\ \A t \in Threads : spf[t].at \in {"idle", "start", "clear", "load"}
  /\ lsu.at \in {"idle", "build", "send"}

\* Whatever neighbours and LSUs the daemon has heard, in whatever order, the
\* table mospf_dijkstra computes sends a learned network to a neighbour on a
\* shortest path to a router that announces it, and has a route to every
\* network that a reachable router announces.  (It is the path to the ROUTER
\* that is shortest: of several routers on a network, the first in the
\* database decides, not the nearest.)
SpfIsShortest ==
  LET routes == Routes(me, Nbrs, mospf_db, Connected)
      announces(k, n) == \E l \in mospf_db[k].lsa : l.network = n
  IN  /\ \A n \in DOMAIN routes \ Connected : \E k \in DOMAIN mospf_db :
           announces(k, n) /\ OnShortestPath(routes[n], mospf_db[k].rid, me, Nbrs, mospf_db)
      /\ \A k \in DOMAIN mospf_db : Reachable(mospf_db[k].rid, me, Nbrs, mospf_db) =>
           \A l \in mospf_db[k].lsa : l.network \in DOMAIN routes

\* Once no spf_run is under way there are routes again (both threads clear the
\* table and then load it), and unless the last two runs overlapped every
\* learned network is one that a router still in the database announces:
\* checking_database_thread drops the routes of an entry with the entry.
RoutesComeFromDb ==
  (\A t \in Threads : spf[t] = Idle) =>
    /\ rtable # <<>>
    /\ ~overlapped =>
         /\ Len(rtable) = 1
         /\ \A n \in rtable[1] \ Connected :
              \E k \in DOMAIN mospf_db : \E l \in mospf_db[k].lsa : l.network = n

\* Two LSUs of this router with different content have different numbers (another
\* router drops the second of two with one number: handle_mospf_lsu), except
\* when one is sent between the building and the sending of the neighbour
\* check's, which happen outside mospf_lock (checking_nbr_thread, line 168).
SeqNamesContent == reused => raced
=============================================================================
