---------------------------- MODULE MospfProofs -----------------------------
(***************************************************************************)
(* Proofs about the mOSPF daemon: the neighbour lists, the database and    *)
(* the routing table keep their promises for every network, timeout and    *)
(* set of routers, whatever is lost and in whatever order messages come.   *)
(* The routes are shortest paths: the loop of mospf_dijkstra is proved     *)
(* correct for any database and neighbours.                                *)
(***************************************************************************)
EXTENDS Mospf, ListProofs, FiniteSetTheorems, TLAPS

-----------------------------------------------------------------------------
(***************************************************************************)
(* The operators of the model.                                             *)
(***************************************************************************)

\* The neighbours on all interfaces can be counted.
LEMMA CopiesNat ==
  ASSUME NEW nbr, \A i \in Ifaces : \E T : nbr[i] \in Seq(T) PROVE Copies(nbr) \in Nat
<1> DEFINE of(i) == {i} \X DOMAIN nbr[i]
<1>1. IsFiniteSet(Ifaces)
  <2>1. Ifaces = 1..Len(IfaceNet) /\ Len(IfaceNet) \in Nat
    BY MospfAssumption DEF Ifaces
  <2> QED
    BY <2>1, FS_Interval
<1>2. ASSUME NEW i \in Ifaces PROVE IsFiniteSet(of(i))
  <2>1. PICK T : nbr[i] \in Seq(T)
    OBVIOUS
  <2>2. DOMAIN nbr[i] = 1..Len(nbr[i]) /\ Len(nbr[i]) \in Nat
    BY <2>1
  <2>3. IsFiniteSet(DOMAIN nbr[i])
    BY <2>2, FS_Interval
  <2> QED
    BY <2>3, FS_Singleton, FS_Product
<1>3. IsFiniteSet({of(i) : i \in Ifaces})
  <2> DEFINE f == [i \in Ifaces |-> of(i)]
  <2>1. f \in Surjection(Ifaces, {of(i) : i \in Ifaces})
    <3> HIDE DEF of
    <3> QED
      BY DEF Surjection
  <2> DEFINE all == {of(i) : i \in Ifaces}
  <2>2. f \in Surjection(Ifaces, all)
    BY <2>1
  <2>3. IsFiniteSet(all)
    <3> HIDE DEF of, all, f
    <3> QED
      BY <1>1, <2>2, FS_Surjection
  <2> QED
    BY <2>3
<1>4. IsFiniteSet(UNION {of(i) : i \in Ifaces})
  <2>1. \A S \in {of(i) : i \in Ifaces} : IsFiniteSet(S)
    BY <1>2
  <2> HIDE DEF of
  <2> QED
    BY <1>3, <2>1, FS_UNION
<1> QED
  BY <1>4, FS_CardinalityType DEF Copies

-----------------------------------------------------------------------------
(***************************************************************************)
(* The invariant: one part for each group of variables.                    *)
(***************************************************************************)

Nbr(i) == [nbr_id : Peers[i], alive : 0..MOSPF_DATABASE_TIMEOUT]
Entry == [rid : {m.rid : m \in Lsus}, seq : {m.seq : m \in Lsus},
          alive : 1..MOSPF_DATABASE_TIMEOUT, lsa : {m.lsa : m \in Lsus}]
Networks(db) == UNION {{l.network : l \in db[k].lsa} : k \in DOMAIN db}
Nets == Connected \cup UNION {{l.network : l \in m.lsa} : m \in Lsus}

\* No two elements of a list name the same router.
NbrsOnce(s) == \A j, k \in DOMAIN s : s[j].nbr_id = s[k].nbr_id => j = k
EntriesOnce(s) == \A j, k \in DOMAIN s : s[j].rid = s[k].rid => j = k

NbrInv ==
  /\ DOMAIN nbr_list = Ifaces
  /\ nbr_list = [i \in Ifaces |-> nbr_list[i]]
  /\ \A i \in Ifaces : nbr_list[i] \in Seq(Nbr(i)) /\ NbrsOnce(nbr_list[i])

DbInv == mospf_db \in Seq(Entry) /\ EntriesOnce(mospf_db)

TimerInv ==
  /\ helloint \in [Ifaces -> 1..MOSPF_DEFAULT_HELLOINT]
  /\ lsuint \in 1..MOSPF_DEFAULT_LSUINT

\* The last number sent is used up, unless nothing was sent yet; the number of an
\* LSU that is built and not sent is still unused, unless another was sent since.
SeqInv ==
  /\ sequence_num \in 0..MaxSeq
  /\ issued.seq \in Nat /\ (issued.seq < sequence_num \/ issued.seq = MaxSeq + 1)
  /\ reused \in BOOLEAN /\ raced \in BOOLEAN
  /\ lsu.at \in {"idle", "build", "send"}
  /\ lsu.at = "send" => lsu.seq \in 0..sequence_num /\ (raced \/ lsu.seq # issued.seq)
  /\ reused => raced

\* The learned networks of a table are announced in the database.
Announced(table, db) == table \ Connected \subseteq Networks(db)

Busy == {"clear", "load"}

\* A table that is computed and not loaded is up to date, the old one is gone
\* before the new one is loaded, and the one loaded last stands alone, unless two
\* runs overlapped; two that are under way do.
RunInv ==
  /\ spf \in [Threads -> [at : {"idle", "start", "clear", "load"}, table : SUBSET Nets]]
  /\ spf["packet"].at # "start"
  /\ \A t \in Threads : spf[t].at = "idle" => spf[t] = Idle
  /\ overlapped \in BOOLEAN
  /\ rtable \in Seq(SUBSET Nets)
  /\ (\A t \in Threads : spf[t].at # "load") => rtable # <<>>
  /\ (\A t \in Threads : spf[t].at \in Busy) => overlapped
  /\ \A t \in Threads : spf[t].at \in Busy /\ ~overlapped => Announced(spf[t].table, mospf_db)
  /\ \A t \in Threads : spf[t].at = "load" /\ ~overlapped => rtable = <<>>
  /\ (\A t \in Threads : spf[t].at = "idle") /\ ~overlapped =>
       Len(rtable) = 1 /\ Announced(rtable[1], mospf_db)

Inv == NbrInv /\ DbInv /\ TimerInv /\ SeqInv /\ RunInv

\* The invariant gives the properties (the one of the shortest paths follows below).
LEMMA InvType == ASSUME Inv PROVE TypeOK
<1>1. \A i \in Ifaces : \A j, k \in DOMAIN nbr_list[i] :
       /\ nbr_list[i][k].nbr_id \in Peers[i]
       /\ nbr_list[i][k].alive \in 0..MOSPF_DATABASE_TIMEOUT
       /\ nbr_list[i][j].nbr_id = nbr_list[i][k].nbr_id => j = k
  <2> SUFFICES ASSUME NEW i \in Ifaces, NEW j \in DOMAIN nbr_list[i], NEW k \in DOMAIN nbr_list[i]
               PROVE  /\ nbr_list[i][k].nbr_id \in Peers[i]
                      /\ nbr_list[i][k].alive \in 0..MOSPF_DATABASE_TIMEOUT
                      /\ nbr_list[i][j].nbr_id = nbr_list[i][k].nbr_id => j = k
    OBVIOUS
  <2>1. nbr_list[i][k] \in Nbr(i) /\ NbrsOnce(nbr_list[i])
    BY DEF Inv, NbrInv
  <2> QED
    BY <2>1 DEF Nbr, NbrsOnce
<1>2. \A j, k \in DOMAIN mospf_db :
       /\ mospf_db[k].alive \in 1..MOSPF_DATABASE_TIMEOUT
       /\ mospf_db[j].rid = mospf_db[k].rid => j = k
  <2> SUFFICES ASSUME NEW j \in DOMAIN mospf_db, NEW k \in DOMAIN mospf_db
               PROVE  /\ mospf_db[k].alive \in 1..MOSPF_DATABASE_TIMEOUT
                      /\ mospf_db[j].rid = mospf_db[k].rid => j = k
    OBVIOUS
  <2>1. mospf_db[k] \in Entry /\ EntriesOnce(mospf_db)
    BY DEF Inv, DbInv
  <2> QED
    BY <2>1 DEF Entry, EntriesOnce
<1>3. \A t \in Threads : spf[t].at \in {"idle", "start", "clear", "load"}
  BY DEF Inv, RunInv
<1> QED
  BY <1>1, <1>2, <1>3 DEF TypeOK, Inv, TimerInv, SeqInv

\* An announced network is named by an LSA of an entry.
LEMMA AnnouncedMeans ==
  ASSUME NEW table, NEW db, Announced(table, db), NEW n \in table \ Connected
  PROVE  \E k \in DOMAIN db : \E l \in db[k].lsa : l.network = n
BY DEF Announced, Networks

\* The invariant gives RoutesComeFromDb.
LEMMA InvRoutes == ASSUME Inv PROVE RoutesComeFromDb
<1> SUFFICES ASSUME \A t \in Threads : spf[t] = Idle
             PROVE  /\ rtable # <<>>
                    /\ ~overlapped =>
                         /\ Len(rtable) = 1
                         /\ \A n \in rtable[1] \ Connected :
                              \E k \in DOMAIN mospf_db : \E l \in mospf_db[k].lsa : l.network = n
  BY DEF RoutesComeFromDb
<1>1. \A t \in Threads : spf[t].at = "idle"
  BY DEF Idle
<1>2. rtable # <<>> /\ (~overlapped => Len(rtable) = 1 /\ Announced(rtable[1], mospf_db))
  BY <1>1 DEF Inv, RunInv
<1> QED
  BY <1>2, AnnouncedMeans

-----------------------------------------------------------------------------
(***************************************************************************)
(* Every step keeps the invariant.                                         *)
(***************************************************************************)

\* The daemon starts with the invariant.
LEMMA InitInv == ASSUME mospf_init PROVE Inv
<1>1. NbrInv
  BY DEF mospf_init, NbrInv, NbrsOnce
<1>2. DbInv
  BY DEF mospf_init, DbInv, EntriesOnce
<1>3. TimerInv
  BY MospfAssumption DEF mospf_init, TimerInv
<1>4. SeqInv
  <2>1. sequence_num = 0 /\ issued.seq = MaxSeq + 1 /\ lsu.at = "idle" /\ MaxSeq \in Nat
    BY MospfAssumption DEF mospf_init, NoLsu
  <2>2. reused = FALSE /\ raced = FALSE
    BY DEF mospf_init
  <2>3. /\ sequence_num \in 0..MaxSeq /\ issued.seq \in Nat
        /\ issued.seq < sequence_num \/ issued.seq = MaxSeq + 1
        /\ lsu.at \in {"idle", "build", "send"} /\ lsu.at # "send"
    BY <2>1
  <2>4. reused \in BOOLEAN /\ raced \in BOOLEAN /\ (reused => raced)
    BY <2>2, Zenon
  <2> QED
    BY <2>3, <2>4, Zenon DEF SeqInv
<1>5. RunInv
  <2>1. Connected \in SUBSET Nets /\ Idle \in [at : {"idle", "start", "clear", "load"}, table : SUBSET Nets]
    BY DEF Nets, Idle, NoTable
  <2>2. spf = [t \in Threads |-> Idle] /\ rtable = <<Connected>> /\ overlapped = FALSE
    BY DEF mospf_init
  <2>3. \A t \in Threads : spf[t] = Idle /\ spf[t].at = "idle"
    BY <2>2 DEF Idle
  <2>4. "packet" \in Threads
    BY DEF Threads
  <2>5. Announced(rtable[1], mospf_db) /\ Len(rtable) = 1 /\ rtable # <<>> /\ rtable \in Seq(SUBSET Nets)
    BY <2>1, <2>2 DEF Announced
  <2> QED
    BY <2>1, <2>2, <2>3, <2>4, <2>5 DEF RunInv, Busy
<1> QED
  BY <1>1, <1>2, <1>3, <1>4, <1>5 DEF Inv

\* An LSU under the current number, with the lock held.
LEMMA SendKeeps ==
  ASSUME SeqInv, NEW nbr, Copies(nbr) \in Nat, send_mospf_lsu(nbr), UNCHANGED lsu
  PROVE  SeqInv'
<1> DEFINE c == Copies(nbr)
           lsa == generate_mospf_lsu(nbr)
<1>1. /\ sequence_num + c <= MaxSeq /\ sequence_num' = sequence_num + c
      /\ c = 0 => issued' = issued /\ reused' = reused
      /\ c # 0 => issued' = [seq |-> sequence_num, lsa |-> lsa]
                  /\ reused' = (reused \/ (issued.seq = sequence_num /\ issued.lsa # lsa))
      /\ raced' = (raced \/ (lsu.at = "send" /\ c > 0))
  BY DEF send_mospf_lsu, Issue
<1>2. MaxSeq \in Nat /\ c \in Nat /\ sequence_num \in Nat /\ sequence_num <= MaxSeq
  BY MospfAssumption DEF SeqInv
<1> HIDE DEF c, lsa
<1>3. issued.seq # sequence_num
  BY <1>2 DEF SeqInv
<1>4. reused' = reused
  BY <1>1, <1>3, Zenon DEF SeqInv
<1>5. raced => raced'
  BY <1>1
<1>6. lsu.at = "send" /\ c # 0 => raced'
  <2>1. c # 0 => c > 0
    BY <1>2
  <2> QED
    BY <1>1, <2>1, Zenon
<1>7. c # 0 => issued'.seq = sequence_num
  BY <1>1
<1>8. sequence_num' \in 0..MaxSeq
  BY <1>1, <1>2
<1>9. issued'.seq \in Nat /\ (issued'.seq < sequence_num' \/ issued'.seq = MaxSeq + 1)
  BY <1>1, <1>2, <1>7 DEF SeqInv
<1>10. raced' \in BOOLEAN
  BY <1>1, Zenon
<1>11. lsu'.at = "send" => lsu'.seq \in 0..sequence_num' /\ (raced' \/ lsu'.seq # issued'.seq)
  <2> SUFFICES ASSUME lsu.at = "send" PROVE lsu.seq \in 0..sequence_num' /\ (raced' \/ lsu.seq # issued'.seq)
    OBVIOUS
  <2>1. lsu.seq \in 0..sequence_num'
    BY <1>1, <1>2 DEF SeqInv
  <2>2. CASE c # 0
    BY <1>6, <2>1, <2>2
  <2>3. CASE c = 0
    BY <1>1, <1>5, <2>1, <2>3 DEF SeqInv
  <2> QED
    BY <2>2, <2>3
<1> QED
  BY <1>4, <1>5, <1>8, <1>9, <1>10, <1>11 DEF SeqInv

\* Nothing is sent.
LEMMA QuietKeeps ==
  ASSUME SeqInv, UNCHANGED <<sequence_num, issued, reused, raced, lsu>> PROVE SeqInv'
BY DEF SeqInv

\* The neighbours can be counted.
LEMMA NbrsCount == ASSUME NbrInv PROVE Copies(nbr_list) \in Nat
BY CopiesNat DEF NbrInv

\* The LSU timer.
LEMMA LsuTimerKeeps == ASSUME Inv, sending_mospf_lsu_thread PROVE Inv'
<1>1. NbrInv' /\ DbInv' /\ RunInv'
  BY DEF Inv, sending_mospf_lsu_thread, NbrInv, DbInv, RunInv, Announced
<1>2. TimerInv'
  BY MospfAssumption DEF Inv, sending_mospf_lsu_thread, TimerInv
<1>3. SeqInv'
  <2>1. CASE lsuint - 1 <= 0
    BY <2>1, SendKeeps, NbrsCount DEF Inv, sending_mospf_lsu_thread
  <2>2. CASE ~(lsuint - 1 <= 0)
    BY <2>2, QuietKeeps DEF Inv, sending_mospf_lsu_thread
  <2> QED
    BY <2>1, <2>2
<1> QED
  BY <1>1, <1>2, <1>3 DEF Inv

\* The hello timer.
LEMMA HelloTimerKeeps == ASSUME Inv, sending_mospf_hello_thread PROVE Inv'
<1>1. NbrInv' /\ DbInv' /\ RunInv' /\ SeqInv'
  BY DEF Inv, sending_mospf_hello_thread, NbrInv, DbInv, RunInv, Announced, SeqInv
<1>2. TimerInv'
  BY MospfAssumption DEF Inv, sending_mospf_hello_thread, TimerInv
<1> QED
  BY <1>1, <1>2 DEF Inv

\* A hello.
LEMMA HelloKeeps ==
  ASSUME Inv, NEW i \in Ifaces, NEW r \in Peers[i], handle_mospf_hello(i, r) PROVE Inv'
<1> DEFINE s == nbr_list[i]
           at == {k \in DOMAIN s : s[k].nbr_id = r}
           alive == MOSPF_DATABASE_TIMEOUT
<1>0. alive \in 0..MOSPF_DATABASE_TIMEOUT /\ s \in Seq(Nbr(i)) /\ NbrsOnce(s)
  BY MospfAssumption DEF Inv, NbrInv
<1>1. DbInv' /\ RunInv' /\ TimerInv'
  BY DEF Inv, handle_mospf_hello, DbInv, RunInv, Announced, TimerInv
<1>2. CASE at # {}
  <2>1. nbr_list' = [nbr_list EXCEPT ![i][Min(at)].alive = alive]
        /\ UNCHANGED <<sequence_num, issued, reused, raced, lsu>>
    BY <1>2 DEF handle_mospf_hello
  <2>2. Min(at) \in DOMAIN s
    <3>1. at \subseteq Nat
      BY <1>0
    <3> HIDE DEF s
    <3>2. Min(at) \in at
      <4> HIDE DEF at
      <4> QED
        BY <1>2, <3>1, MinIs
    <3> QED
      BY <3>2
  <2> DEFINE m == Min(at)
             t == [s EXCEPT ![m].alive = alive]
  <2>3. nbr_list' = [nbr_list EXCEPT ![i] = t]
    BY <2>1
  <2>4. t \in Seq(Nbr(i)) /\ NbrsOnce(t)
    <3> HIDE DEF s, m, alive
    <3> DEFINE e == [s[m] EXCEPT !.alive = alive]
    <3>0. m \in DOMAIN s /\ e \in Nbr(i) /\ e.nbr_id = s[m].nbr_id
      <4>1. m \in DOMAIN s
        BY <2>2 DEF m
      <4>2. s[m] \in Nbr(i)
        BY <1>0, <4>1
      <4> QED
        BY <1>0, <4>1, <4>2 DEF Nbr
    <3>1. t = [s EXCEPT ![m] = e]
      OBVIOUS
    <3> HIDE DEF t, e
    <3>2. t \in Seq(Nbr(i)) /\ DOMAIN t = DOMAIN s /\ \A k \in DOMAIN s : t[k] = IF k = m THEN e ELSE s[k]
      BY <1>0, <3>0, <3>1, OneElement
    <3> HIDE DEF t
    <3> QED
      BY <1>0, <3>0, <3>2 DEF NbrsOnce
  <2>5. NbrInv'
    <3> HIDE DEF t
    <3> QED
      BY <2>3, <2>4 DEF Inv, NbrInv
  <2>6. SeqInv'
    BY <2>1, QuietKeeps DEF Inv
  <2> QED
    BY <1>1, <2>5, <2>6 DEF Inv
<1>3. CASE at = {}
  <2> DEFINE new == [nbr_id |-> r, alive |-> alive]
             t == Append(s, new)
  <2>1. nbr_list' = [nbr_list EXCEPT ![i] = t] /\ send_mospf_lsu(nbr_list') /\ UNCHANGED lsu
    BY <1>3 DEF handle_mospf_hello
  <2>2. t \in Seq(Nbr(i)) /\ NbrsOnce(t)
    <3>1. new \in Nbr(i) /\ \A k \in DOMAIN s : s[k].nbr_id # new.nbr_id
      BY <1>0, <1>3 DEF Nbr
    <3> HIDE DEF s, new
    <3> QED
      BY <1>0, <3>1 DEF NbrsOnce
  <2>3. NbrInv'
    <3> HIDE DEF t
    <3> QED
      BY <2>1, <2>2 DEF Inv, NbrInv
  <2>4. Copies(nbr_list') \in Nat
    BY <2>3, CopiesNat DEF NbrInv
  <2>5. SeqInv'
    <3> HIDE DEF t
    <3> QED
      BY <2>1, <2>4, SendKeeps DEF Inv
  <2> QED
    BY <1>1, <2>3, <2>5 DEF Inv
<1> QED
  BY <1>2, <1>3

\* The neighbours after a second.
LEMMA OlderNbrs ==
  ASSUME NEW i \in Ifaces, NEW s \in Seq(Nbr(i)), NbrsOnce(s)
  PROVE  Older(Living(s)) \in Seq(Nbr(i)) /\ NbrsOnce(Older(Living(s)))
<1> DEFINE S == {e \in Range(s) : e.alive > 0}
           v == Living(s)
           w == Older(v)
<1>0. Living(s) = Kept(s, S)
  BY DEF Living
<1>1. v \in Seq(Nbr(i)) /\ KeptOf(v, s, S, Len(s))
  <2> HIDE DEF S
  <2> QED
    BY <1>0, KeptIs
<1> HIDE DEF v
<1>2. ASSUME NEW k \in DOMAIN v
      PROVE  /\ v[k] \in Nbr(i) /\ v[k].alive > 0
             /\ [v[k] EXCEPT !.alive = @ - 1] \in Nbr(i)
             /\ [v[k] EXCEPT !.alive = @ - 1].nbr_id = v[k].nbr_id
  <2>1. v[k] \in Nbr(i) /\ v[k] \in S
    <3> HIDE DEF S
    <3>1. k \in 1..Len(v) /\ v[k] \in Nbr(i)
      BY <1>1
    <3>2. \A a \in 1..Len(v) : v[a] \in S
      BY <1>1 DEF KeptOf
    <3> QED
      BY <3>1, <3>2
  <2>2. v[k].alive > 0
    BY <2>1
  <2> DEFINE x == v[k]
  <2>3. x.nbr_id \in Peers[i] /\ x.alive - 1 \in 0..MOSPF_DATABASE_TIMEOUT /\ x \in Nbr(i)
    BY <2>1, <2>2, MospfAssumption DEF Nbr
  <2> HIDE DEF x
  <2>4. [x EXCEPT !.alive = x.alive - 1] \in Nbr(i) /\ [x EXCEPT !.alive = x.alive - 1].nbr_id = x.nbr_id
    BY <2>3 DEF Nbr
  <2> QED
    BY <2>1, <2>2, <2>4 DEF x
<1>3. w = [k \in DOMAIN v |-> [v[k] EXCEPT !.alive = @ - 1]]
  BY DEF Older
<1> HIDE DEF w
<1>4. w \in Seq(Nbr(i)) /\ DOMAIN w = DOMAIN v
  <2>1. DOMAIN v = 1..Len(v) /\ Len(v) \in Nat
    BY <1>1
  <2>2. w \in [1..Len(v) -> Nbr(i)]
    BY <1>2, <1>3, <2>1
  <2> QED
    BY <2>1, <2>2
<1>5. \A k \in DOMAIN w : w[k].nbr_id = v[k].nbr_id
  BY <1>2, <1>3, <1>4
<1>6. ASSUME NEW a \in DOMAIN v, NEW b \in DOMAIN v, v[a].nbr_id = v[b].nbr_id PROVE a = b
  <2>1. a \in 1..Len(v) /\ b \in 1..Len(v)
    BY <1>1
  <2>2. PICK j \in 1..Len(s), k \in 1..Len(s) : v[a] = s[j] /\ v[b] = s[k] /\ Ordered(a, b, j, k)
    BY <1>1, <2>1 DEF KeptOf
  <2>3. j \in DOMAIN s /\ k \in DOMAIN s
    OBVIOUS
  <2> QED
    BY <1>6, <2>1, <2>2, <2>3 DEF NbrsOnce, Ordered
<1>7. NbrsOnce(w)
  BY <1>4, <1>5, <1>6 DEF NbrsOnce
<1> QED
  BY <1>4, <1>7 DEF w, v

\* The neighbour check.
LEMMA CheckNbrsKeeps == ASSUME Inv, CheckNbrs PROVE Inv'
<1>1. DbInv' /\ RunInv' /\ TimerInv'
  BY DEF Inv, CheckNbrs, DbInv, RunInv, Announced, TimerInv
<1>2. NbrInv'
  <2>1. nbr_list' = [i \in Ifaces |-> Older(Living(nbr_list[i]))]
    BY DEF CheckNbrs
  <2>2. \A i \in Ifaces : nbr_list'[i] \in Seq(Nbr(i)) /\ NbrsOnce(nbr_list'[i])
    BY <2>1, OlderNbrs DEF Inv, NbrInv
  <2> QED
    BY <2>1, <2>2 DEF NbrInv
<1>3. SeqInv'
  <2>1. lsu'.at \in {"idle", "build"} /\ UNCHANGED <<sequence_num, issued, reused, raced>>
    BY DEF CheckNbrs, NoLsu
  <2> QED
    BY <2>1 DEF Inv, SeqInv
<1> QED
  BY <1>1, <1>2, <1>3 DEF Inv

\* The LSU of the neighbour check is built.
LEMMA BuildKeeps == ASSUME Inv, BuildLsu PROVE Inv'
<1>1. DbInv' /\ RunInv' /\ TimerInv' /\ NbrInv'
  BY DEF Inv, BuildLsu, DbInv, RunInv, Announced, TimerInv, NbrInv
<1>2. SeqInv'
  <2>1. lsu'.at = "send" /\ lsu'.seq = sequence_num /\ UNCHANGED <<sequence_num, issued, reused, raced>>
    BY DEF BuildLsu
  <2>2. sequence_num \in 0..sequence_num /\ sequence_num # issued.seq
    BY MospfAssumption DEF Inv, SeqInv
  <2> QED
    BY <2>1, <2>2 DEF Inv, SeqInv
<1> QED
  BY <1>1, <1>2 DEF Inv

\* ... and sent.
LEMMA SendLsuKeeps == ASSUME Inv, SendLsu PROVE Inv'
<1>1. DbInv' /\ RunInv' /\ TimerInv' /\ NbrInv'
  BY DEF Inv, SendLsu, DbInv, RunInv, Announced, TimerInv, NbrInv
<1> DEFINE c == Copies(nbr_list)
<1>2. /\ sequence_num + c <= MaxSeq /\ sequence_num' = sequence_num + c
      /\ c = 0 => issued' = issued /\ reused' = reused
      /\ c # 0 => issued' = [seq |-> lsu.seq, lsa |-> lsu.lsa]
                  /\ reused' = (reused \/ (issued.seq = lsu.seq /\ issued.lsa # lsu.lsa))
      /\ lsu'.at = "idle" /\ raced' = raced
  BY DEF SendLsu, Issue, NoLsu
<1>3. c \in Nat
  BY NbrsCount DEF Inv
<1> HIDE DEF c
<1>4. MaxSeq \in Nat /\ sequence_num \in 0..MaxSeq /\ lsu.seq \in 0..sequence_num /\ (raced \/ lsu.seq # issued.seq)
  BY MospfAssumption DEF Inv, SeqInv, SendLsu
<1>5. reused' \in BOOLEAN /\ (reused' => raced')
  <2>1. reused \in BOOLEAN /\ raced \in BOOLEAN /\ (reused => raced)
    BY DEF Inv, SeqInv
  <2>2. CASE c = 0
    <3>1. reused' = reused /\ raced' = raced
      BY <1>2, <2>2
    <3> QED
      BY <2>1, <3>1
  <2>3. CASE c # 0
    <3>1. reused' <=> (reused \/ (issued.seq = lsu.seq /\ issued.lsa # lsu.lsa))
      BY <1>2, <2>3, Zenon
    <3>2. reused' \in BOOLEAN
      BY <1>2, <2>3, Zenon
    <3>3. reused' => raced
      BY <1>4, <2>1, <3>1
    <3> QED
      BY <1>2, <3>2, <3>3, Zenon
  <2> QED
    BY <2>2, <2>3
<1>6. c # 0 => issued'.seq = lsu.seq
  BY <1>2
<1>7. issued'.seq \in Nat /\ (issued'.seq < sequence_num' \/ issued'.seq = MaxSeq + 1)
  BY <1>2, <1>3, <1>4, <1>6 DEF Inv, SeqInv
<1>8. SeqInv'
  <2>1. sequence_num' \in 0..MaxSeq
    BY <1>2, <1>3, <1>4
  <2> QED
    BY <1>2, <1>5, <1>7, <2>1 DEF SeqInv, Inv
<1> QED
  BY <1>1, <1>8 DEF Inv

\* A computed table has the connected networks and such as the database announces.
LEMMA RoutesAnnounced ==
  ASSUME NEW nbrs, NEW db
  PROVE  Connected \subseteq DOMAIN Routes(me, nbrs, db, Connected)
         /\ Announced(DOMAIN Routes(me, nbrs, db, Connected), db)
<1> DEFINE pre == Predecessors(me, nbrs, db)
           hop == [i \in DOMAIN db |-> FirstHop(me, pre, db[i].rid)]
           offers(n) == {i \in DOMAIN db : /\ db[i].rid # me
                                           /\ \E l \in db[i].lsa : l.network = n
                                           /\ InSeq(hop[i], nbrs)}
           learned == {n \in UNION {{l.network : l \in db[i].lsa} : i \in DOMAIN db} : offers(n) # {}}
           table == [n \in Connected \cup learned |-> IF n \in Connected THEN Direct ELSE hop[Min(offers(n))]]
<1>1. Routes(me, nbrs, db, Connected) = table
  BY Zenon DEF Routes
<1>2. learned \subseteq Networks(db)
  <2> HIDE DEF offers
  <2> QED
    BY DEF Networks
<1>3. DOMAIN table = Connected \cup learned
  <2> HIDE DEF learned
  <2> QED
    OBVIOUS
<1> HIDE DEF table, learned
<1> QED
  BY <1>1, <1>2, <1>3 DEF Announced

\* The networks of the database are networks.
LEMMA NetworksTyped ==
  ASSUME NEW db \in Seq(Entry), NEW table, Announced(table, db) PROVE table \in SUBSET Nets
<1> SUFFICES ASSUME NEW n \in table, n \notin Connected PROVE n \in Nets
  BY DEF Nets
<1>1. PICK k \in DOMAIN db : \E l \in db[k].lsa : l.network = n
  BY AnnouncedMeans
<1>2. db[k] \in Entry
  OBVIOUS
<1>3. PICK m \in Lsus : db[k].lsa = m.lsa
  BY <1>2 DEF Entry
<1> QED
  BY <1>1, <1>3 DEF Nets

\* The two threads.
LEMMA TwoThreads ==
  /\ "packet" \in Threads /\ "database" \in Threads
  /\ Other("packet") = "database" /\ Other("database") = "packet"
  /\ \A t \in Threads : t = "packet" \/ t = "database"
<1>1. \A t \in Threads : t = "packet" \/ t = "database"
  BY DEF Threads
<1>2. "packet" \in Threads /\ "database" \in Threads
  BY DEF Threads
<1>3. Other("packet") = "database" /\ Other("database") = "packet"
  <2>1. \E o \in Threads : o # "packet"
    BY <1>2
  <2>2. \E o \in Threads : o # "database"
    BY <1>2
  <2>3. Other("packet") \in Threads /\ Other("packet") # "packet"
    BY <2>1, Zenon DEF Other
  <2>4. Other("database") \in Threads /\ Other("database") # "database"
    BY <2>2, Zenon DEF Other
  <2> QED
    BY <1>1, <2>3, <2>4
<1> QED
  BY <1>1, <1>2, <1>3

\* Where a run may be.
Runs == [at : {"idle", "start", "clear", "load"}, table : SUBSET Nets]

\* spf_run computes a table over the database as it is after the step.
LEMMA ComputeKeeps ==
  ASSUME RunInv, NEW t \in Threads, DbInv', Compute(t, mospf_db'), UNCHANGED rtable,
         spf[t].at \in {"idle", "start"}
  PROVE  RunInv'
<1> DEFINE table == DOMAIN Routes(me, Nbrs, mospf_db', Connected)
           o == Other(t)
<1>1. Announced(table, mospf_db')
  BY RoutesAnnounced
<1>2. table \in SUBSET Nets
  <2> HIDE DEF table
  <2> QED
    BY <1>1, NetworksTyped DEF DbInv
<1>3. spf' = [spf EXCEPT ![t] = [at |-> "clear", table |-> table]] /\ overlapped' = (spf[o].at \in Busy)
  BY DEF Compute, Busy
<1>4. o \in Threads /\ o # t /\ \A u \in Threads : u = t \/ u = o
  BY TwoThreads
<1> HIDE DEF table, o
<1>5. spf' \in [Threads -> Runs] /\ spf'[t].at = "clear" /\ spf'[t].table = table /\ spf'[o] = spf[o]
  BY <1>2, <1>3, <1>4 DEF RunInv, Runs
<1>6. overlapped' \in BOOLEAN /\ (overlapped' <=> spf[o].at \in Busy)
  <2>1. overlapped' = (spf[o].at \in Busy)
    BY <1>3
  <2>2. overlapped' <=> spf[o].at \in Busy
    BY <2>1
  <2>3. overlapped' \in BOOLEAN
    BY <2>1
  <2> QED
    BY <2>2, <2>3, Zenon
<1>7. spf'["packet"].at # "start"
  BY <1>4, <1>5, TwoThreads DEF RunInv
<1>8. \A u \in Threads : spf'[u].at = "idle" => spf'[u] = Idle
  BY <1>4, <1>5 DEF RunInv
<1>9. (\A u \in Threads : spf'[u].at # "load") => rtable' # <<>>
  BY <1>4, <1>5 DEF RunInv
<1>10. \A u \in Threads : spf'[u].at = "load" /\ ~overlapped' => rtable' = <<>>
  BY <1>4, <1>5, <1>6 DEF Busy
<1>11. \A u \in Threads : spf'[u].at \in Busy /\ ~overlapped' => Announced(spf'[u].table, mospf_db')
  BY <1>1, <1>4, <1>5, <1>6
<1>12. (\A u \in Threads : spf'[u].at \in Busy) => overlapped'
  BY <1>4, <1>5, <1>6
<1>13. rtable' \in Seq(SUBSET Nets)
  BY DEF RunInv
<1>14. ~(\A u \in Threads : spf'[u].at = "idle")
  BY <1>5
<1> QED
  BY <1>5, <1>6, <1>7, <1>8, <1>9, <1>10, <1>11, <1>12, <1>13, <1>14 DEF RunInv, Runs

\* No run starts or goes on, and the database announces what it did.
LEMMA RestKeeps ==
  ASSUME RunInv, UNCHANGED <<spf, rtable, overlapped>>,
         \A table : Announced(table, mospf_db) => Announced(table, mospf_db')
  PROVE  RunInv'
<1>1. \A u \in Threads : spf'[u].at \in Busy /\ ~overlapped' => Announced(spf'[u].table, mospf_db')
  BY DEF RunInv
<1>2. (\A u \in Threads : spf'[u].at = "idle") /\ ~overlapped' => Len(rtable') = 1 /\ Announced(rtable'[1], mospf_db')
  BY DEF RunInv
<1> HIDE DEF Announced
<1> QED
  BY <1>1, <1>2 DEF RunInv

\* A list of entries with the LSAs of another announces the same.
LEMMA SameLsas ==
  ASSUME NEW d, NEW e, DOMAIN d = DOMAIN e, \A k \in DOMAIN d : d[k].lsa = e[k].lsa,
         NEW table, Announced(table, d)
  PROVE  Announced(table, e)
<1>1. Networks(d) = Networks(e)
  BY DEF Networks
<1> QED
  BY <1>1 DEF Announced

\* An LSU.
LEMMA LsuKeeps == ASSUME Inv, NEW m \in Lsus, handle_mospf_lsu(m) PROVE Inv'
<1> DEFINE at == {k \in DOMAIN mospf_db : mospf_db[k].rid = m.rid}
           entry == [rid |-> m.rid, seq |-> m.seq, alive |-> MOSPF_DATABASE_TIMEOUT, lsa |-> m.lsa]
           db == mospf_db
<1>1. NbrInv' /\ TimerInv' /\ SeqInv'
  BY DEF Inv, handle_mospf_lsu, NbrInv, TimerInv, SeqInv
<1>2. entry \in Entry /\ entry.rid = m.rid /\ db \in Seq(Entry) /\ EntriesOnce(db)
      /\ MOSPF_DATABASE_TIMEOUT \in 1..MOSPF_DATABASE_TIMEOUT
  BY MospfAssumption DEF Entry, Inv, DbInv
<1>3. at # {} => Min(at) \in DOMAIN db /\ db[Min(at)].rid = m.rid
  <2> SUFFICES ASSUME at # {} PROVE Min(at) \in at
    OBVIOUS
  <2>1. at \subseteq Nat
    BY <1>2
  <2> HIDE DEF at
  <2> QED
    BY <2>1, MinIs
<1> DEFINE mm == Min(at)
<1>4. spf["packet"].at = "idle" /\ UNCHANGED rtable
  BY DEF handle_mospf_lsu, Unlocked, Idle
<1>5. CASE Newer(m, at)
  <2>1. mospf_db' = IF at = {} THEN Append(db, entry) ELSE [db EXCEPT ![mm] = entry]
    BY <1>5 DEF handle_mospf_lsu
  <2>2. Compute("packet", mospf_db')
    BY <1>5 DEF handle_mospf_lsu
  <2>3. DbInv'
    <3>1. CASE at = {}
      <4>1. mospf_db' = Append(db, entry) /\ \A k \in DOMAIN db : db[k].rid # entry.rid
        BY <1>2, <2>1, <3>1
      <4> HIDE DEF entry, db
      <4> QED
        BY <1>2, <4>1 DEF DbInv, EntriesOnce
    <3>2. CASE at # {}
      <4>1. mm \in DOMAIN db /\ db[mm].rid = m.rid
        BY <1>3, <3>2
      <4>2. mospf_db' = [db EXCEPT ![mm] = entry]
        BY <2>1, <3>2
      <4> HIDE DEF mm, entry, db
      <4>3. mospf_db' \in Seq(Entry) /\ DOMAIN mospf_db' = DOMAIN db
            /\ \A k \in DOMAIN db : mospf_db'[k] = IF k = mm THEN entry ELSE db[k]
        BY <1>2, <4>1, <4>2, OneElement
      <4>4. \A k \in DOMAIN db : mospf_db'[k].rid = db[k].rid
        BY <1>2, <4>1, <4>3
      <4> QED
        BY <1>2, <4>3, <4>4 DEF DbInv, EntriesOnce
    <3> QED
      BY <3>1, <3>2
  <2>4. RunInv'
    BY <1>4, <2>2, <2>3, TwoThreads, ComputeKeeps DEF Inv
  <2> QED
    BY <1>1, <2>3, <2>4 DEF Inv
<1>6. CASE ~Newer(m, at)
  <2>1. at # {}
    BY <1>6 DEF Newer
  <2>2. mospf_db' = [db EXCEPT ![mm].alive = MOSPF_DATABASE_TIMEOUT] /\ UNCHANGED <<spf, overlapped>>
    BY <1>6 DEF handle_mospf_lsu
  <2>3. mm \in DOMAIN db
    BY <1>3, <2>1
  <2> DEFINE e == [db[mm] EXCEPT !.alive = MOSPF_DATABASE_TIMEOUT]
  <2>4. e \in Entry /\ e.rid = db[mm].rid /\ e.lsa = db[mm].lsa
    <3> DEFINE x == db[mm]
    <3>1. x \in Entry
      BY <1>2, <2>3
    <3> HIDE DEF x
    <3>2. [x EXCEPT !.alive = MOSPF_DATABASE_TIMEOUT] \in Entry
          /\ [x EXCEPT !.alive = MOSPF_DATABASE_TIMEOUT].rid = x.rid
          /\ [x EXCEPT !.alive = MOSPF_DATABASE_TIMEOUT].lsa = x.lsa
      BY <1>2, <3>1 DEF Entry
    <3> QED
      BY <3>2 DEF x
  <2>5. mospf_db' = [db EXCEPT ![mm] = e]
    BY <2>2
  <2> HIDE DEF mm, e
  <2>6. mospf_db' \in Seq(Entry) /\ DOMAIN mospf_db' = DOMAIN db
        /\ \A k \in DOMAIN db : mospf_db'[k] = IF k = mm THEN e ELSE db[k]
    BY <1>2, <2>3, <2>4, <2>5, OneElement
  <2>7. \A k \in DOMAIN db : mospf_db'[k].rid = db[k].rid /\ mospf_db'[k].lsa = db[k].lsa
    BY <2>4, <2>6
  <2>8. DbInv'
    BY <1>2, <2>6, <2>7 DEF DbInv, EntriesOnce
  <2>9. \A table : Announced(table, mospf_db) => Announced(table, mospf_db')
    BY <2>6, <2>7, SameLsas
  <2>10. RunInv'
    BY <1>4, <2>2, <2>9, RestKeeps DEF Inv
  <2> QED
    BY <1>1, <2>8, <2>10 DEF Inv
<1> QED
  BY <1>5, <1>6

\* The database after a second: no shorter means nothing but the ages changed.
LEMMA OlderDb ==
  ASSUME NEW s \in Seq(Entry), EntriesOnce(s), NEW v, v = Living(Older(s))
  PROVE  /\ v \in Seq(Entry) /\ EntriesOnce(v) /\ Len(v) <= Len(s)
         /\ Len(v) = Len(s) => \A k \in DOMAIN s : v[k].lsa = s[k].lsa
<1> DEFINE Aged == [rid : {m.rid : m \in Lsus}, seq : {m.seq : m \in Lsus},
                    alive : 0..MOSPF_DATABASE_TIMEOUT, lsa : {m.lsa : m \in Lsus}]
           w == Older(s)
           S == {e \in Range(w) : e.alive > 0}
<1>1. ASSUME NEW k \in DOMAIN s
      PROVE  /\ [s[k] EXCEPT !.alive = @ - 1] \in Aged
             /\ [s[k] EXCEPT !.alive = @ - 1].rid = s[k].rid
             /\ [s[k] EXCEPT !.alive = @ - 1].lsa = s[k].lsa
  <2> DEFINE x == s[k]
  <2>1. x \in Entry
    OBVIOUS
  <2> HIDE DEF x
  <2>2. x.alive - 1 \in 0..MOSPF_DATABASE_TIMEOUT
    BY <2>1, MospfAssumption DEF Entry
  <2>3. /\ [x EXCEPT !.alive = x.alive - 1] \in Aged
        /\ [x EXCEPT !.alive = x.alive - 1].rid = x.rid
        /\ [x EXCEPT !.alive = x.alive - 1].lsa = x.lsa
    BY <2>1, <2>2 DEF Entry
  <2> QED
    BY <2>3 DEF x
<1>2. w = [k \in DOMAIN s |-> [s[k] EXCEPT !.alive = @ - 1]]
  BY DEF Older
<1>3. v = Kept(w, S)
  BY DEF Living
<1> HIDE DEF w
<1>4. w \in Seq(Aged) /\ DOMAIN w = DOMAIN s /\ Len(w) = Len(s)
      /\ \A k \in DOMAIN s : w[k].rid = s[k].rid /\ w[k].lsa = s[k].lsa
  <2> HIDE DEF Aged
  <2>1. DOMAIN s = 1..Len(s) /\ Len(s) \in Nat
    OBVIOUS
  <2>2. w \in [1..Len(s) -> Aged]
    BY <1>1, <1>2, <2>1
  <2>3. w \in Seq(Aged) /\ DOMAIN w = DOMAIN s /\ Len(w) = Len(s)
    BY <2>1, <2>2
  <2> QED
    BY <1>1, <1>2, <2>3
<1>5. v \in Seq(Aged) /\ KeptOf(v, w, S, Len(w))
  <2> HIDE DEF S, Aged
  <2> QED
    BY <1>3, <1>4, KeptIs
<1>6. \A a \in 1..Len(v) : v[a] \in Entry
  <2> SUFFICES ASSUME NEW a \in 1..Len(v) PROVE v[a] \in Entry
    OBVIOUS
  <2>1. v[a] \in Aged /\ v[a] \in S
    <3> HIDE DEF Aged, S
    <3> QED
      BY <1>5 DEF KeptOf
  <2>2. v[a].alive > 0
    BY <2>1
  <2> QED
    BY <2>1, <2>2, MospfAssumption DEF Entry
<1>7. v \in Seq(Entry)
  <2> HIDE DEF Aged
  <2> QED
    BY <1>5, <1>6
<1>8. ASSUME NEW a \in DOMAIN v, NEW b \in DOMAIN v, v[a].rid = v[b].rid PROVE a = b
  <2>1. a \in 1..Len(v) /\ b \in 1..Len(v)
    BY <1>7
  <2>2. PICK j \in 1..Len(w), k \in 1..Len(w) : v[a] = w[j] /\ v[b] = w[k] /\ Ordered(a, b, j, k)
    BY <1>5, <2>1 DEF KeptOf
  <2>3. j \in DOMAIN s /\ k \in DOMAIN s
    BY <1>4
  <2>4. s[j].rid = s[k].rid
    BY <1>4, <1>8, <2>2, <2>3
  <2> QED
    BY <2>1, <2>2, <2>3, <2>4 DEF EntriesOnce, Ordered
<1>9. EntriesOnce(v)
  BY <1>8 DEF EntriesOnce
<1>10. Len(v) <= Len(s)
  BY <1>4, <1>5 DEF KeptOf
<1>11. Len(v) = Len(s) => \A k \in DOMAIN s : v[k].lsa = s[k].lsa
  <2> HIDE DEF Aged, S
  <2> SUFFICES ASSUME Len(v) = Len(s), NEW k \in DOMAIN s PROVE v[k].lsa = s[k].lsa
    OBVIOUS
  <2>1. k \in 1..Len(w)
    BY <1>4
  <2>2. v[k] = w[k]
    BY <1>4, <1>5, <2>1 DEF KeptOf
  <2> QED
    BY <1>4, <2>2
<1> QED
  BY <1>7, <1>9, <1>10, <1>11

\* The database check.
LEMMA CheckDbKeeps == ASSUME Inv, CheckDb PROVE Inv'
<1> DEFINE kept == Living(Older(mospf_db))
<1>1. NbrInv' /\ TimerInv' /\ SeqInv'
  BY DEF Inv, CheckDb, NbrInv, TimerInv, SeqInv
<1>2. mospf_db \in Seq(Entry) /\ EntriesOnce(mospf_db) /\ RunInv
  BY DEF Inv, DbInv
<1>3. /\ kept \in Seq(Entry) /\ EntriesOnce(kept) /\ Len(kept) <= Len(mospf_db)
      /\ Len(kept) = Len(mospf_db) => \A k \in DOMAIN mospf_db : kept[k].lsa = mospf_db[k].lsa
  BY <1>2, OlderDb
<1>4. /\ mospf_db' = kept /\ UNCHANGED <<rtable, overlapped>>
      /\ spf' = IF Len(kept) < Len(mospf_db) THEN [spf EXCEPT !["database"].at = "start"] ELSE spf
  BY DEF CheckDb
<1>5. \A t \in Threads : spf[t] = Idle /\ spf[t].at = "idle"
  BY TwoThreads DEF CheckDb, Unlocked, Idle
<1> HIDE DEF kept
<1>6. DbInv'
  BY <1>3, <1>4 DEF DbInv
<1>7. CASE Len(kept) = Len(mospf_db)
  <2>1. DOMAIN kept = DOMAIN mospf_db
    BY <1>2, <1>3, <1>7
  <2>2. \A table : Announced(table, mospf_db) => Announced(table, mospf_db')
    BY <1>3, <1>4, <1>7, <2>1, SameLsas
  <2>3. UNCHANGED <<spf, rtable, overlapped>>
    BY <1>4, <1>7
  <2>4. RunInv'
    BY <1>2, <2>2, <2>3, RestKeeps
  <2> QED
    BY <1>1, <1>6, <2>4 DEF Inv
<1>8. CASE Len(kept) # Len(mospf_db)
  <2>1. spf' = [spf EXCEPT !["database"].at = "start"]
    BY <1>2, <1>3, <1>4, <1>8
  <2>2. spf' \in [Threads -> Runs] /\ spf'["database"].at = "start" /\ spf'["packet"] = Idle
    BY <1>2, <1>5, <2>1, TwoThreads DEF RunInv, Runs
  <2>3. \A t \in Threads : spf'[t].at \notin Busy /\ spf'[t].at # "load"
    BY <1>5, <2>2, TwoThreads DEF Busy, Idle
  <2>4. \A t \in Threads : spf'[t].at = "idle" => spf'[t] = Idle
    BY <2>2, TwoThreads
  <2>5. rtable' # <<>> /\ rtable' \in Seq(SUBSET Nets) /\ overlapped' \in BOOLEAN
    BY <1>2, <1>4, <1>5 DEF RunInv
  <2>6. spf'["packet"].at # "start" /\ ~(\A t \in Threads : spf'[t].at = "idle")
    BY <2>2, TwoThreads DEF Idle
  <2>7. ~(\A t \in Threads : spf'[t].at \in Busy)
    BY <2>3, TwoThreads
  <2>8. RunInv'
    BY <2>2, <2>3, <2>4, <2>5, <2>6, <2>7 DEF RunInv, Runs
  <2> QED
    BY <1>1, <1>6, <2>8 DEF Inv
<1> QED
  BY <1>7, <1>8

\* The database check's spf_run starts.
LEMMA ComputeUnlockedKeeps == ASSUME Inv, ComputeUnlocked PROVE Inv'
<1>1. NbrInv' /\ TimerInv' /\ SeqInv' /\ DbInv'
  BY DEF Inv, ComputeUnlocked, NbrInv, TimerInv, SeqInv, DbInv
<1>2. Compute("database", mospf_db') /\ spf["database"].at = "start" /\ UNCHANGED rtable
  BY DEF ComputeUnlocked
<1>3. RunInv'
  BY <1>1, <1>2, TwoThreads, ComputeKeeps DEF Inv
<1> QED
  BY <1>1, <1>3 DEF Inv

\* The old table is freed.
LEMMA ClearKeeps == ASSUME Inv, NEW t \in Threads, clear_rtable(t) PROVE Inv'
<1> DEFINE o == Other(t)
<1>1. NbrInv' /\ TimerInv' /\ SeqInv' /\ DbInv'
  BY DEF Inv, clear_rtable, NbrInv, TimerInv, SeqInv, DbInv
<1>2. o \in Threads /\ o # t /\ \A u \in Threads : u = t \/ u = o
  BY TwoThreads
<1>3. /\ spf[t].at = "clear" /\ rtable' = <<>> /\ spf' = [spf EXCEPT ![t].at = "load"]
      /\ overlapped' = (overlapped \/ spf[o].at \in Busy) /\ mospf_db' = mospf_db
  BY DEF clear_rtable, Busy
<1> HIDE DEF o
<1>4. /\ spf' \in [Threads -> Runs] /\ spf'[t].at = "load" /\ spf'[t].table = spf[t].table
      /\ spf'[o] = spf[o]
  BY <1>2, <1>3 DEF Inv, RunInv, Runs
<1>5. overlapped' \in BOOLEAN /\ (overlapped' <=> overlapped \/ spf[o].at \in Busy)
  <2>1. overlapped' = (overlapped \/ spf[o].at \in Busy)
    BY <1>3
  <2>2. overlapped' \in BOOLEAN
    BY <2>1
  <2>3. overlapped' <=> overlapped \/ spf[o].at \in Busy
    BY <2>1
  <2> QED
    BY <2>2, <2>3, Zenon
<1>6. spf'["packet"].at # "start"
  BY <1>2, <1>4, TwoThreads DEF Inv, RunInv
<1>7. \A u \in Threads : spf'[u].at = "idle" => spf'[u] = Idle
  BY <1>2, <1>4 DEF Inv, RunInv
<1>8. (\A u \in Threads : spf'[u].at \in Busy) => overlapped'
  BY <1>2, <1>4, <1>5
<1>9. \A u \in Threads : spf'[u].at \in Busy /\ ~overlapped' => Announced(spf'[u].table, mospf_db')
  <2> SUFFICES ASSUME NEW u \in Threads, spf'[u].at \in Busy, ~overlapped'
               PROVE  Announced(spf'[u].table, mospf_db)
    BY <1>3
  <2>1. u = t /\ ~overlapped
    BY <1>2, <1>4, <1>5
  <2>2. spf[t].at \in Busy
    BY <1>3 DEF Busy
  <2> QED
    BY <1>4, <2>1, <2>2 DEF Inv, RunInv
<1>10. ~(\A u \in Threads : spf'[u].at # "load") /\ ~(\A u \in Threads : spf'[u].at = "idle")
  BY <1>4
<1>11. rtable' = <<>> /\ rtable' \in Seq(SUBSET Nets)
  BY <1>3
<1>12. RunInv'
  BY <1>4, <1>5, <1>6, <1>7, <1>8, <1>9, <1>10, <1>11 DEF RunInv, Runs
<1> QED
  BY <1>1, <1>12 DEF Inv

\* The new table is loaded.
LEMMA LoadKeeps == ASSUME Inv, NEW t \in Threads, load_rtable(t) PROVE Inv'
<1> DEFINE o == Other(t)
           table == spf[t].table
<1>1. NbrInv' /\ TimerInv' /\ SeqInv' /\ DbInv'
  BY DEF Inv, load_rtable, NbrInv, TimerInv, SeqInv, DbInv
<1>2. o \in Threads /\ o # t /\ \A u \in Threads : u = t \/ u = o
  BY TwoThreads
<1>3. /\ spf[t].at = "load" /\ rtable' = Append(rtable, table) /\ spf' = [spf EXCEPT ![t] = Idle]
      /\ overlapped' = (overlapped \/ spf[o].at \in Busy) /\ mospf_db' = mospf_db
  BY DEF load_rtable, Busy
<1>4. table \in SUBSET Nets /\ rtable \in Seq(SUBSET Nets)
  BY DEF Inv, RunInv
<1> HIDE DEF o
<1>5. spf' \in [Threads -> Runs] /\ spf'[t] = Idle /\ spf'[t].at = "idle" /\ spf'[o] = spf[o]
  <2>1. Idle \in Runs /\ Idle.at = "idle"
    BY DEF Idle, NoTable, Runs
  <2> QED
    BY <1>2, <1>3, <2>1 DEF Inv, RunInv, Runs
<1>6. overlapped' \in BOOLEAN /\ (overlapped' <=> overlapped \/ spf[o].at \in Busy)
  <2>1. overlapped' = (overlapped \/ spf[o].at \in Busy)
    BY <1>3
  <2>2. overlapped' \in BOOLEAN
    BY <2>1
  <2>3. overlapped' <=> overlapped \/ spf[o].at \in Busy
    BY <2>1
  <2> QED
    BY <2>2, <2>3, Zenon
<1>7. spf'["packet"].at # "start"
  BY <1>2, <1>5, TwoThreads DEF Inv, RunInv
<1>8. \A u \in Threads : spf'[u].at = "idle" => spf'[u] = Idle
  BY <1>2, <1>5 DEF Inv, RunInv
<1>9. \A u \in Threads : spf'[u].at \in Busy => u = o /\ overlapped'
  BY <1>2, <1>5, <1>6 DEF Busy
<1>10. \A u \in Threads : spf'[u].at = "load" => spf'[u].at \in Busy
  BY DEF Busy
<1> HIDE DEF table
<1>11. rtable' # <<>> /\ rtable' \in Seq(SUBSET Nets)
  BY <1>3, <1>4
<1>12. ~overlapped' => Len(rtable') = 1 /\ Announced(rtable'[1], mospf_db')
  <2> SUFFICES ASSUME ~overlapped' PROVE Len(rtable') = 1 /\ Announced(rtable'[1], mospf_db')
    OBVIOUS
  <2>1. ~overlapped /\ spf[t].at \in Busy
    BY <1>3, <1>6 DEF Busy
  <2>2. rtable = <<>> /\ Announced(table, mospf_db)
    BY <1>3, <2>1 DEF Inv, RunInv, table
  <2> QED
    BY <1>3, <1>4, <2>2
<1>13. RunInv'
  BY <1>2, <1>5, <1>6, <1>7, <1>8, <1>9, <1>10, <1>11, <1>12 DEF RunInv, Runs
<1> QED
  BY <1>1, <1>13 DEF Inv

\* Every step keeps the invariant.
LEMMA StepInv == ASSUME Inv, [Next]_vars PROVE Inv'
<1>1. CASE UNCHANGED vars
  BY <1>1 DEF vars, Inv, NbrInv, DbInv, TimerInv, SeqInv, RunInv, Announced
<1>2. CASE Next
  BY <1>2, HelloTimerKeeps, LsuTimerKeeps, HelloKeeps, CheckNbrsKeeps, BuildKeeps, SendLsuKeeps,
     LsuKeeps, CheckDbKeeps, ComputeUnlockedKeeps, ClearKeeps, LoadKeeps DEF Next
<1> QED
  BY <1>1, <1>2

-----------------------------------------------------------------------------
(***************************************************************************)
(* The shortest paths.  The loop of mospf_dijkstra keeps, for any database *)
(* and neighbours: visited nodes are nearer than the others and have their *)
(* links relaxed, and the predecessors form a tree of paths whose lengths  *)
(* are the costs.                                                          *)
(***************************************************************************)

\* The nodes of the graph.
Nodes(self, nbrs, db) == Rids(db) \cup {self} \cup {nbrs[i] : i \in DOMAIN nbrs}

\* The list has the nodes, and no others.
Lists(order, nodes) == order \in Seq(nodes) /\ nodes = {order[i] : i \in DOMAIN order}

\* The states of the loop; inf is the cost of a node that is not reached.
SpfStates(nodes, inf) ==
  [cost : [nodes -> 0..inf], pre : [nodes -> nodes \cup {NoRouter}], visited : SUBSET nodes]

\* What was visited is reached, and no farther than what was not.
Ranked(nodes, inf, st) ==
  /\ \A u \in st.visited : st.cost[u] < inf
  /\ \A u \in st.visited : \A v \in nodes \ st.visited : st.cost[u] <= st.cost[v]

\* The links of a visited node are taken into account.
Relaxed(db, nodes, inf, st) ==
  \A u \in st.visited : \A v \in Adjacent(u, db) \cap nodes :
    st.cost[v] <= st.cost[u] + 1 /\ st.cost[v] < inf

\* A path visits one node after the other.
Short(nodes, inf, st) ==
  \A v \in nodes : st.cost[v] < inf => st.cost[v] <= Cardinality(st.visited) + 1

\* The last link of the path to v, if there is a path.
Linked(self, nbrs, db, inf, st, v) ==
  \/ st.cost[v] = inf /\ st.pre[v] = NoRouter
  \/ st.cost[v] = 1 /\ st.pre[v] = self /\ InSeq(v, nbrs)
  \/ /\ st.pre[v] \in st.visited \ {self} /\ v \in Adjacent(st.pre[v], db)
     /\ st.cost[v] = st.cost[st.pre[v]] + 1 /\ st.cost[v] < inf

\* The predecessors form a tree with the router at its root.
Treed(self, nbrs, db, nodes, inf, st) ==
  /\ st.cost[self] = 0
  /\ \A v \in nodes \ {self} : st.cost[v] > 0 /\ Linked(self, nbrs, db, inf, st, v)
  /\ \A v \in nodes : InSeq(v, nbrs) => st.cost[v] <= 1

LoopInv(self, nbrs, db, nodes, inf, st) ==
  /\ st \in SpfStates(nodes, inf)
  /\ Ranked(nodes, inf, st) /\ Relaxed(db, nodes, inf, st)
  /\ Short(nodes, inf, st) /\ Treed(self, nbrs, db, nodes, inf, st)

\* The node a turn visits.
Nearest(u, nodes, inf, st) ==
  /\ u \in nodes \ st.visited /\ st.cost[u] < inf
  /\ \A v \in nodes \ st.visited : st.cost[u] <= st.cost[v]

\* The state when it has.
Visit(st, u, db) ==
  LET better == {v \in Adjacent(u, db) \cap DOMAIN st.cost :
                   v \notin st.visited \cup {u} /\ st.cost[u] + 1 < st.cost[v]}
  IN  [cost |-> [v \in DOMAIN st.cost |-> IF v \in better THEN st.cost[u] + 1 ELSE st.cost[v]],
       pre |-> [v \in DOMAIN st.pre |-> IF v \in better THEN u ELSE st.pre[v]],
       visited |-> st.visited \cup {u}]

\* Nothing is left to visit.
Ended(nodes, inf, st) == \A v \in nodes \ st.visited : st.cost[v] = inf

\* The loop starts with its invariant.
LEMMA StartLoop ==
  ASSUME NEW self, NEW nbrs, NEW db, NEW nodes, self \in nodes, NEW inf \in Nat, inf >= 2,
         self \notin Rids(db)
  PROVE  LoopInv(self, nbrs, db, nodes, inf, Start(self, nbrs, db, nodes, inf))
<1> DEFINE st == Start(self, nbrs, db, nodes, inf)
<1>1. /\ st.visited = {}
      /\ st.cost = [v \in nodes |-> IF v = self THEN 0 ELSE IF InSeq(v, nbrs) THEN 1 ELSE inf]
      /\ st.pre = [v \in nodes |-> IF v # self /\ InSeq(v, nbrs) THEN self ELSE NoRouter]
      /\ st \in SpfStates(nodes, inf)
  BY DEF Start, SpfStates
<1> HIDE DEF st
<1>2. Ranked(nodes, inf, st) /\ Relaxed(db, nodes, inf, st)
  BY <1>1 DEF Ranked, Relaxed
<1>3. Short(nodes, inf, st)
  BY <1>1, FS_EmptySet DEF Short
<1>4. Treed(self, nbrs, db, nodes, inf, st)
  BY <1>1 DEF Treed, Linked
<1> QED
  BY <1>1, <1>2, <1>3, <1>4 DEF LoopInv, st

\* A turn visits a nearest node, unless nothing is left.
LEMMA TurnVisits ==
  ASSUME NEW nodes, NEW order, Lists(order, nodes),
         NEW inf \in Nat, NEW st \in SpfStates(nodes, inf), NEW db
  PROVE  \/ Ended(nodes, inf, st) /\ Turn(st, order, db, inf) = st
         \/ \E u : Nearest(u, nodes, inf, st) /\ Turn(st, order, db, inf) = Visit(st, u, db)
<1> DEFINE open == {i \in DOMAIN order : order[i] \notin st.visited /\ st.cost[order[i]] < inf}
           nearest == {i \in open : \A j \in open : st.cost[order[i]] <= st.cost[order[j]]}
           u == order[Min(nearest)]
<1>0. /\ \A v \in nodes : st.cost[v] \in 0..inf
      /\ \A i \in DOMAIN order : order[i] \in nodes
      /\ \A v \in nodes : \E i \in DOMAIN order : v = order[i]
      /\ DOMAIN order \subseteq Nat
  BY DEF SpfStates, Lists
<1>1. Turn(st, order, db, inf) = IF open = {} THEN st ELSE Visit(st, u, db)
  BY Zenon DEF Turn, Visit
<1>2. CASE open = {}
  <2>1. Ended(nodes, inf, st)
    <3> SUFFICES ASSUME NEW v \in nodes \ st.visited PROVE st.cost[v] = inf
      BY DEF Ended
    <3>1. PICK i \in DOMAIN order : v = order[i]
      BY <1>0
    <3> QED
      BY <1>0, <1>2, <3>1
  <2> QED
    BY <1>1, <1>2, <2>1
<1>3. CASE open # {}
  <2> DEFINE T == {st.cost[order[i]] : i \in open}
  <2>1. T \subseteq Nat /\ T # {}
    <3>1. \A i \in open : st.cost[order[i]] \in Nat
      BY <1>0
    <3> HIDE DEF open
    <3> QED
      BY <1>3, <3>1
  <2>2. PICK c \in T : \A d \in T : c <= d
    <3> HIDE DEF T
    <3> QED
      BY <2>1, Least
  <2>3. PICK i \in open : c = st.cost[order[i]]
    BY <2>2
  <2>4. i \in nearest
    BY <2>2, <2>3
  <2>5. nearest \subseteq Nat /\ nearest # {} /\ nearest \subseteq open
    BY <1>0, <2>4
  <2>6. Min(nearest) \in nearest
    <3> HIDE DEF nearest, open
    <3> QED
      BY <2>5, MinIs
  <2> DEFINE m == Min(nearest)
  <2> HIDE DEF m
  <2>7. m \in open /\ \A j \in open : st.cost[order[m]] <= st.cost[order[j]]
    BY <2>6 DEF m
  <2>8. Nearest(order[m], nodes, inf, st)
    <3>1. order[m] \in nodes \ st.visited /\ st.cost[order[m]] < inf
      BY <1>0, <2>7
    <3>2. ASSUME NEW v \in nodes \ st.visited PROVE st.cost[order[m]] <= st.cost[v]
      <4>1. PICK j \in DOMAIN order : v = order[j]
        BY <1>0
      <4>2. st.cost[v] < inf => j \in open
        BY <4>1
      <4>3. st.cost[order[m]] \in 0..inf /\ st.cost[v] \in 0..inf
        BY <1>0, <3>1, Zenon
      <4> HIDE DEF open
      <4> QED
        BY <2>7, <3>1, <4>1, <4>2, <4>3
    <3> QED
      BY <3>1, <3>2 DEF Nearest
  <2> QED
    BY <1>1, <1>3, <2>8 DEF m
<1> QED
  BY <1>2, <1>3

\* Cost and predecessor of a node after a visit to u.
LEMMA VisitIs ==
  ASSUME NEW nodes, NEW inf \in Nat, NEW st \in SpfStates(nodes, inf), NEW db, NEW u,
         Nearest(u, nodes, inf, st), NEW w, w = Visit(st, u, db)
  PROVE  /\ w \in SpfStates(nodes, inf)
         /\ w.visited = st.visited \cup {u}
         /\ \A v \in nodes :
              \/ /\ v \in Adjacent(u, db) /\ v \notin st.visited \cup {u}
                 /\ st.cost[u] + 1 < st.cost[v]
                 /\ w.cost[v] = st.cost[u] + 1 /\ w.pre[v] = u
              \/ /\ v \in Adjacent(u, db) => v \in st.visited \cup {u} \/ st.cost[v] <= st.cost[u] + 1
                 /\ w.cost[v] = st.cost[v] /\ w.pre[v] = st.pre[v]
<1> DEFINE better == {v \in Adjacent(u, db) \cap nodes :
                        v \notin st.visited \cup {u} /\ st.cost[u] + 1 < st.cost[v]}
<1>0. /\ st.cost \in [nodes -> 0..inf] /\ st.pre \in [nodes -> nodes \cup {NoRouter}]
      /\ st.visited \subseteq nodes /\ u \in nodes
  BY DEF SpfStates, Nearest
<1>1. w = [cost |-> [v \in nodes |-> IF v \in better THEN st.cost[u] + 1 ELSE st.cost[v]],
           pre |-> [v \in nodes |-> IF v \in better THEN u ELSE st.pre[v]],
           visited |-> st.visited \cup {u}]
  <2>1. DOMAIN st.cost = nodes /\ DOMAIN st.pre = nodes
    BY <1>0
  <2> QED
    BY <2>1, Zenon DEF Visit
<1>2. \A v \in better : st.cost[u] + 1 \in 0..inf
  BY <1>0
<1>3. \A v \in nodes : st.cost[v] \in 0..inf /\ st.pre[v] \in nodes \cup {NoRouter}
  BY <1>0
<1>4. /\ w.cost = [v \in nodes |-> IF v \in better THEN st.cost[u] + 1 ELSE st.cost[v]]
      /\ w.pre = [v \in nodes |-> IF v \in better THEN u ELSE st.pre[v]]
      /\ w.visited = st.visited \cup {u}
  BY <1>1
<1>5. w.cost \in [nodes -> 0..inf] /\ w.pre \in [nodes -> nodes \cup {NoRouter}]
  <2> HIDE DEF better
  <2> QED
    BY <1>0, <1>2, <1>3, <1>4
<1>6. w \in SpfStates(nodes, inf)
  <2>1. w = [cost |-> w.cost, pre |-> w.pre, visited |-> w.visited]
    BY <1>1
  <2>2. w.visited \in SUBSET nodes
    BY <1>0, <1>4
  <2> QED
    BY <1>5, <2>1, <2>2 DEF SpfStates
<1>7. ASSUME NEW v \in nodes
      PROVE  \/ /\ v \in Adjacent(u, db) /\ v \notin st.visited \cup {u}
                /\ st.cost[u] + 1 < st.cost[v]
                /\ w.cost[v] = st.cost[u] + 1 /\ w.pre[v] = u
             \/ /\ v \in Adjacent(u, db) => v \in st.visited \cup {u} \/ st.cost[v] <= st.cost[u] + 1
                /\ w.cost[v] = st.cost[v] /\ w.pre[v] = st.pre[v]
  <2>1. st.cost[v] \in Nat /\ st.cost[u] \in Nat
    BY <1>0, <1>3
  <2>2. CASE v \in better
    BY <1>4, <2>2
  <2>3. CASE v \notin better
    BY <1>4, <2>1, <2>3
  <2> QED
    BY <2>2, <2>3
<1> QED
  BY <1>4, <1>6, <1>7

\* A visit keeps the invariant of the loop.
LEMMA VisitLoop ==
  ASSUME NEW self, NEW nbrs, NEW db, NEW nodes, IsFiniteSet(nodes), self \in nodes,
         NEW inf \in Nat, inf = Cardinality(nodes) + 1, self \notin Rids(db), NEW st, NEW u,
         LoopInv(self, nbrs, db, nodes, inf, st), Nearest(u, nodes, inf, st)
  PROVE  /\ LoopInv(self, nbrs, db, nodes, inf, Visit(st, u, db))
         /\ Cardinality(Visit(st, u, db).visited) = Cardinality(st.visited) + 1
<1> DEFINE w == Visit(st, u, db)
           n == Cardinality(st.visited)
<1>0. /\ st \in SpfStates(nodes, inf)
      /\ Ranked(nodes, inf, st) /\ Relaxed(db, nodes, inf, st)
      /\ Short(nodes, inf, st) /\ Treed(self, nbrs, db, nodes, inf, st)
  BY DEF LoopInv
<1>1. /\ w \in SpfStates(nodes, inf)
      /\ w.visited = st.visited \cup {u}
      /\ \A v \in nodes :
           \/ /\ v \in Adjacent(u, db) /\ v \notin st.visited \cup {u}
              /\ st.cost[u] + 1 < st.cost[v]
              /\ w.cost[v] = st.cost[u] + 1 /\ w.pre[v] = u
           \/ /\ v \in Adjacent(u, db) => v \in st.visited \cup {u} \/ st.cost[v] <= st.cost[u] + 1
              /\ w.cost[v] = st.cost[v] /\ w.pre[v] = st.pre[v]
  <2> HIDE DEF w
  <2> QED
    BY <1>0, VisitIs DEF w
<1> HIDE DEF w
<1>2. /\ u \in nodes /\ u \notin st.visited /\ st.visited \subseteq nodes /\ st.cost[u] < inf
      /\ \A v \in nodes \ st.visited : st.cost[u] <= st.cost[v]
  BY <1>0 DEF Nearest, SpfStates
<1>3. \A v \in nodes : st.cost[v] \in 0..inf /\ w.cost[v] \in 0..inf
  BY <1>0, <1>1 DEF SpfStates
<1>4. /\ n \in Nat /\ Cardinality(w.visited) = n + 1
      /\ \A v \in nodes \ w.visited : n + 2 < inf
  <2>1. IsFiniteSet(st.visited) /\ n \in Nat
    BY <1>2, FS_Subset, FS_CardinalityType
  <2>2. Cardinality(w.visited) = n + 1
    BY <1>1, <1>2, <2>1, FS_AddElement
  <2>3. w.visited \in SUBSET nodes
    BY <1>1, <1>2
  <2>4. Cardinality(w.visited) <= Cardinality(nodes) /\ Cardinality(nodes) \in Nat
        /\ (Cardinality(nodes) = Cardinality(w.visited) => nodes = w.visited)
    BY <2>3, FS_Subset, FS_CardinalityType
  <2> QED
    BY <2>1, <2>2, <2>4
<1> HIDE DEF n
\* nothing changes for what was visited, and u is settled
<1>5. \A v \in w.visited : w.cost[v] = st.cost[v] /\ w.pre[v] = st.pre[v] /\ w.cost[v] <= w.cost[u]
  <2> SUFFICES ASSUME NEW v \in w.visited
               PROVE  w.cost[v] = st.cost[v] /\ w.pre[v] = st.pre[v] /\ w.cost[v] <= w.cost[u]
    OBVIOUS
  <2>1. v \in nodes /\ w.cost[v] = st.cost[v] /\ w.pre[v] = st.pre[v] /\ w.cost[u] = st.cost[u]
    BY <1>1, <1>2
  <2>2. v = u \/ st.cost[v] <= st.cost[u]
    BY <1>0, <1>1, <1>2 DEF Ranked
  <2> QED
    BY <1>2, <1>3, <2>1, <2>2
<1>6. Ranked(nodes, inf, w)
  <2>1. \A v \in w.visited : w.cost[v] < inf
    BY <1>0, <1>1, <1>2, <1>5 DEF Ranked
  <2>2. ASSUME NEW v \in nodes \ w.visited PROVE w.cost[u] <= w.cost[v]
    <3>1. w.cost[u] = st.cost[u] /\ st.cost[u] <= st.cost[v] /\ st.cost[u] \in Nat
      BY <1>1, <1>2, <1>3, <1>5
    <3> QED
      BY <1>1, <3>1
  <2>3. ASSUME NEW x \in w.visited, NEW v \in nodes \ w.visited PROVE w.cost[x] <= w.cost[v]
    <3>1. w.cost[x] <= w.cost[u] /\ w.cost[u] <= w.cost[v] /\ x \in nodes /\ u \in nodes /\ v \in nodes
      BY <1>1, <1>2, <1>5, <2>2
    <3>2. w.cost[x] \in 0..inf /\ w.cost[u] \in 0..inf /\ w.cost[v] \in 0..inf
      BY <1>3, <3>1
    <3> QED
      BY <3>1, <3>2
  <2> QED
    BY <2>1, <2>3 DEF Ranked
<1>7. Short(nodes, inf, w)
  <2> SUFFICES ASSUME NEW v \in nodes, w.cost[v] < inf PROVE w.cost[v] <= (n + 1) + 1
    BY <1>4 DEF Short
  <2>1. st.cost[u] <= n + 1 /\ (st.cost[v] < inf => st.cost[v] <= n + 1)
    BY <1>0, <1>2 DEF Short, n
  <2>2. st.cost[u] \in Nat /\ st.cost[v] \in Nat
    BY <1>2, <1>3
  <2> QED
    BY <1>1, <1>4, <2>1, <2>2
<1>8. Relaxed(db, nodes, inf, w)
  <2> SUFFICES ASSUME NEW x \in w.visited, NEW v \in Adjacent(x, db) \cap nodes
               PROVE  w.cost[v] <= w.cost[x] + 1 /\ w.cost[v] < inf
    BY DEF Relaxed
  <2>0. x \in nodes /\ v \in nodes /\ w.cost[x] = st.cost[x]
    BY <1>1, <1>2, <1>5
  <2>1. /\ st.cost[u] \in 0..inf /\ st.cost[v] \in 0..inf /\ w.cost[v] \in 0..inf
        /\ st.cost[x] \in 0..inf
    BY <1>2, <1>3, <2>0
  <2>2. CASE x \in st.visited
    <3>1. st.cost[v] <= st.cost[x] + 1 /\ st.cost[v] < inf
      BY <1>0, <2>2 DEF Relaxed
    <3>2. w.cost[v] <= st.cost[v]
      BY <1>1, <2>0, <2>1
    <3> QED
      BY <2>0, <2>1, <3>1, <3>2
  <2>3. CASE x = u
    <3>1. CASE v \in w.visited
      <4>1. w.cost[v] <= w.cost[u] /\ w.cost[u] = st.cost[u]
        BY <1>1, <1>5, <3>1
      <4> QED
        BY <1>2, <2>1, <2>3, <4>1
    <3>2. CASE v \notin w.visited
      <4>1. st.cost[u] + 1 < inf
        <5>1. st.cost[u] <= n + 1
          BY <1>0, <1>2 DEF Short, n
        <5>2. n + 2 < inf
          BY <1>4, <2>0, <3>2
        <5> QED
          BY <1>4, <2>1, <5>1, <5>2
      <4>2. w.cost[v] <= st.cost[u] + 1
        BY <1>1, <2>0, <2>1, <2>3, <3>2
      <4> QED
        BY <2>0, <2>1, <2>3, <4>1, <4>2
    <3> QED
      BY <3>1, <3>2
  <2> QED
    BY <1>1, <2>2, <2>3
<1>9. Treed(self, nbrs, db, nodes, inf, w)
  <2>0. /\ st.cost[self] = 0
        /\ \A v \in nodes \ {self} : st.cost[v] > 0 /\ Linked(self, nbrs, db, inf, st, v)
        /\ \A v \in nodes : InSeq(v, nbrs) => st.cost[v] <= 1
    BY <1>0 DEF Treed
  <2>1. st.cost[u] \in Nat
    BY <1>2, <1>3
  <2>2. w.cost[self] = 0
    BY <1>1, <2>0, <2>1
  <2>3. ASSUME NEW v \in nodes, InSeq(v, nbrs) PROVE w.cost[v] <= 1
    <3>1. st.cost[v] <= 1 /\ st.cost[v] \in Nat
      BY <1>3, <2>0, <2>3
    <3> QED
      BY <1>1, <2>1, <3>1
  <2>4. ASSUME NEW v \in nodes \ {self} PROVE w.cost[v] > 0 /\ Linked(self, nbrs, db, inf, w, v)
    <3>1. CASE /\ v \in Adjacent(u, db) /\ st.cost[u] + 1 < st.cost[v]
               /\ w.cost[v] = st.cost[u] + 1 /\ w.pre[v] = u
      <4>1. u # self
        <5>1. Adjacent(self, db) = {}
          BY DEF Adjacent, Rids
        <5> QED
          BY <3>1, <5>1
      <4>2. w.cost[u] = st.cost[u] /\ u \in w.visited /\ st.cost[v] \in 0..inf
        BY <1>1, <1>3, <1>5
      <4> QED
        BY <2>1, <3>1, <4>1, <4>2 DEF Linked
    <3>2. CASE w.cost[v] = st.cost[v] /\ w.pre[v] = st.pre[v]
      <4>1. st.cost[v] > 0 /\ Linked(self, nbrs, db, inf, st, v)
        BY <2>0
      <4>2. CASE st.pre[v] \in st.visited
        <5>1. st.pre[v] \in w.visited /\ w.cost[st.pre[v]] = st.cost[st.pre[v]]
          BY <1>1, <1>5, <4>2
        <5> QED
          BY <3>2, <4>1, <5>1 DEF Linked
      <4>3. CASE st.pre[v] \notin st.visited
        BY <3>2, <4>1, <4>3 DEF Linked
      <4> QED
        BY <4>2, <4>3
    <3> QED
      BY <1>1, <3>1, <3>2
  <2> QED
    BY <2>2, <2>3, <2>4 DEF Treed
<1> QED
  BY <1>1, <1>4, <1>6, <1>7, <1>8, <1>9 DEF LoopInv, w, n

-----------------------------------------------------------------------------
(***************************************************************************)
(* The loop ends: every turn visits one node more, so that as many turns as *)
(* the list has elements leave nothing to visit.                           *)
(***************************************************************************)

\* The nodes of a list are no more than its elements.
LEMMA ListedNodes ==
  ASSUME NEW nodes, NEW order, Lists(order, nodes)
  PROVE  IsFiniteSet(nodes) /\ Cardinality(nodes) \in Nat /\ Cardinality(nodes) <= Len(order)
<1>1. Len(order) \in Nat /\ DOMAIN order = 1..Len(order)
  BY DEF Lists
<1>2. IsFiniteSet(1..Len(order)) /\ Cardinality(1..Len(order)) = Len(order)
  <2> DEFINE n == Len(order)
  <2>1. n \in Nat /\ n \in Int /\ 1 \in Int
    BY <1>1
  <2> HIDE DEF n
  <2>2. IsFiniteSet(1..n) /\ Cardinality(1..n) = n
    BY <2>1, FS_Interval
  <2> QED
    BY <2>2 DEF n
<1>3. order \in Surjection(1..Len(order), nodes)
  BY <1>1 DEF Surjection, Lists
<1>4. IsFiniteSet(nodes) /\ Cardinality(nodes) <= Cardinality(1..Len(order))
  BY <1>2, <1>3, FS_Surjection
<1> QED
  BY <1>2, <1>4, FS_CardinalityType

\* The turns of the loop, one after the other.
TurnsOf(turns, self, nbrs, db, order, nodes, inf) ==
  /\ turns[0] = Start(self, nbrs, db, nodes, inf)
  /\ \A k \in Nat : k + 1 <= Len(order) => turns[k + 1] = Turn(turns[k], order, db, inf)
  /\ Predecessors(self, nbrs, db) = turns[Len(order)].pre

\* The recursion of Predecessors has a solution.
LEMMA TurnsExist ==
  ASSUME NEW self, NEW nbrs, NEW db, NEW order, order = AllNodes(self, nbrs, db),
         NEW nodes, Lists(order, nodes), NEW inf, inf = Cardinality(nodes) + 1,
         self \in nodes, self \notin Rids(db)
  PROVE  \E turns : TurnsOf(turns, self, nbrs, db, order, nodes, inf)
<1> DEFINE n == Len(order)
           V == SpfStates(nodes, inf)
           base == Start(self, nbrs, db, nodes, inf)
           T(st) == Turn(st, order, db, inf)
           step == [p \in (1..n) \X V |-> T(p[2])]
           turns[k \in 0..n] == IF k = 0 THEN base ELSE T(turns[k - 1])
<1>0. n \in Nat /\ inf \in Nat /\ inf >= 2
  <2>1. n \in Nat /\ IsFiniteSet(nodes) /\ Cardinality(nodes) \in Nat
    BY ListedNodes DEF Lists
  <2>2. Cardinality(nodes) # 0
    BY <2>1, FS_EmptySet
  <2> QED
    BY <2>1, <2>2
<1>1. base \in V
  BY <1>0, StartLoop DEF LoopInv
<1>2. ASSUME NEW st \in V PROVE T(st) \in V
  <2>1. \/ T(st) = st
        \/ \E u : Nearest(u, nodes, inf, st) /\ T(st) = Visit(st, u, db)
    <3> HIDE DEF turns, step, V
    <3>1. st \in SpfStates(nodes, inf)
      BY <1>2 DEF V
    <3> QED
      BY <1>0, <3>1, TurnVisits
  <2>2. ASSUME NEW u, Nearest(u, nodes, inf, st) PROVE Visit(st, u, db) \in V
    BY <1>0, <1>2, <2>2, VisitIs
  <2> QED
    BY <1>2, <2>1, <2>2
<1> HIDE DEF n, V, base, T
<1>3. step \in [(1..n) \X V -> V]
  BY <1>2
<1>4. PICK F \in [0..n -> V] : Solves(F, n, base, step)
  <2> HIDE DEF step
  <2> QED
    BY <1>0, <1>1, <1>3, RecursionExists
<1>5. F = [k \in 0..n |-> IF k = 0 THEN base ELSE T(F[k - 1])]
  <2>1. ASSUME NEW k \in 0..n PROVE F[k] = IF k = 0 THEN base ELSE T(F[k - 1])
    <3>1. CASE k = 0
      BY <1>4, <3>1 DEF Solves
    <3>2. CASE k # 0
      <4>1. k \in 1..n /\ k - 1 \in 0..n /\ F[k - 1] \in V
        BY <1>0, <1>4, <3>2
      <4>2. F[k] = step[<<k, F[k - 1]>>]
        BY <1>4, <4>1 DEF Solves
      <4> QED
        BY <3>2, <4>1, <4>2
    <3> QED
      BY <3>1, <3>2
  <2> QED
    BY <2>1, <1>4
<1>6. turns = [k \in 0..n |-> IF k = 0 THEN base ELSE T(turns[k - 1])]
  BY <1>5, Zenon
<1>7. Predecessors(self, nbrs, db) = turns[n].pre
  <2> DEFINE o == AllNodes(self, nbrs, db)
             s == {o[i] : i \in DOMAIN o}
             m == Cardinality(s) + 1
             ts[k \in 0..Len(o)] == IF k = 0 THEN Start(self, nbrs, db, s, m) ELSE Turn(ts[k - 1], o, db, m)
  <2>1. Predecessors(self, nbrs, db) = ts[Len(o)].pre
    BY Zenon DEF Predecessors
  <2>2. o = order /\ s = nodes /\ m = inf
    BY DEF Lists
  <2>3. ts = turns
    <3> HIDE DEF o, s, m
    <3> QED
      BY <2>2, Zenon DEF turns, n, T, base
  <2> QED
    BY <2>1, <2>2, <2>3, Zenon DEF n
<1> HIDE DEF turns
<1>8. turns[0] = base
  BY <1>0, <1>6
<1>9. ASSUME NEW k \in Nat, k + 1 <= n PROVE turns[k + 1] = T(turns[k])
  <2>1. k + 1 \in 0..n /\ k + 1 # 0 /\ (k + 1) - 1 = k
    BY <1>0, <1>9
  <2> QED
    BY <1>6, <2>1
<1> QED
  BY <1>7, <1>8, <1>9 DEF TurnsOf, n, T, base

\* The loop has ended after as many turns as the list has elements, with its invariant.
LEMMA LoopEnds ==
  ASSUME NEW self, NEW nbrs, NEW db, NEW order, order = AllNodes(self, nbrs, db),
         NEW nodes, Lists(order, nodes), NEW inf, inf = Cardinality(nodes) + 1,
         self \in nodes, self \notin Rids(db)
  PROVE  \E st : /\ LoopInv(self, nbrs, db, nodes, inf, st) /\ Ended(nodes, inf, st)
                 /\ Predecessors(self, nbrs, db) = st.pre
<1> DEFINE n == Len(order)
<1>0. /\ n \in Nat /\ inf \in Nat /\ inf >= 2 /\ IsFiniteSet(nodes)
      /\ Cardinality(nodes) \in Nat /\ Cardinality(nodes) <= n
  <2>1. n \in Nat /\ IsFiniteSet(nodes) /\ Cardinality(nodes) \in Nat /\ Cardinality(nodes) <= n
    BY ListedNodes DEF Lists
  <2>2. Cardinality(nodes) # 0
    BY <2>1, FS_EmptySet
  <2> QED
    BY <2>1, <2>2
<1>1. PICK turns : TurnsOf(turns, self, nbrs, db, order, nodes, inf)
  BY TurnsExist
<1>2. /\ turns[0] = Start(self, nbrs, db, nodes, inf)
      /\ \A k \in Nat : k + 1 <= n => turns[k + 1] = Turn(turns[k], order, db, inf)
      /\ Predecessors(self, nbrs, db) = turns[n].pre
  BY <1>1 DEF TurnsOf
<1> HIDE DEF n
<1> DEFINE I(st) == LoopInv(self, nbrs, db, nodes, inf, st)
           D(st) == Ended(nodes, inf, st)
           Q == {k \in Nat : k <= n => I(turns[k]) /\ (D(turns[k]) \/ Cardinality(turns[k].visited) = k)}
<1>3. 0 \in Q
  <2>1. I(turns[0])
    BY <1>0, <1>2, StartLoop
  <2>2. turns[0].visited = {}
    BY <1>2 DEF Start
  <2> HIDE DEF I, D
  <2> QED
    BY <2>1, <2>2, FS_EmptySet
<1>4. ASSUME NEW k \in Nat, k \in Q PROVE k + 1 \in Q
  <2> DEFINE st == turns[k]
             w == turns[k + 1]
  <2> SUFFICES ASSUME k + 1 <= n PROVE I(w) /\ (D(w) \/ Cardinality(w.visited) = k + 1)
    <3> HIDE DEF I, D
    <3> QED
      OBVIOUS
  <2>1. I(st) /\ (D(st) \/ Cardinality(st.visited) = k) /\ w = Turn(st, order, db, inf)
    <3> HIDE DEF I, D
    <3> QED
      BY <1>0, <1>2, <1>4
  <2> HIDE DEF st, w
  <2>2. st \in SpfStates(nodes, inf)
    BY <2>1 DEF LoopInv
  <2>3. \/ D(st) /\ w = st
        \/ \E u : Nearest(u, nodes, inf, st) /\ w = Visit(st, u, db)
    BY <1>0, <2>1, <2>2, TurnVisits
  <2>4. ASSUME NEW u, Nearest(u, nodes, inf, st), w = Visit(st, u, db)
        PROVE  I(w) /\ Cardinality(w.visited) = Cardinality(st.visited) + 1 /\ ~D(st)
    <3>1. I(w) /\ Cardinality(w.visited) = Cardinality(st.visited) + 1
      BY <1>0, <2>1, <2>4, VisitLoop
    <3>2. ~D(st)
      BY <1>0, <2>4 DEF Nearest, Ended
    <3> QED
      BY <3>1, <3>2
  <2> HIDE DEF I, D
  <2> QED
    BY <2>1, <2>3, <2>4
<1>5. n \in Q
  <2> HIDE DEF Q
  <2> QED
    BY <1>0, <1>3, <1>4, Counting
<1> DEFINE st == turns[n]
<1>6. I(st) /\ (D(st) \/ Cardinality(st.visited) = n)
  <2> HIDE DEF I, D
  <2> QED
    BY <1>0, <1>5
<1> HIDE DEF st
<1>7. ASSUME Cardinality(st.visited) = n PROVE D(st)
  <2>1. st.visited \in SUBSET nodes
    BY <1>6 DEF LoopInv, SpfStates
  <2>2. /\ Cardinality(st.visited) <= Cardinality(nodes)
        /\ Cardinality(nodes) = Cardinality(st.visited) => nodes = st.visited
    BY <1>0, <2>1, FS_Subset
  <2>3. nodes = st.visited
    BY <1>0, <1>7, <2>2
  <2> QED
    BY <2>3 DEF Ended
<1>8. D(st)
  BY <1>6, <1>7
<1> QED
  BY <1>2, <1>6, <1>8 DEF st

-----------------------------------------------------------------------------
(***************************************************************************)
(* The list all_nodes.                                                     *)
(***************************************************************************)

\* Two lists, one behind the other.
LEMMA BothLists ==
  ASSUME NEW A, NEW s \in Seq(A), NEW t \in Seq(A)
  PROVE  s \o t \in Seq(A) /\ Len(s \o t) = Len(s) + Len(t) /\ Range(s \o t) = Range(s) \cup Range(t)
<1> DEFINE c == s \o t
<1>1. /\ c \in Seq(A) /\ Len(c) = Len(s) + Len(t) /\ Len(s) \in Nat /\ Len(t) \in Nat
      /\ DOMAIN c = 1..Len(c) /\ DOMAIN s = 1..Len(s) /\ DOMAIN t = 1..Len(t)
  OBVIOUS
<1>2. /\ \A i \in 1..Len(s) : c[i] = s[i]
      /\ \A i \in 1..Len(t) : c[Len(s) + i] = t[i]
  OBVIOUS
<1> HIDE DEF c
<1>3. ASSUME NEW x \in Range(c) PROVE x \in Range(s) \cup Range(t)
  <2>1. PICK i \in 1..Len(c) : x = c[i]
    BY <1>1 DEF Range
  <2>2. CASE i <= Len(s)
    <3>1. i \in 1..Len(s) /\ x = s[i]
      BY <1>1, <1>2, <2>1, <2>2
    <3> QED
      BY <1>1, <3>1 DEF Range
  <2>3. CASE i > Len(s)
    <3>1. i - Len(s) \in 1..Len(t) /\ Len(s) + (i - Len(s)) = i
      BY <1>1, <2>1, <2>3
    <3>2. x = t[i - Len(s)]
      BY <1>2, <2>1, <3>1
    <3> QED
      BY <1>1, <3>1, <3>2 DEF Range
  <2> QED
    BY <1>1, <2>2, <2>3
<1>4. ASSUME NEW x \in Range(s) PROVE x \in Range(c)
  <2>1. PICK i \in 1..Len(s) : x = s[i]
    BY <1>1, <1>4 DEF Range
  <2>2. i \in 1..Len(c) /\ c[i] = x
    BY <1>1, <1>2, <2>1
  <2> QED
    BY <1>1, <2>2 DEF Range
<1>5. ASSUME NEW x \in Range(t) PROVE x \in Range(c)
  <2>1. PICK i \in 1..Len(t) : x = t[i]
    BY <1>1, <1>5 DEF Range
  <2>2. Len(s) + i \in 1..Len(c) /\ c[Len(s) + i] = x
    BY <1>1, <1>2, <2>1
  <2> QED
    BY <1>1, <2>2 DEF Range
<1>6. Range(c) = Range(s) \cup Range(t)
  BY <1>3, <1>4, <1>5
<1> QED
  BY <1>1, <1>6 DEF c

\* The list of nodes has the router, the neighbours and the routers of the database.
LEMMA NodesListed ==
  ASSUME NEW R, NEW D, NEW self, NEW nbrs \in Seq(R), NEW db \in Seq(D), self \notin Rids(db)
  PROVE  /\ Lists(AllNodes(self, nbrs, db), Nodes(self, nbrs, db))
         /\ Len(AllNodes(self, nbrs, db)) <= Far(db, nbrs)
<1> DEFINE A == Nodes(self, nbrs, db)
           ids == [i \in DOMAIN db |-> db[i].rid]
           own == <<self>>
           base == ids \o own
           rest == Kept(nbrs, Range(nbrs) \ Range(base))
           order == base \o rest
<1>1. order = AllNodes(self, nbrs, db)
  BY DEF AllNodes
<1>2. /\ DOMAIN db = 1..Len(db) /\ Len(db) \in Nat /\ DOMAIN nbrs = 1..Len(nbrs) /\ Len(nbrs) \in Nat
  OBVIOUS
<1>3. ids \in Seq(A) /\ Len(ids) = Len(db) /\ Range(ids) = Rids(db)
  <2>1. \A i \in DOMAIN db : db[i].rid \in A
    BY DEF Nodes, Rids
  <2>2. ids \in [1..Len(db) -> A]
    BY <1>2, <2>1
  <2>3. ids \in Seq(A) /\ Len(ids) = Len(db)
    <3> HIDE DEF ids
    <3> QED
      BY <1>2, <2>2
  <2>4. Range(ids) = Rids(db)
    BY DEF Range, Rids
  <2> QED
    BY <2>3, <2>4
<1>4. own \in Seq(A) /\ Len(own) = 1 /\ Range(own) = {self}
  <2>1. self \in A
    BY DEF Nodes
  <2>2. DOMAIN own = {1} /\ own[1] = self
    OBVIOUS
  <2> QED
    BY <2>1, <2>2 DEF Range
<1> HIDE DEF A, ids, own
<1>5. base \in Seq(A) /\ Len(base) = Len(db) + 1 /\ Range(base) = Rids(db) \cup {self}
  <2>1. base \in Seq(A) /\ Len(base) = Len(ids) + Len(own) /\ Range(base) = Range(ids) \cup Range(own)
    BY <1>3, <1>4, BothLists, Zenon
  <2> HIDE DEF base
  <2> QED
    BY <1>3, <1>4, <2>1
<1> HIDE DEF base
<1>6. /\ rest \in Seq(A) /\ Len(rest) <= Len(nbrs) /\ Len(rest) \in Nat
      /\ Range(rest) = Range(nbrs) \ Range(base)
  <2> DEFINE S == Range(nbrs) \ Range(base)
  <2>0. Range(nbrs) \subseteq A /\ nbrs \in Seq(A)
    <3>1. \A i \in 1..Len(nbrs) : nbrs[i] \in A
      BY <1>2 DEF A, Nodes
    <3>2. Range(nbrs) \subseteq A
      BY <1>2, <3>1 DEF Range
    <3> QED
      BY <1>2, <3>1, <3>2
  <2>1. rest \in Seq(A) /\ KeptOf(rest, nbrs, S, Len(nbrs))
    <3> HIDE DEF S
    <3>1. Kept(nbrs, S) \in Seq(A) /\ KeptOf(Kept(nbrs, S), nbrs, S, Len(nbrs))
      BY <2>0, KeptIs
    <3> QED
      BY <3>1 DEF S
  <2> HIDE DEF rest
  <2>2. /\ Len(rest) <= Len(nbrs) /\ Len(rest) \in Nat /\ DOMAIN rest = 1..Len(rest)
        /\ \A a \in 1..Len(rest) : rest[a] \in S
        /\ \A i \in 1..Len(nbrs) : nbrs[i] \in S => \E a \in 1..Len(rest) : rest[a] = nbrs[i]
    <3> HIDE DEF S
    <3> QED
      BY <2>1 DEF KeptOf
  <2>3. Range(rest) \subseteq S
    BY <2>2 DEF Range
  <2>4. ASSUME NEW x \in S PROVE x \in Range(rest)
    <3>1. PICK i \in 1..Len(nbrs) : x = nbrs[i]
      BY <1>2 DEF Range
    <3>2. PICK a \in 1..Len(rest) : rest[a] = nbrs[i]
      BY <2>2, <2>4, <3>1
    <3> QED
      BY <2>2, <3>1, <3>2 DEF Range
  <2> QED
    BY <2>1, <2>2, <2>3, <2>4
<1> HIDE DEF rest
<1>7. /\ order \in Seq(A) /\ Len(order) = Len(base) + Len(rest)
      /\ Range(order) = Range(base) \cup Range(rest)
  <2>1. base \in Seq(A) /\ rest \in Seq(A)
    BY <1>5, <1>6
  <2> QED
    BY <2>1, BothLists, Zenon
<1> HIDE DEF order
<1>8. Range(order) = A
  BY <1>5, <1>6, <1>7 DEF A, Nodes, Range
<1>9. Lists(order, A)
  BY <1>7, <1>8 DEF Lists, Range
<1>10. Len(order) <= Far(db, nbrs)
  BY <1>2, <1>5, <1>6, <1>7 DEF Far
<1> QED
  BY <1>1, <1>9, <1>10, Zenon DEF A

-----------------------------------------------------------------------------
(***************************************************************************)
(* Distances, without the algorithm, and the costs that it leaves.         *)
(***************************************************************************)

\* The routers one link away from v.
Links(v, self, nbrs, db) == IF v = self THEN {nbrs[i] : i \in DOMAIN nbrs} ELSE Adjacent(v, db)

\* One link further than S.
Wider(S, self, nbrs, db) ==
  S \cup (Nodes(self, nbrs, db) \cap UNION {Links(v, self, nbrs, db) : v \in S})

\* The sets of the recursion of Within, up to k links.
ReachOf(reach, a, k, self, nbrs, db) ==
  /\ reach[0] = {a}
  /\ \A j \in Nat : j + 1 <= k => reach[j + 1] = Wider(reach[j], self, nbrs, db)
  /\ Within(a, k, self, nbrs, db) = reach[k]

\* They exist.
LEMMA WithinSolved ==
  ASSUME NEW a, NEW k \in Nat, NEW self, NEW nbrs, NEW db
  PROVE  \E reach : ReachOf(reach, a, k, self, nbrs, db)
<1> DEFINE N == Nodes(self, nbrs, db)
           V == SUBSET (N \cup {a})
           L(v) == Links(v, self, nbrs, db)
           W(S) == S \cup (N \cap UNION {L(v) : v \in S})
           base == {a}
           step == [p \in (1..k) \X V |-> W(p[2])]
           reach[j \in 0..k] == IF j = 0 THEN base ELSE W(reach[j - 1])
<1>1. base \in V
  OBVIOUS
<1>2. \A S \in V : W(S) \in V
  <2> HIDE DEF L, N
  <2> QED
    OBVIOUS
<1>3. Within(a, k, self, nbrs, db) = reach[k]
  <2> DEFINE next(v) == IF v = self THEN {nbrs[i] : i \in DOMAIN nbrs} ELSE Adjacent(v, db)
             nodes == Rids(db) \cup {self} \cup {nbrs[i] : i \in DOMAIN nbrs}
             r[j \in 0..k] ==
               IF j = 0 THEN {a} ELSE r[j - 1] \cup (nodes \cap UNION {next(v) : v \in r[j - 1]})
  <2>1. Within(a, k, self, nbrs, db) = r[k]
    BY Zenon DEF Within
  <2>2. r = reach
    BY Zenon DEF Links, Nodes
  <2> QED
    BY <2>1, <2>2, Zenon
<1> HIDE DEF V, base, W
<1>4. step \in [(1..k) \X V -> V]
  BY <1>2
<1>5. PICK F \in [0..k -> V] : Solves(F, k, base, step)
  <2> HIDE DEF step
  <2> QED
    BY <1>1, <1>4, RecursionExists
<1>6. F = [j \in 0..k |-> IF j = 0 THEN base ELSE W(F[j - 1])]
  <2>1. ASSUME NEW j \in 0..k PROVE F[j] = IF j = 0 THEN base ELSE W(F[j - 1])
    <3>1. CASE j = 0
      BY <1>5, <3>1 DEF Solves
    <3>2. CASE j # 0
      <4>1. j \in 1..k /\ j - 1 \in 0..k /\ F[j - 1] \in V
        BY <1>5, <3>2
      <4>2. F[j] = step[<<j, F[j - 1]>>]
        BY <1>5, <4>1 DEF Solves
      <4> QED
        BY <3>2, <4>1, <4>2
    <3> QED
      BY <3>1, <3>2
  <2> QED
    BY <2>1, <1>5
<1>7. reach = [j \in 0..k |-> IF j = 0 THEN base ELSE W(reach[j - 1])]
  BY <1>6, Zenon
<1> HIDE DEF reach
<1>8. reach[0] = base
  BY <1>7
<1>9. ASSUME NEW j \in Nat, j + 1 <= k PROVE reach[j + 1] = W(reach[j])
  <2>1. j + 1 \in 0..k /\ j + 1 # 0 /\ (j + 1) - 1 = j
    BY <1>9
  <2> QED
    BY <1>7, <2>1
<1> HIDE DEF L, N
<1>10. \A S : W(S) = Wider(S, self, nbrs, db)
  BY Zenon DEF W, Wider, L, N
<1> QED
  BY <1>3, <1>8, <1>9, <1>10 DEF base, ReachOf

\* Within by its recursion.
LEMMA WithinIs ==
  ASSUME NEW a, NEW k \in Nat, NEW self, NEW nbrs, NEW db
  PROVE  /\ Within(a, 0, self, nbrs, db) = {a}
         /\ Within(a, k + 1, self, nbrs, db) = Wider(Within(a, k, self, nbrs, db), self, nbrs, db)
<1> DEFINE W(S) == Wider(S, self, nbrs, db)
           R(j) == Within(a, j, self, nbrs, db)
<1> HIDE DEF W, R
<1>1. R(0) = {a}
  <2>1. 0 \in Nat
    OBVIOUS
  <2>2. PICK r : ReachOf(r, a, 0, self, nbrs, db)
    BY <2>1, WithinSolved
  <2> QED
    BY <2>2 DEF R, ReachOf
<1>2. PICK r : /\ r[0] = {a} /\ \A j \in Nat : j + 1 <= k => r[j + 1] = W(r[j])
               /\ R(k) = r[k]
  <2>1. \E r : ReachOf(r, a, k, self, nbrs, db)
    BY WithinSolved
  <2> QED
    BY <2>1 DEF ReachOf, R, W
<1>3. PICK q : /\ q[0] = {a} /\ \A j \in Nat : j + 1 <= k + 1 => q[j + 1] = W(q[j])
               /\ R(k + 1) = q[k + 1]
  <2>1. k + 1 \in Nat
    OBVIOUS
  <2>2. \E q : ReachOf(q, a, k + 1, self, nbrs, db)
    BY <2>1, WithinSolved
  <2> QED
    BY <2>2 DEF ReachOf, R, W
<1> DEFINE Q == {j \in Nat : j <= k => r[j] = q[j]}
<1>4. 0 \in Q
  BY <1>2, <1>3
<1>5. ASSUME NEW j \in Nat, j \in Q PROVE j + 1 \in Q
  BY <1>2, <1>3, <1>5
<1>6. k \in Q
  <2> HIDE DEF Q
  <2> QED
    BY <1>4, <1>5, Counting
<1>7. q[k + 1] = W(q[k]) /\ r[k] = q[k]
  BY <1>3, <1>6
<1> QED
  BY <1>1, <1>2, <1>3, <1>7, Zenon DEF R, W

\* A router is no link away from itself.
LEMMA WithinSelf ==
  ASSUME NEW a, NEW self, NEW nbrs, NEW db PROVE a \in Within(a, 0, self, nbrs, db)
<1>1. Within(a, 0, self, nbrs, db) = {a}
  BY WithinIs
<1> QED
  BY <1>1

\* What is k links from a neighbour of x is at most k + 1 links from x.
LEMMA WithinFrom ==
  ASSUME NEW self, NEW nbrs, NEW db, NEW x, NEW w, w \in Links(x, self, nbrs, db),
         w \in Nodes(self, nbrs, db), NEW k \in Nat
  PROVE  Within(w, k, self, nbrs, db) \subseteq Within(x, k + 1, self, nbrs, db)
<1> DEFINE W(S) == Wider(S, self, nbrs, db)
           A(j) == Within(w, j, self, nbrs, db)
           B(j) == Within(x, j, self, nbrs, db)
           Q == {j \in Nat : A(j) \subseteq B(j + 1)}
<1>1. A(0) = {w} /\ \A j \in Nat : A(j + 1) = W(A(j))
  BY WithinIs
<1>2. B(0) = {x} /\ \A j \in Nat : B(j + 1) = W(B(j))
  BY WithinIs
<1>3. \A S, T : S \subseteq T => W(S) \subseteq W(T)
  BY DEF Wider
<1>4. w \in W({x})
  BY DEF Wider
<1> HIDE DEF A, B, W
<1>5. 0 \in Q
  <2>1. B(0 + 1) = W({x})
    BY <1>2
  <2> QED
    BY <1>1, <1>4, <2>1
<1>6. ASSUME NEW j \in Nat, j \in Q PROVE j + 1 \in Q
  <2>1. j + 1 \in Nat /\ A(j) \subseteq B(j + 1)
    BY <1>6
  <2>2. A(j + 1) = W(A(j)) /\ B((j + 1) + 1) = W(B(j + 1))
    BY <1>1, <1>2, <2>1, Zenon
  <2>3. A(j + 1) \subseteq B((j + 1) + 1)
    BY <1>3, <2>1, <2>2
  <2> QED
    BY <2>1, <2>3
<1>7. k \in Q
  <2> HIDE DEF Q
  <2> QED
    BY <1>5, <1>6, Counting
<1> QED
  BY <1>7 DEF A, B

\* When the loop has ended, what is k links away has a cost of at most k.
LEMMA CostIsLeast ==
  ASSUME NEW self, NEW nbrs, NEW db, NEW nodes, nodes = Nodes(self, nbrs, db), NEW inf \in Nat,
         inf >= 2, NEW st, LoopInv(self, nbrs, db, nodes, inf, st), Ended(nodes, inf, st),
         NEW k \in Nat, NEW v \in Within(self, k, self, nbrs, db)
  PROVE  v \in nodes /\ st.cost[v] <= k /\ st.cost[v] < inf
<1> DEFINE A(j) == Within(self, j, self, nbrs, db)
           P(x, j) == x \in nodes /\ st.cost[x] <= j /\ st.cost[x] < inf
           Q == {j \in Nat : \A x \in A(j) : P(x, j)}
<1>0. /\ \A x \in nodes : st.cost[x] \in 0..inf
      /\ \A u \in st.visited : \A x \in Adjacent(u, db) \cap nodes :
           st.cost[x] <= st.cost[u] + 1 /\ st.cost[x] < inf
      /\ st.cost[self] = 0 /\ \A x \in nodes : InSeq(x, nbrs) => st.cost[x] <= 1
      /\ \A x \in nodes : st.cost[x] < inf => x \in st.visited
  BY DEF LoopInv, SpfStates, Relaxed, Treed, Ended
<1>1. A(0) = {self} /\ \A j \in Nat : A(j + 1) = Wider(A(j), self, nbrs, db)
  BY WithinIs
<1> HIDE DEF A
<1>2. 0 \in Q
  <2>1. self \in nodes
    BY DEF Nodes
  <2> QED
    BY <1>0, <1>1, <2>1
<1>3. ASSUME NEW j \in Nat, j \in Q PROVE j + 1 \in Q
  <2> SUFFICES ASSUME NEW x \in A(j + 1) PROVE P(x, j + 1)
    OBVIOUS
  <2>1. \A y \in A(j) : P(y, j)
    BY <1>3
  <2>2. CASE x \in A(j)
    <3>1. P(x, j)
      BY <2>1, <2>2
    <3>2. st.cost[x] \in Nat
      BY <1>0, <3>1
    <3> QED
      BY <3>1, <3>2
  <2>3. CASE x \notin A(j)
    <3>1. PICK y \in A(j) : x \in Links(y, self, nbrs, db) /\ x \in nodes
      BY <1>1, <2>3 DEF Wider
    <3>2. P(y, j) /\ st.cost[y] \in 0..inf /\ st.cost[x] \in 0..inf
      BY <1>0, <2>1, <3>1
    <3>3. CASE y = self
      <4>1. InSeq(x, nbrs)
        BY <3>1, <3>3 DEF Links, InSeq
      <4>2. st.cost[x] <= 1
        BY <1>0, <3>1, <4>1
      <4> QED
        BY <3>1, <3>2, <4>2
    <3>4. CASE y # self
      <4>1. x \in Adjacent(y, db)
        BY <3>1, <3>4 DEF Links
      <4>2. y \in st.visited
        BY <1>0, <3>2
      <4>3. st.cost[x] <= st.cost[y] + 1 /\ st.cost[x] < inf
        BY <1>0, <3>1, <4>1, <4>2
      <4> QED
        BY <3>1, <3>2, <4>3
    <3> QED
      BY <3>3, <3>4
  <2> QED
    BY <2>2, <2>3
<1>4. k \in Q
  <2> HIDE DEF Q
  <2> QED
    BY <1>2, <1>3, Counting
<1>5. v \in A(k)
  BY DEF A
<1> QED
  BY <1>4, <1>5

-----------------------------------------------------------------------------
(***************************************************************************)
(* The walk back along the predecessors, and the routes that come of it.   *)
(***************************************************************************)

\* One step back on the path.
Back(v, self, pre) == IF v \notin DOMAIN pre \/ pre[v] = self THEN v ELSE pre[v]

\* Where the walk of mospf_dijkstra stops: v is no node, or next to the router.
Stops(v, self, pre) == v \notin DOMAIN pre \/ pre[v] = self

\* The nodes on the way back from origin.
BackOf(back, self, pre, origin) ==
  /\ back[0] = origin
  /\ \A k \in Nat : k + 1 <= Cardinality(DOMAIN pre) => back[k + 1] = Back(back[k], self, pre)
  /\ FirstHop(self, pre, origin) = back[Cardinality(DOMAIN pre)]

\* The recursion of FirstHop has a solution.
LEMMA BackExists ==
  ASSUME NEW self, NEW nodes, NEW pre \in [nodes -> nodes \cup {NoRouter}], NEW origin \in nodes,
         Cardinality(nodes) \in Nat
  PROVE  \E back : BackOf(back, self, pre, origin)
<1> DEFINE n == Cardinality(DOMAIN pre)
           V == nodes \cup {NoRouter}
           B(v) == Back(v, self, pre)
           step == [p \in (1..n) \X V |-> B(p[2])]
           back[k \in 0..n] == IF k = 0 THEN origin ELSE B(back[k - 1])
<1>0. n \in Nat /\ DOMAIN pre = nodes
  OBVIOUS
<1>1. \A v \in V : B(v) \in V
  BY DEF Back
<1>2. FirstHop(self, pre, origin) = back[n]
  <2> DEFINE b[k \in 0..Cardinality(DOMAIN pre)] ==
               IF k = 0 THEN origin
               ELSE LET v == b[k - 1]
                    IN  IF v \notin DOMAIN pre \/ pre[v] = self THEN v ELSE pre[v]
  <2>1. FirstHop(self, pre, origin) = b[Cardinality(DOMAIN pre)]
    BY Zenon DEF FirstHop
  <2>2. b = back
    BY Zenon DEF Back
  <2> QED
    BY <2>1, <2>2, Zenon
<1> HIDE DEF n, V, B
<1>3. step \in [(1..n) \X V -> V]
  BY <1>1
<1>4. PICK F \in [0..n -> V] : Solves(F, n, origin, step)
  <2>1. origin \in V
    BY DEF V
  <2> HIDE DEF step
  <2> QED
    BY <1>0, <2>1, <1>3, RecursionExists
<1>5. F = [k \in 0..n |-> IF k = 0 THEN origin ELSE B(F[k - 1])]
  <2>1. ASSUME NEW k \in 0..n PROVE F[k] = IF k = 0 THEN origin ELSE B(F[k - 1])
    <3>1. CASE k = 0
      BY <1>4, <3>1 DEF Solves
    <3>2. CASE k # 0
      <4>1. k \in 1..n /\ k - 1 \in 0..n /\ F[k - 1] \in V
        BY <1>0, <1>4, <3>2
      <4>2. F[k] = step[<<k, F[k - 1]>>]
        BY <1>4, <4>1 DEF Solves
      <4> QED
        BY <3>2, <4>1, <4>2
    <3> QED
      BY <3>1, <3>2
  <2> QED
    BY <2>1, <1>4
<1>6. back = [k \in 0..n |-> IF k = 0 THEN origin ELSE B(back[k - 1])]
  BY <1>5, Zenon
<1> HIDE DEF back
<1>7. back[0] = origin
  BY <1>0, <1>6
<1>8. ASSUME NEW k \in Nat, k + 1 <= n PROVE back[k + 1] = B(back[k])
  <2>1. k + 1 \in 0..n /\ k + 1 # 0 /\ (k + 1) - 1 = k
    BY <1>0, <1>8
  <2> QED
    BY <1>6, <2>1
<1> QED
  BY <1>2, <1>7, <1>8 DEF BackOf, n, B

\* A router that is not reached leads to id 0.
LEMMA NoHop ==
  ASSUME NEW self, NEW nbrs, NEW db, NEW nodes, IsFiniteSet(nodes), NoRouter \notin nodes,
         self # NoRouter, NEW inf, inf = Cardinality(nodes) + 1, NEW st,
         LoopInv(self, nbrs, db, nodes, inf, st), NEW origin \in nodes \ {self}, st.cost[origin] = inf
  PROVE  FirstHop(self, st.pre, origin) = NoRouter
<1> DEFINE n == Cardinality(nodes)
           pre == st.pre
<1>0. n \in Nat /\ n # 0
  BY FS_CardinalityType, FS_EmptySet
<1>1. pre \in [nodes -> nodes \cup {NoRouter}]
  BY DEF LoopInv, SpfStates
<1>2. pre[origin] = NoRouter
  <2>1. Linked(self, nbrs, db, inf, st, origin)
    BY DEF LoopInv, Treed
  <2> QED
    BY <1>0, <2>1 DEF Linked
<1> HIDE DEF pre
<1>3. PICK back : BackOf(back, self, pre, origin)
  BY <1>0, <1>1, BackExists
<1>4. /\ back[0] = origin /\ FirstHop(self, pre, origin) = back[n]
      /\ \A k \in Nat : k + 1 <= n => back[k + 1] = Back(back[k], self, pre)
  BY <1>1, <1>3 DEF BackOf
<1> HIDE DEF n
<1> DEFINE Q == {k \in Nat : k + 1 <= n => back[k + 1] = NoRouter}
<1>5. 0 \in Q
  <2>1. Back(origin, self, pre) = NoRouter
    BY <1>1, <1>2 DEF Back
  <2> QED
    BY <1>0, <1>4, <2>1
<1>6. ASSUME NEW k \in Nat, k \in Q PROVE k + 1 \in Q
  <2>1. Back(NoRouter, self, pre) = NoRouter
    BY <1>1 DEF Back
  <2> QED
    BY <1>0, <1>4, <1>6, <2>1
<1>7. Nat \subseteq Q
  <2> HIDE DEF Q
  <2> QED
    BY <1>5, <1>6, Counting
<1>8. n - 1 \in Nat /\ (n - 1) + 1 = n
  BY <1>0
<1>9. n - 1 \in Q
  BY <1>7, <1>8
<1> QED
  BY <1>0, <1>4, <1>8, <1>9 DEF pre

\* A router that is reached leads to a neighbour, on a path as long as its cost.
LEMMA HopIs ==
  ASSUME NEW self, NEW nbrs, NEW db, NEW nodes, nodes = Nodes(self, nbrs, db), IsFiniteSet(nodes),
         NEW inf, inf = Cardinality(nodes) + 1, NEW st,
         LoopInv(self, nbrs, db, nodes, inf, st), NEW origin \in nodes \ {self}, st.cost[origin] < inf,
         NEW h, h = FirstHop(self, st.pre, origin)
  PROVE  /\ InSeq(h, nbrs) /\ st.pre[h] = self
         /\ st.cost[origin] \in 1..Cardinality(nodes)
         /\ origin \in Within(h, st.cost[origin] - 1, self, nbrs, db)
<1> DEFINE n == Cardinality(nodes)
           pre == st.pre
           c == st.cost[origin]
<1>0. n \in Nat
  BY FS_CardinalityType
<1>1. /\ pre \in [nodes -> nodes \cup {NoRouter}] /\ \A v \in nodes : st.cost[v] \in 0..inf
      /\ st.cost[self] = 0 /\ st.visited \subseteq nodes
      /\ \A v \in nodes \ {self} : st.cost[v] > 0 /\ Linked(self, nbrs, db, inf, st, v)
  BY DEF LoopInv, SpfStates, Treed
<1>2. c \in 1..n
  BY <1>0, <1>1
<1>3. PICK back : BackOf(back, self, pre, origin)
  <2> HIDE DEF pre
  <2> QED
    BY <1>0, <1>1, BackExists
<1>4. /\ back[0] = origin /\ h = back[n] /\ DOMAIN pre = nodes
      /\ \A k \in Nat : k + 1 <= n => back[k + 1] = Back(back[k], self, pre)
  BY <1>1, <1>3 DEF BackOf
<1> HIDE DEF n, c
\* on the way the cost falls by one with every step, up to a neighbour
<1> DEFINE On(v, k) == v \in nodes \ {self} /\ st.cost[v] = c - k /\ origin \in Within(v, k, self, nbrs, db)
           Q == {k \in Nat : k <= c - 1 => On(back[k], k)}
<1>5. 0 \in Q
  <2>1. origin \in Within(origin, 0, self, nbrs, db)
    BY WithinSelf, Zenon
  <2>2. st.cost[origin] = c - 0
    BY <1>2 DEF c
  <2> QED
    BY <1>4, <2>1, <2>2
<1>6. ASSUME NEW v, NEW k \in Nat, On(v, k), k + 1 <= c - 1
      PROVE  Back(v, self, pre) = pre[v] /\ On(pre[v], k + 1)
  <2>1. st.cost[v] # inf /\ st.cost[v] # 1
    BY <1>0, <1>2, <1>6 DEF n
  <2>2. /\ pre[v] \in st.visited \ {self} /\ v \in Adjacent(pre[v], db)
        /\ st.cost[v] = st.cost[pre[v]] + 1
    BY <1>1, <1>6, <2>1 DEF Linked
  <2>3. Back(v, self, pre) = pre[v]
    BY <1>4, <1>6, <2>2 DEF Back
  <2>4. pre[v] \in nodes \ {self} /\ st.cost[pre[v]] \in Nat
    BY <1>1, <2>2
  <2>5. st.cost[pre[v]] = c - (k + 1)
    BY <1>2, <1>6, <2>2, <2>4
  <2>6. v \in Links(pre[v], self, nbrs, db) /\ v \in Nodes(self, nbrs, db)
    BY <1>6, <2>2 DEF Links
  <2>7. origin \in Within(pre[v], k + 1, self, nbrs, db)
    BY <1>6, <2>6, WithinFrom
  <2> QED
    BY <2>3, <2>4, <2>5, <2>7
<1>7. ASSUME NEW k \in Nat, k \in Q PROVE k + 1 \in Q
  <2> HIDE DEF On, pre
  <2> SUFFICES ASSUME k + 1 <= c - 1 PROVE On(back[k + 1], k + 1)
    BY DEF Q
  <2>1. On(back[k], k) /\ k + 1 <= n
    BY <1>0, <1>2, <1>7
  <2>2. back[k + 1] = Back(back[k], self, pre)
    BY <1>4, <2>1
  <2> QED
    BY <1>6, <2>1, <2>2
<1>8. On(back[c - 1], c - 1)
  <2>1. c - 1 \in Nat /\ c - 1 <= c - 1
    BY <1>2
  <2>2. c - 1 \in Q
    <3> HIDE DEF Q
    <3> QED
      BY <1>5, <1>7, <2>1, Counting
  <2> HIDE DEF On
  <2> QED
    BY <2>1, <2>2
<1> DEFINE f == back[c - 1]
<1>9. pre[f] = self /\ InSeq(f, nbrs) /\ f \in nodes
  <2>1. f \in nodes \ {self} /\ st.cost[f] = 1
    BY <1>2, <1>8
  <2> HIDE DEF f
  <2>2. ~(pre[f] \in st.visited \ {self} /\ st.cost[f] = st.cost[pre[f]] + 1)
    <3> SUFFICES ASSUME pre[f] \in st.visited \ {self}, st.cost[f] = st.cost[pre[f]] + 1 PROVE FALSE
      OBVIOUS
    <3>1. pre[f] \in nodes \ {self}
      BY <1>1
    <3>2. st.cost[pre[f]] \in Nat /\ st.cost[pre[f]] > 0
      BY <1>1, <3>1
    <3> QED
      BY <2>1, <3>2
  <2>3. inf # 1
    BY <1>0, <1>2 DEF n
  <2>4. Linked(self, nbrs, db, inf, st, f)
    BY <1>1, <2>1
  <2> QED
    BY <2>1, <2>2, <2>3, <2>4 DEF Linked
\* where it stays
<1> DEFINE S == {k \in Nat : (c - 1) + k <= n => back[(c - 1) + k] = f}
<1>10. 0 \in S
  BY <1>2
<1>11. ASSUME NEW k \in Nat, k \in S PROVE k + 1 \in S
  <2> SUFFICES ASSUME (c - 1) + (k + 1) <= n PROVE back[(c - 1) + (k + 1)] = f
    OBVIOUS
  <2> DEFINE j == (c - 1) + k
  <2>1. j \in Nat /\ j + 1 = (c - 1) + (k + 1) /\ j <= n /\ j + 1 <= n
    BY <1>0, <1>2
  <2>2. back[j] = f
    BY <1>11, <2>1
  <2> HIDE DEF j, f, S
  <2>3. back[j + 1] = Back(f, self, pre)
    BY <1>4, <2>1, <2>2
  <2>4. Back(f, self, pre) = f
    BY <1>9 DEF Back
  <2> QED
    BY <2>1, <2>3, <2>4
<1>12. h = f
  <2>1. n - (c - 1) \in Nat /\ (c - 1) + (n - (c - 1)) = n
    BY <1>0, <1>2
  <2>2. n - (c - 1) \in S
    <3> HIDE DEF S
    <3> QED
      BY <1>10, <1>11, <2>1, Counting
  <2> HIDE DEF f
  <2> QED
    BY <1>0, <1>4, <2>1, <2>2
<1> QED
  BY <1>2, <1>8, <1>9, <1>12 DEF n, c

\* The routing table: a learned network leads to a neighbour on a shortest path,
\* and no network that a reachable router announces is left out.  The walk stops.
LEMMA RoutesShortest ==
  ASSUME NEW R, NEW D, NEW self, NEW nbrs \in Seq(R), NEW db \in Seq(D), NEW connected,
         self \notin Rids(db), NoRouter \notin Nodes(self, nbrs, db),
         NEW routes, routes = Routes(self, nbrs, db, connected)
  PROVE  /\ \A n \in DOMAIN routes \ connected : \E k \in DOMAIN db :
              /\ \E l \in db[k].lsa : l.network = n
              /\ OnShortestPath(routes[n], db[k].rid, self, nbrs, db)
         /\ \A k \in DOMAIN db : Reachable(db[k].rid, self, nbrs, db) =>
              \A l \in db[k].lsa : l.network \in DOMAIN routes
         /\ \A k \in DOMAIN db :
              LET pre == Predecessors(self, nbrs, db)
              IN  Stops(FirstHop(self, pre, db[k].rid), self, pre)
<1> DEFINE nodes == Nodes(self, nbrs, db)
           order == AllNodes(self, nbrs, db)
           inf == Cardinality(nodes) + 1
           far == Far(db, nbrs)
           pre == Predecessors(self, nbrs, db)
           hop == [i \in DOMAIN db |-> FirstHop(self, pre, db[i].rid)]
           offers(n) == {i \in DOMAIN db : /\ db[i].rid # self
                                           /\ \E l \in db[i].lsa : l.network = n
                                           /\ InSeq(hop[i], nbrs)}
           learned == {n \in UNION {{l.network : l \in db[i].lsa} : i \in DOMAIN db} : offers(n) # {}}
           table == [n \in connected \cup learned |-> IF n \in connected THEN Direct ELSE hop[Min(offers(n))]]
<1>1. routes = table
  BY Zenon DEF Routes
<1> HIDE DEF table
<1>2. Lists(order, nodes) /\ Len(order) <= far
  BY NodesListed
<1>3. self \in nodes /\ (\A k \in DOMAIN db : db[k].rid \in nodes \ {self}) /\ self # NoRouter
  BY DEF Nodes, Rids
<1>4. IsFiniteSet(nodes) /\ Cardinality(nodes) \in Nat /\ Cardinality(nodes) <= Len(order) /\ inf \in Nat /\ inf >= 2
  <2> HIDE DEF nodes, order
  <2>1. IsFiniteSet(nodes) /\ Cardinality(nodes) <= Len(order)
    BY <1>2, ListedNodes
  <2>2. Cardinality(nodes) \in Nat
    BY <2>1, FS_CardinalityType
  <2>3. Cardinality(nodes) # 0
    BY <1>3, <2>1, FS_EmptySet
  <2> QED
    BY <2>1, <2>2, <2>3
<1>5. far \in Nat
  BY DEF Far
<1>6. PICK st : /\ LoopInv(self, nbrs, db, nodes, inf, st) /\ Ended(nodes, inf, st)
                /\ pre = st.pre
  <2> HIDE DEF nodes, order
  <2>1. inf = Cardinality(nodes) + 1 /\ order = AllNodes(self, nbrs, db)
    BY DEF order
  <2> HIDE DEF inf, pre
  <2> QED
    BY <1>2, <1>3, <2>1, LoopEnds DEF pre
<1> HIDE DEF nodes, order, pre, far, inf, hop
<1>7. \A k \in DOMAIN db : st.cost[db[k].rid] \in 0..inf
  <2>1. st.cost \in [nodes -> 0..inf]
    BY <1>6 DEF LoopInv, SpfStates
  <2> QED
    BY <1>3, <2>1
<1>8. ASSUME NEW k \in DOMAIN db, st.cost[db[k].rid] < inf
      PROVE  /\ InSeq(hop[k], nbrs) /\ OnShortestPath(hop[k], db[k].rid, self, nbrs, db)
             /\ pre[hop[k]] = self
  <2> DEFINE origin == db[k].rid
             h == hop[k]
             c == st.cost[origin]
  <2>1. h = FirstHop(self, st.pre, origin)
    BY <1>6 DEF hop
  <2>2. origin \in nodes \ {self} /\ st.cost[origin] < inf
    BY <1>3, <1>8
  <2>3. nodes = Nodes(self, nbrs, db) /\ inf = Cardinality(nodes) + 1
    BY DEF nodes, inf
  <2> HIDE DEF origin, h
  <2>4. /\ InSeq(h, nbrs) /\ st.pre[h] = self /\ c \in 1..Cardinality(nodes)
        /\ origin \in Within(h, c - 1, self, nbrs, db)
    BY <1>4, <1>6, <2>1, <2>2, <2>3, HopIs
  <2> HIDE DEF c
  <2>5. origin \notin Within(self, c - 1, self, nbrs, db)
    <3> SUFFICES ASSUME origin \in Within(self, c - 1, self, nbrs, db) PROVE FALSE
      OBVIOUS
    <3>1. c - 1 \in Nat /\ ~(c <= c - 1)
      BY <1>4, <2>4
    <3>2. st.cost[origin] <= c - 1
      BY <1>4, <1>6, <2>3, <3>1, CostIsLeast
    <3> QED
      BY <3>1, <3>2 DEF c
  <2>6. c \in 1..far
    <3> DEFINE a == Cardinality(nodes)
               b == Len(order)
    <3>1. b \in Nat /\ a \in Nat /\ a <= b /\ b <= far
      BY <1>2, <1>4 DEF Lists
    <3> HIDE DEF a, b
    <3> QED
      BY <1>5, <2>4, <3>1 DEF a
  <2> QED
    BY <1>6, <2>4, <2>5, <2>6 DEF OnShortestPath, origin, h, far
<1>9. ASSUME NEW k \in DOMAIN db, ~(st.cost[db[k].rid] < inf)
      PROVE  ~InSeq(hop[k], nbrs) /\ hop[k] = NoRouter
  <2> DEFINE origin == db[k].rid
  <2>1. origin \in nodes \ {self}
    BY <1>3
  <2>2. st.cost[origin] = inf
    BY <1>4, <1>7, <1>9
  <2>3. inf = Cardinality(nodes) + 1 /\ NoRouter \notin nodes
    BY DEF nodes, inf
  <2> HIDE DEF origin
  <2>4. FirstHop(self, st.pre, origin) = NoRouter
    BY <1>3, <1>4, <1>6, <2>1, <2>2, <2>3, NoHop
  <2>5. hop[k] = NoRouter
    BY <1>6, <2>4 DEF hop, origin
  <2>6. ~InSeq(NoRouter, nbrs)
    BY DEF InSeq, Nodes
  <2> QED
    BY <2>5, <2>6
<1>10. ASSUME NEW n \in DOMAIN routes \ connected
       PROVE  \E k \in DOMAIN db :
              /\ \E l \in db[k].lsa : l.network = n
              /\ OnShortestPath(routes[n], db[k].rid, self, nbrs, db)
  <2>1. offers(n) # {} /\ routes[n] = hop[Min(offers(n))]
    BY <1>1, <1>10 DEF table
  <2> DEFINE k == Min(offers(n))
  <2>2. k \in offers(n)
    <3>1. offers(n) \subseteq Nat
      OBVIOUS
    <3> HIDE DEF offers
    <3> QED
      BY <2>1, <3>1, MinIs
  <2> HIDE DEF k
  <2>3. k \in DOMAIN db /\ (\E l \in db[k].lsa : l.network = n) /\ InSeq(hop[k], nbrs)
    BY <2>2
  <2>4. st.cost[db[k].rid] < inf
    BY <1>9, <2>3
  <2> QED
    BY <1>8, <2>1, <2>3, <2>4 DEF k
<1>11. ASSUME NEW k \in DOMAIN db, Reachable(db[k].rid, self, nbrs, db), NEW l \in db[k].lsa
       PROVE  l.network \in DOMAIN routes
  <2>1. db[k].rid \in Within(self, far, self, nbrs, db)
    BY <1>11 DEF Reachable, far
  <2>2. st.cost[db[k].rid] < inf
    BY <1>4, <1>5, <1>6, <2>1, CostIsLeast DEF nodes
  <2>3. InSeq(hop[k], nbrs)
    BY <1>8, <2>2
  <2>4. k \in offers(l.network)
    BY <1>3, <2>3
  <2> HIDE DEF offers
  <2>5. l.network \in learned
    BY <2>4
  <2> QED
    BY <1>1, <2>5 DEF table
<1>12. ASSUME NEW k \in DOMAIN db PROVE Stops(FirstHop(self, pre, db[k].rid), self, pre)
  <2>1. hop[k] = FirstHop(self, pre, db[k].rid)
    BY DEF hop
  <2>2. NoRouter \notin DOMAIN pre
    BY <1>6 DEF LoopInv, SpfStates, nodes
  <2> QED
    BY <1>8, <1>9, <2>1, <2>2 DEF Stops
<1> QED
  BY <1>10, <1>11, <1>12 DEF pre

\* Lists of one kind, one after the other, are a list of that kind.
LEMMA FlattenTyped ==
  ASSUME NEW A, NEW seqs \in Seq(Seq(A)) PROVE FlattenSeq(seqs) \in Seq(A)
<1> DEFINE n == Len(seqs)
           V == Seq(A)
           flatten[i \in 1..n] == IF i = 1 THEN seqs[i] ELSE flatten[i - 1] \o seqs[i]
<1>0. n \in Nat /\ \A i \in 1..n : seqs[i] \in V
  OBVIOUS
<1>1. ASSUME n = 0 PROVE FlattenSeq(seqs) \in Seq(A)
  <2>1. <<>> \in V /\ seqs = <<>>
    BY <1>1
  <2>2. FlattenSeq(seqs) = seqs
    BY <1>1, Zenon DEF FlattenSeq
  <2> HIDE DEF flatten
  <2> QED
    BY <2>1, <2>2
<1>2. ASSUME n # 0 PROVE FlattenSeq(seqs) \in Seq(A)
  <2> DEFINE m == n - 1
             base == seqs[1]
             step == [p \in (1..m) \X V |-> p[2] \o seqs[p[1] + 1]]
  <2>1. m \in Nat /\ base \in V /\ (\A k \in 1..m : k + 1 \in 1..n)
    BY <1>0, <1>2
  <2>2. step \in [(1..m) \X V -> V]
    <3>1. ASSUME NEW k \in 1..m, NEW s \in V PROVE s \o seqs[k + 1] \in V
      <4>1. s \in V /\ seqs[k + 1] \in V
        BY <1>0, <2>1, <3>1
      <4> QED
        BY <4>1
    <3> HIDE DEF m, V
    <3> QED
      BY <3>1
  <2>3. PICK F \in [0..m -> V] : F[0] = base /\ \A i \in 1..m : F[i] = step[<<i, F[i - 1]>>]
    <3>1. \E F \in [0..m -> V] : Solves(F, m, base, step)
      <4> HIDE DEF m, V, base, step
      <4> QED
        BY <2>1, <2>2, RecursionExists
    <3> QED
      BY <3>1 DEF Solves
  <2> DEFINE G == [i \in 1..n |-> F[i - 1]]
  <2>4. ASSUME NEW i \in 1..n PROVE G[i] = IF i = 1 THEN seqs[i] ELSE G[i - 1] \o seqs[i]
    <3>1. G[i] = F[i - 1]
      BY <2>4
    <3>2. ASSUME i # 1 PROVE F[i - 1] = G[i - 1] \o seqs[i]
      <4>1. i - 1 \in 1..m /\ i - 1 \in 1..n /\ (i - 1) + 1 = i /\ (i - 1) - 1 \in 0..m
        BY <1>0, <2>1, <3>2
      <4>2. F[i - 1] = step[<<i - 1, F[(i - 1) - 1]>>] /\ F[(i - 1) - 1] \in V
        BY <2>3, <4>1
      <4>3. G[i - 1] = F[(i - 1) - 1]
        BY <4>1
      <4> HIDE DEF m, V, G
      <4> QED
        BY <4>1, <4>2, <4>3
    <3>3. ASSUME i = 1 PROVE F[i - 1] = seqs[i]
      <4>1. i - 1 = 0
        BY <3>3
      <4> QED
        BY <2>3, <3>3, <4>1, Zenon
    <3> HIDE DEF G
    <3> QED
      BY <3>1, <3>2, <3>3, Zenon
  <2>5. G = [i \in 1..n |-> IF i = 1 THEN seqs[i] ELSE G[i - 1] \o seqs[i]]
    <3>1. G = [i \in 1..n |-> G[i]]
      OBVIOUS
    <3> HIDE DEF G
    <3> QED
      BY <2>4, <3>1
  <2>6. flatten = [i \in 1..n |-> IF i = 1 THEN seqs[i] ELSE flatten[i - 1] \o seqs[i]]
    <3> HIDE DEF n, G
    <3> QED
      BY <2>5, Zenon
  <2>7. FlattenSeq(seqs) = flatten[n]
    BY <1>2, Zenon DEF FlattenSeq
  <2> HIDE DEF flatten
  <2> DEFINE Q == {k \in Nat : k + 1 <= n => flatten[k + 1] \in V}
  <2>8. 0 \in Q
    BY <1>0, <2>1, <2>6
  <2>9. ASSUME NEW k \in Nat, k \in Q PROVE k + 1 \in Q
    <3> SUFFICES ASSUME (k + 1) + 1 <= n PROVE flatten[(k + 1) + 1] \in V
      OBVIOUS
    <3>1. k + 1 <= n /\ (k + 1) + 1 \in 1..n /\ (k + 1) + 1 # 1 /\ ((k + 1) + 1) - 1 = k + 1
      BY <1>0
    <3>2. flatten[k + 1] \in V /\ seqs[(k + 1) + 1] \in V
      BY <1>0, <2>9, <3>1
    <3>3. flatten[(k + 1) + 1] = flatten[k + 1] \o seqs[(k + 1) + 1]
      <4> HIDE DEF n
      <4> QED
        BY <2>6, <3>1
    <3> DEFINE a == flatten[k + 1]
               b == seqs[(k + 1) + 1]
    <3> HIDE DEF a, b
    <3>4. a \o b \in V
      BY <3>2 DEF a, b
    <3> QED
      BY <3>3, <3>4 DEF a, b
  <2>10. m \in Q
    <3> HIDE DEF Q, m
    <3> QED
      BY <2>1, <2>8, <2>9, Counting
  <2>11. m + 1 = n
    BY <1>0, <2>1
  <2> QED
    BY <1>0, <2>7, <2>10, <2>11
<1> QED
  BY <1>1, <1>2

-----------------------------------------------------------------------------
(***************************************************************************)
(* The invariant gives the inputs of the computation: lists without id 0,  *)
(* a database without the router itself.                                   *)
(***************************************************************************)

\* The neighbours, interface by interface, are a list of attached routers.
LEMMA NbrsTyped == ASSUME NbrInv PROVE Nbrs \in Seq(UNION {Peers[i] : i \in Ifaces})
<1> DEFINE A == UNION {Peers[i] : i \in Ifaces}
           ids == [i \in Ifaces |-> [k \in DOMAIN nbr_list[i] |-> nbr_list[i][k].nbr_id]]
<1>1. ASSUME NEW i \in Ifaces PROVE ids[i] \in Seq(A)
  <2> DEFINE s == nbr_list[i]
             t == [k \in DOMAIN s |-> s[k].nbr_id]
  <2>1. s \in Seq(Nbr(i)) /\ Peers[i] \subseteq A
    BY DEF NbrInv
  <2>2. DOMAIN s = 1..Len(s) /\ Len(s) \in Nat /\ \A k \in DOMAIN s : s[k] \in Nbr(i)
    BY <2>1
  <2>3. \A k \in DOMAIN s : s[k].nbr_id \in A
    BY <2>1, <2>2 DEF Nbr
  <2> HIDE DEF s, A
  <2>4. t \in Seq(A)
    BY <2>2, <2>3
  <2> QED
    BY <2>4 DEF s
<1>2. Ifaces = 1..Len(IfaceNet) /\ Len(IfaceNet) \in Nat
  BY MospfAssumption DEF Ifaces
<1>3. ids \in Seq(Seq(A))
  <2>1. ids = [i \in Ifaces |-> ids[i]]
    OBVIOUS
  <2> HIDE DEF ids, A
  <2> QED
    BY <1>1, <1>2, <2>1
<1>4. Nbrs = FlattenSeq(ids)
  BY DEF Nbrs
<1> HIDE DEF ids, A
<1>5. FlattenSeq(ids) \in Seq(A)
  BY <1>3, FlattenTyped
<1> QED
  BY <1>4, <1>5 DEF A

\* From every router in the database mospf_dijkstra's walk back along the
\* predecessors stops: it does not go round for ever (the packet thread would,
\* with mospf_lock held).
WalkEnds ==
  LET pre == Predecessors(me, Nbrs, mospf_db)
  IN  \A k \in DOMAIN mospf_db : Stops(FirstHop(me, pre, mospf_db[k].rid), me, pre)

\* The routes computed from the lists of the moment are shortest ones.
LEMMA InvShortest == ASSUME Inv PROVE SpfIsShortest /\ WalkEnds
<1> DEFINE A == UNION {Peers[i] : i \in Ifaces}
           db == mospf_db
           nbrs == Nbrs
           routes == Routes(me, Nbrs, mospf_db, Connected)
<1>1. nbrs \in Seq(A) /\ db \in Seq(Entry)
  BY NbrsTyped DEF Inv, DbInv
<1>2. NoRouter \notin A /\ me # NoRouter
  BY MospfAssumption DEF Ifaces
<1>3. \A k \in DOMAIN db : db[k].rid # me /\ db[k].rid # NoRouter
  <2>1. \A k \in DOMAIN db : db[k] \in Entry
    BY <1>1
  <2> QED
    BY <2>1, MospfAssumption DEF Entry
<1> HIDE DEF A, db, nbrs
<1>4. me \notin Rids(db) /\ NoRouter \notin Nodes(me, nbrs, db)
  <2>1. \A i \in DOMAIN nbrs : nbrs[i] \in A
    BY <1>1
  <2> QED
    BY <1>2, <1>3, <2>1 DEF Rids, Nodes
<1>5. routes = Routes(me, nbrs, db, Connected)
  BY DEF nbrs, db
<1> HIDE DEF routes
<1>6. /\ \A n \in DOMAIN routes \ Connected : \E k \in DOMAIN db :
           /\ \E l \in db[k].lsa : l.network = n
           /\ OnShortestPath(routes[n], db[k].rid, me, nbrs, db)
      /\ \A k \in DOMAIN db : Reachable(db[k].rid, me, nbrs, db) =>
           \A l \in db[k].lsa : l.network \in DOMAIN routes
      /\ \A k \in DOMAIN db :
           LET pre == Predecessors(me, nbrs, db)
           IN  Stops(FirstHop(me, pre, db[k].rid), me, pre)
  BY <1>1, <1>4, <1>5, RoutesShortest
<1>7. SpfIsShortest
  BY <1>6, Zenon DEF SpfIsShortest, routes, nbrs, db
<1>8. WalkEnds
  BY <1>6, Zenon DEF WalkEnds, nbrs, db
<1> QED
  BY <1>7, <1>8

-----------------------------------------------------------------------------
\* The lists, numbers and counts of the daemon keep their types and ranges; no router
\* is twice in a list (handle_mospf_lsu, update_nbr_list_via_hello search it first).
THEOREM MospfTypeOK == Spec => []TypeOK
BY InitInv, StepInv, InvType, PTL DEF Spec

\* Two LSUs with one number differ only if one was sent between the building and the
\* sending of the neighbour check's (checking_nbr_thread).
THEOREM NumbersNameContent == Spec => []SeqNamesContent
<1>1. Inv => SeqNamesContent
  BY DEF Inv, SeqInv, SeqNamesContent
<1> QED
  BY <1>1, InitInv, StepInv, PTL DEF Spec

\* When no spf_run is under way there are routes, and unless the last two overlapped
\* the learned ones are of routers in the database (spf_run, checking_database_thread).
THEOREM RoutesAreAnnounced == Spec => []RoutesComeFromDb
BY InitInv, StepInv, InvRoutes, PTL DEF Spec

\* Whatever hellos and LSUs came, the routes mospf_dijkstra computes lead to a
\* neighbour on a shortest path to a router that announces the network, and
\* none that a reachable router announces is missing.
THEOREM RoutesAreShortest == Spec => []SpfIsShortest
BY InitInv, StepInv, InvShortest, PTL DEF Spec

\* The walk from an announcing router back to the first hop ends, in the code's
\* while (1) (mospf_daemon.c, line 351) and so in the bounded one of FirstHop.
THEOREM EveryWalkEnds == Spec => []WalkEnds
BY InitInv, StepInv, InvShortest, PTL DEF Spec
=============================================================================
