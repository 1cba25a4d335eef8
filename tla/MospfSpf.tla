------------------------------ MODULE MospfSpf ------------------------------
(***************************************************************************)
(* The shortest-path computation of the mOSPF daemon (mospf_dijkstra in    *)
(* code-exp7/mospf_daemon.c) as operators of its three inputs: the         *)
(* router's own id, its neighbours in interface order, and the link-state  *)
(* database, a sequence of entries [rid, lsa] in list order, where an LSA  *)
(* is [network, rid].  Every link costs 1.                                 *)
(***************************************************************************)
EXTENDS Naturals, Sequences, FiniteSets, FiniteSetsExt, Functions, Lists

\* Router id 0, which no router has: "no predecessor", "no neighbour".
NoRouter == "0"

Rids(db) == {db[i].rid : i \in DOMAIN db}
InSeq(v, s) == \E i \in DOMAIN s : s[i] = v

\* The list all_nodes: the database in order, the router itself, then the
\* neighbours that are not in it yet.
AllNodes(self, nbrs, db) ==
  LET base == [i \in DOMAIN db |-> db[i].rid] \o (IF self \in Rids(db) THEN <<>> ELSE <<self>>)
  IN  base \o Kept(nbrs, Range(nbrs) \ Range(base))

\* mutant: a neighbour that is in the database already keeps its infinite cost
StartForgetful(self, nbrs, db, nodes, inf) ==
  [cost |-> [v \in nodes |-> IF v = self THEN 0 ELSE IF InSeq(v, nbrs) /\ v \notin Rids(db) THEN 1 ELSE inf],
   pre |-> [v \in nodes |-> IF v # self /\ InSeq(v, nbrs) /\ v \notin Rids(db) THEN self ELSE NoRouter],
   visited |-> {}]

\* Cost, predecessor and visited flag before the first turn of the loop.
Start(self, nbrs, db, nodes, inf) ==
  [cost |-> [v \in nodes |-> IF v = self THEN 0 ELSE IF InSeq(v, nbrs) THEN 1 ELSE inf],
   pre |-> [v \in nodes |-> IF v # self /\ InSeq(v, nbrs) THEN self ELSE NoRouter],
   visited |-> {}]

\* The routers the entry of u names, if there is one (the first, as list order has it).
Adjacent(u, db) ==
  LET at == {i \in DOMAIN db : db[i].rid = u}
  IN  IF at = {} THEN {} ELSE {l.rid : l \in db[Min(at)].lsa}

\* One turn of the loop: the first of the nearest unvisited nodes is visited
\* and its links are relaxed; without a reachable one, the loop has ended.
Turn(st, order, db, inf) ==
  LET open == {i \in DOMAIN order : order[i] \notin st.visited /\ st.cost[order[i]] < inf}
      nearest == {i \in open : \A j \in open : st.cost[order[i]] <= st.cost[order[j]]}
      u == order[Min(nearest)]
      better == {v \in Adjacent(u, db) \cap DOMAIN st.cost :
                   v \notin st.visited \cup {u} /\ st.cost[u] + 1 < st.cost[v]}
  IN  IF open = {} THEN st
      ELSE [cost |-> [v \in DOMAIN st.cost |-> IF v \in better THEN st.cost[u] + 1 ELSE st.cost[v]],
            pre |-> [v \in DOMAIN st.pre |-> IF v \in better THEN u ELSE st.pre[v]],
            visited |-> st.visited \cup {u}]

\* The predecessors when the loop has ended.
Predecessors(self, nbrs, db) ==
  LET order == AllNodes(self, nbrs, db)
      nodes == {order[i] : i \in DOMAIN order}
      inf == Cardinality(nodes) + 1
      turns[k \in 0..Len(order)] ==
        IF k = 0 THEN Start(self, nbrs, db, nodes, inf) ELSE Turn(turns[k - 1], order, db, inf)
  IN  turns[Len(order)].pre

\* The path is followed back from origin to the node whose predecessor is the
\* router itself; a node off every path leads to id 0.
FirstHop(self, pre, origin) ==
  LET back[k \in 0..Cardinality(DOMAIN pre)] ==
        IF k = 0 THEN origin
        ELSE LET v == back[k - 1]
             IN  IF v \notin DOMAIN pre \/ pre[v] = self THEN v ELSE pre[v]
  IN  back[Cardinality(DOMAIN pre)]

\* The routing table: the kernel's networks, then, entry by entry of the
\* database, each network not there yet whose first hop is a neighbour.
Direct == "direct"
Routes(self, nbrs, db, connected) ==
  LET pre == Predecessors(self, nbrs, db)
      hop == [i \in DOMAIN db |-> FirstHop(self, pre, db[i].rid)]
      offers(n) == {i \in DOMAIN db : /\ db[i].rid # self
                                      /\ \E l \in db[i].lsa : l.network = n
                                      /\ InSeq(hop[i], nbrs)}
      learned == {n \in UNION {{l.network : l \in db[i].lsa} : i \in DOMAIN db} : offers(n) # {}}
  IN  [n \in connected \cup learned |-> IF n \in connected THEN Direct ELSE hop[Min(offers(n))]]

-----------------------------------------------------------------------------
(* What a shortest path is, without an algorithm.                          *)

\* The nodes at most k links away from a, in the graph the inputs describe.
Within(a, k, self, nbrs, db) ==
  LET nodes == Rids(db) \cup {self} \cup {nbrs[i] : i \in DOMAIN nbrs}
      next(v) == IF v = self THEN {nbrs[i] : i \in DOMAIN nbrs} ELSE Adjacent(v, db)
      reach[j \in 0..k] ==
        IF j = 0 THEN {a} ELSE reach[j - 1] \cup (nodes \cap UNION {next(v) : v \in reach[j - 1]})
  IN  reach[k]

\* Far enough for every path.
Far(db, nbrs) == Len(db) + Len(nbrs) + 1

Reachable(origin, self, nbrs, db) == origin \in Within(self, Far(db, nbrs), self, nbrs, db)

\* h is a right first hop to origin: a neighbour, one link nearer to it.
OnShortestPath(h, origin, self, nbrs, db) ==
  /\ InSeq(h, nbrs)
  /\ \E dist \in 1..Far(db, nbrs) :
       /\ origin \notin Within(self, dist - 1, self, nbrs, db)
       /\ origin \in Within(h, dist - 1, self, nbrs, db)
=============================================================================
