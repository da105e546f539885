--------------------------------- MODULE Rib --------------------------------
(***************************************************************************)
(* The routing information base behind a fib: DPDK's rte_rib and rte_rib6, *)
(* which are not in the repository.  They are modelled from the calls that *)
(* rte_fib.c, omar_dir24_8.c, OMAR_dpdk_fib6.c and trie.c make: a          *)
(* dictionary of routes, the parent of a route, and the enumeration of the *)
(* nearest more specific ones.  Unlike a rule of the LPM objects, a route  *)
(* may have depth 0.                                                       *)
(***************************************************************************)
EXTENDS IPv6Prefix, FiniteSets

CONSTANTS
  MAX_ROUTES,  \* conf->max_routes
  DEF_NH       \* conf->default_nh, the answer where there is no route

Network == [ip : Address, depth : 0..MAX_DEPTH]

\* p holds q and is shorter.
Inside(q, p) == q.depth > p.depth /\ ip6_mask_addr(q.ip, p.depth) = p.ip

Holds(p, ip) == ip6_mask_addr(ip, p.depth) = p.ip

\* The address that follows a network; after the last one comes 0.
End(p) == (p.ip + 2 ^ (MAX_DEPTH - p.depth)) % 2 ^ MAX_DEPTH

Longer(R, p) == {q \in DOMAIN R : Inside(q, p)}

\* What rte_rib_get_nxt with RTE_RIB_GET_NXT_COVER goes through, in the order
\* of the addresses: the routes inside p that lie in no other such route.
Nearest(R, p) == {q \in Longer(R, p) : \A r \in Longer(R, p) : ~Inside(q, r)}

First(networks) == CHOOSE q \in networks : \A r \in networks : q.ip <= r.ip

\* The next hop of rte_rib_lookup_parent, or the default where there is none.
ParentHop(R, p) ==
  LET shorter == {q \in DOMAIN R : Inside(p, q)}
  IN  IF shorter = {} THEN DEF_NH
      ELSE R[CHOOSE q \in shorter : \A r \in shorter : r.depth <= q.depth]

HasParent(R, p) == \E q \in DOMAIN R : Inside(p, q)

\* What a lookup in the RIB answers.
RibHop(R, ip) ==
  IF Matching(R, ip) = {} THEN DEF_NH ELSE LongestMatch(R, ip)

\* Mutant of max_nodes: as many nodes as routes.
max_nodes_as_routes == MAX_ROUTES
max_nodes == MAX_ROUTES * 2

\* A node of the RIB's path-compressed binary tree is a route, or the longest
\* network that holds two routes.
Common(p, q) ==
  LET d == CHOOSE n \in 0..MAX_DEPTH :
             /\ n <= p.depth /\ n <= q.depth
             /\ ip6_mask_addr(p.ip, n) = ip6_mask_addr(q.ip, n)
             /\ \/ n = p.depth
                \/ n = q.depth
                \/ ip6_mask_addr(p.ip, n + 1) # ip6_mask_addr(q.ip, n + 1)
  IN  [ip |-> ip6_mask_addr(p.ip, d), depth |-> d]

Nodes(routes) == {Common(p, q) : p, q \in routes}

\* rte_rib_insert takes one node before it looks for the place of the route.
RibFull(R, p) ==
  \/ Cardinality(Nodes(DOMAIN R)) >= max_nodes
  \/ Cardinality(Nodes(DOMAIN R \cup {p})) > max_nodes
=============================================================================
