----------------------------- MODULE FibTrieFolds ---------------------------
(***************************************************************************)
(* FibTrie with fewer steps: write_edge stores the entry above a group in  *)
(* the step that fills the group, so that no entry links a group that has  *)
(* been folded.  `op.val' is never used.  FibTrie implements this module,  *)
(* with its tables taken as they are once `op.val' is stored.              *)
(***************************************************************************)
EXTENDS FibTrie

\* Up to a table, and on to what follows when the edge is written.
FoldAscend(level) ==
  op' = [op EXCEPT !.path = SubSeq(@, 1, level), !.up = level > Root,
                   !.pc = IF level > Root THEN @
                          ELSE IF @ = "ledge" THEN "between" ELSE "recycle"]

FoldBottom ==
  /\ op.pc \in {"ledge", "redge"}
  /\ ~op.up
  /\ Level = BottomTable
  /\ entries' = Written({Here}, Leaf(op.hop))
  /\ IF Level > Root THEN op' = [op EXCEPT !.up = TRUE] ELSE FoldAscend(Level)
  /\ UNCHANGED <<Local, free, intact>>

FoldRest ==
  LET g      == op.path[Level]
      filled == Written({g} \X Beside, Leaf(op.hop))
  IN  /\ op.pc \in {"ledge", "redge"}
      /\ op.up
      /\ IF Recyclable(filled, g)
         THEN entries' = Folded(filled, Place(Level - 1), g) /\ free' = tbl8_put(g)
         ELSE entries' = [filled EXCEPT ![Place(Level - 1)] = Link(g)] /\ UNCHANGED free
      /\ FoldAscend(Level - 1)
      /\ UNCHANGED <<Local, intact>>

FoldStep ==
  \/ NextGap
  \/ LastGap
  \/ Follow
  \/ tbl8_alloc
  \/ OutOfGroups
  \/ FoldBottom
  \/ FoldRest
  \/ WriteBetween
  \/ RecycleRoot
  \/ Succeed
  \/ Fail

FoldNext ==
  \/ \E r \in Routes : \/ RejectDepth(r)
                       \/ \E hop \in NextHops : rte_fib6_add(r, hop)
                       \/ rte_fib6_delete(r)
  \/ \E ip \in Probes : rte_fib6_lookup_bulk(ip)
  \/ FoldStep

FoldSpec == rte_fib6_create /\ [][FoldNext]_vars

-----------------------------------------------------------------------------
(* What FibTrie says of its tables once `op.val' is stored *)

Linkers == {p \in Places : entries[p].ext}

LinkedTaken ==
  /\ \A p, q \in Linkers : entries[p].val = entries[q].val => p = q
  /\ \A i, j \in 1..Len(free) : free[i] = free[j] => i = j
  /\ \A i \in 1..Len(free) :
       free[i] \notin OnPath /\ \A p \in Linkers : entries[p].val # free[i]

NoGroupMissing ==
  intact => Groups = Range(free) \cup {entries[p].val : p \in Linkers} \cup OnPath

\* Each address changes at most once, and only under the route.
NoStrayFolds ==
  [][intact' => \A ip \in Address :
       TableHop(ip)' # TableHop(ip) =>
         /\ TableHop(ip)' = op.hop
         /\ Holds(op.key, ip)
         /\ \A q \in Longer(rib, op.key) : ~Holds(q, ip)]_entries
=============================================================================
