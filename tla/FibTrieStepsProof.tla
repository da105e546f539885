------------------------- MODULE FibTrieStepsProof --------------------------
(***************************************************************************)
(* FibTrie implements FibTrieFolds, in which write_edge stores the entry   *)
(* above a group in the step that fills the group: what is proved of that  *)
(* module is inherited for the tables as they are once `op.val' is stored, *)
(* which between calls are the tables themselves.  What a lookup sees in   *)
(* between, while an entry links a group that has been folded, is proved   *)
(* here.                                                                   *)
(*                                                                         *)
(* A state is mapped to the one after the store it has still to do: the    *)
(* action that fills the group stands for the whole step, and the one that *)
(* stores the entry for none.                                              *)
(***************************************************************************)
EXTENDS FibTrieProof

DoneOp ==
  IF op.val = NoVal THEN op
  ELSE [op EXCEPT !.val = NoVal, !.up = Level > Root,
                  !.pc = IF Level > Root THEN @
                         ELSE IF @ = "ledge" THEN "between" ELSE "recycle"]

M == INSTANCE FibTrieProof WITH entries <- Settled, op <- DoneOp

-----------------------------------------------------------------------------
(* The parameters, and the words of the two modules *)

LEMMA SameConstants ==
  /\ M!MAX_DEPTH = MAX_DEPTH /\ M!Address = Address /\ M!Network = Network
  /\ M!MISS = MISS /\ M!NoRules = NoRules /\ M!max_nodes = max_nodes
  /\ M!MAX_NH = MAX_NH /\ M!tbl24 = tbl24 /\ M!Groups = Groups /\ M!Slots = Slots
  /\ M!Hops = Hops /\ M!Places = Places /\ M!Depths = Depths
  /\ M!Tbl24Depth = Tbl24Depth /\ M!NoVal = NoVal /\ M!Idle = Idle /\ M!Call = Call
  /\ M!Edges = Edges
<1>1. /\ M!MAX_DEPTH = MAX_DEPTH /\ M!MISS = MISS /\ M!NoRules = NoRules
      /\ M!max_nodes = max_nodes /\ M!MAX_NH = MAX_NH /\ M!tbl24 = tbl24
      /\ M!Groups = Groups /\ M!Slots = Slots /\ M!Depths = Depths
      /\ M!Tbl24Depth = Tbl24Depth /\ M!Edges = Edges
  BY DEF M!MAX_DEPTH, MAX_DEPTH, M!MISS, MISS, M!NoRules, NoRules, M!max_nodes, max_nodes,
     M!MAX_NH, MAX_NH, M!tbl24, tbl24, M!Groups, Groups, M!Slots, Slots, M!Depths, Depths,
     M!Tbl24Depth, Tbl24Depth, M!Edges, Edges
<1>2. M!Address = Address /\ M!Hops = Hops /\ M!Places = Places /\ M!NoVal = NoVal
  BY <1>1 DEF M!Address, Address, M!Hops, Hops, M!Places, Places, M!NoVal, NoVal
<1>3. M!Network = Network /\ M!Idle = Idle
  BY <1>1, <1>2 DEF M!Network, Network, M!Idle, Idle
<1>4. M!Call = Call
  BY <1>1, <1>2, <1>3 DEF M!Call, Call
<1> QED BY <1>1, <1>2, <1>3, <1>4

\* What FibTrieFolds assumes of its parameters.
LEMMA Parameters ==
  /\ M!SizesAssumption /\ M!PowersAssumption /\ M!FibTrieAssumption
<1>1. M!SizesAssumption
  BY SizesAssumption
<1>2. M!PowersAssumption
  BY PowersAssumption, SameConstants
<1>3. M!FibTrieAssumption
  BY FibTrieAssumption, SameConstants
<1> QED BY <1>1, <1>2, <1>3

LEMMA SameRib ==
  /\ \A S : M!Max(S) = Max(S)
  /\ \A ip, d : M!ip6_mask_addr(ip, d) = ip6_mask_addr(ip, d)
  /\ \A r : M!Masked(r) = Masked(r)
  /\ \A R, ip : M!Matching(R, ip) = Matching(R, ip)
  /\ \A R, ip : M!RibHop(R, ip) = RibHop(R, ip)
  /\ \A R, key, hop : M!WithRule(R, key, hop) = WithRule(R, key, hop)
  /\ \A R, keys : M!WithoutRules(R, keys) = WithoutRules(R, keys)
  /\ \A p, ip : M!Holds(p, ip) <=> Holds(p, ip)
  /\ \A p : M!End(p) = End(p)
  /\ \A R, p : M!Longer(R, p) = Longer(R, p)
  /\ \A R, p : M!Nearest(R, p) = Nearest(R, p)
  /\ \A N : M!First(N) = First(N)
  /\ \A R, p : M!ParentHop(R, p) = ParentHop(R, p)
  /\ \A R, p : M!HasParent(R, p) <=> HasParent(R, p)
  /\ \A R, p : M!RibFull(R, p) <=> RibFull(R, p)
<1>1. \A ip, d : M!ip6_mask_addr(ip, d) = ip6_mask_addr(ip, d)
  BY SameConstants DEF M!ip6_mask_addr, ip6_mask_addr
<1>2. /\ \A S : M!Max(S) = Max(S)
      /\ \A N : M!First(N) = First(N)
  BY DEF M!Max, Max, M!First, First
<1>3. /\ \A r : M!Masked(r) = Masked(r)
      /\ \A R, ip : M!Matching(R, ip) = Matching(R, ip)
      /\ \A p, q : M!Inside(q, p) <=> Inside(q, p)
      /\ \A p, ip : M!Holds(p, ip) <=> Holds(p, ip)
  BY <1>1 DEF M!Masked, Masked, M!Matching, Matching, M!Inside, Inside, M!Holds, Holds
<1>4. /\ \A R, key, hop : M!WithRule(R, key, hop) = WithRule(R, key, hop)
      /\ \A R, keys : M!WithoutRules(R, keys) = WithoutRules(R, keys)
      /\ \A p : M!End(p) = End(p)
  BY SameConstants DEF M!WithRule, WithRule, M!WithoutRules, WithoutRules, M!End, End
<1>5. \A R, p : M!Longer(R, p) = Longer(R, p)
  BY <1>3 DEF M!Longer, Longer
<1>6. /\ \A R, p : M!Nearest(R, p) = Nearest(R, p)
      /\ \A R, p : M!HasParent(R, p) <=> HasParent(R, p)
  BY <1>3, <1>5 DEF M!Nearest, Nearest, M!HasParent, HasParent
<1>7. \A R, p : M!ParentHop(R, p) = ParentHop(R, p)
  <2> SUFFICES ASSUME NEW R, NEW p PROVE M!ParentHop(R, p) = ParentHop(R, p)
    OBVIOUS
  <2> DEFINE HopOf(S) == IF S = {} THEN DEF_NH
                         ELSE R[CHOOSE q \in S : \A r \in S : r.depth <= q.depth]
             mine == {q \in DOMAIN R : M!Inside(p, q)}
             same == {q \in DOMAIN R : Inside(p, q)}
  <2>1. M!ParentHop(R, p) = HopOf(mine) /\ ParentHop(R, p) = HopOf(same)
    BY ONLY DEF M!ParentHop, ParentHop
  <2>2. mine = same
    BY <1>3
  <2> HIDE DEF HopOf, mine, same
  <2> QED BY <2>1, <2>2
<1>8. \A R, ip : M!RibHop(R, ip) = RibHop(R, ip)
  <2> SUFFICES ASSUME NEW R, NEW ip PROVE M!RibHop(R, ip) = RibHop(R, ip)
    OBVIOUS
  <2>1. M!Matching(R, ip) = Matching(R, ip) /\ M!MISS = MISS
    BY <1>3, SameConstants
  <2> QED BY ONLY <2>1 DEF M!RibHop, RibHop, M!LongestMatch, LongestMatch
<1>9. \A R, p : M!RibFull(R, p) <=> RibFull(R, p)
  <2>1. \A p, q : M!Common(p, q) = Common(p, q)
    <3> SUFFICES ASSUME NEW p, NEW q PROVE M!Common(p, q) = Common(p, q)
      OBVIOUS
    <3> DEFINE Least(n) == /\ n <= p.depth /\ n <= q.depth
                           /\ ip6_mask_addr(p.ip, n) = ip6_mask_addr(q.ip, n)
                           /\ \/ n = p.depth
                              \/ n = q.depth
                              \/ ip6_mask_addr(p.ip, n + 1) # ip6_mask_addr(q.ip, n + 1)
               MLeast(n) == /\ n <= p.depth /\ n <= q.depth
                            /\ M!ip6_mask_addr(p.ip, n) = M!ip6_mask_addr(q.ip, n)
                            /\ \/ n = p.depth
                               \/ n = q.depth
                               \/ M!ip6_mask_addr(p.ip, n + 1) # M!ip6_mask_addr(q.ip, n + 1)
    <3>1. \A n : MLeast(n) <=> Least(n)
      BY <1>1
    <3>2. (CHOOSE n : n \in 0..M!MAX_DEPTH /\ MLeast(n))
          = (CHOOSE n : n \in 0..MAX_DEPTH /\ Least(n))
      <4> HIDE DEF Least, MLeast
      <4> QED BY <3>1, SameConstants
    <3> DEFINE d == CHOOSE n : n \in 0..MAX_DEPTH /\ Least(n)
               e == CHOOSE n : n \in 0..M!MAX_DEPTH /\ MLeast(n)
    <3>3. /\ Common(p, q) = [ip |-> ip6_mask_addr(p.ip, d), depth |-> d]
          /\ M!Common(p, q) = [ip |-> M!ip6_mask_addr(p.ip, e), depth |-> e]
      BY ONLY DEF M!Common, Common
    <3> HIDE DEF d, e
    <3> QED BY <1>1, <3>2, <3>3 DEF d, e
  <2>2. \A S : M!Nodes(S) = Nodes(S)
    BY <2>1 DEF M!Nodes, Nodes
  <2>3. \A S : M!Cardinality(S) = Cardinality(S)
    BY DEF M!Cardinality, Cardinality
  <2> QED BY <2>2, <2>3, SameConstants DEF M!RibFull, RibFull
<1> QED BY <1>1, <1>2, <1>3, <1>4, <1>5, <1>6, <1>7, <1>8, <1>9

LEMMA SameTables ==
  /\ \A hop : M!Leaf(hop) = Leaf(hop)
  /\ \A g : M!Link(g) = Link(g)
  /\ \A ip, i : M!Byte(ip, i) = Byte(ip, i)
  /\ \A ip, n : M!get_idx(ip, n) = get_idx(ip, n)
  /\ \A redge : M!LastIn(redge) = LastIn(redge)
  /\ \A ip, last : M!common_bytes(ip, last) = common_bytes(ip, last)
  /\ \A l, r : M!RootTable(l, r) = RootTable(l, r)
  /\ \A q : M!get_nxt_net(q) = get_nxt_net(q)
  /\ \A ip, n : M!TableOf(ip, n) = TableOf(ip, n)
  /\ \A E, g : M!Recyclable(E, g) <=> Recyclable(E, g)
  /\ \A E, p, g : M!Folded(E, p, g) = Folded(E, p, g)
  /\ \A status : M!Answer(status) = Answer(status)
  /\ \A g : M!tbl8_put(g) = tbl8_put(g)
  /\ \A e : M!Initial(e) = Initial(e)
  /\ \A r : M!depth_diff(r) = depth_diff(r)
  /\ M!Needed = Needed
<1>1. /\ \A hop : M!Leaf(hop) = Leaf(hop)
      /\ \A g : M!Link(g) = Link(g)
      /\ \A ip, i : M!Byte(ip, i) = Byte(ip, i)
      /\ \A redge : M!LastIn(redge) = LastIn(redge)
      /\ \A status : M!Answer(status) = Answer(status)
      /\ \A g : M!tbl8_put(g) = tbl8_put(g)
      /\ \A e : M!Initial(e) = Initial(e)
      /\ \A q : M!get_nxt_net(q) = get_nxt_net(q)
  BY SameConstants, SameRib DEF M!Leaf, Leaf, M!Link, Link, M!Byte, Byte, M!LastIn, LastIn,
     M!Answer, Answer, M!tbl8_put, tbl8_put, M!Initial, Initial, M!get_nxt_net, get_nxt_net
<1>2. /\ \A ip, n : M!get_idx(ip, n) = get_idx(ip, n)
      /\ \A ip, n : M!TableOf(ip, n) = TableOf(ip, n)
  BY <1>1, SameRib DEF M!get_idx, get_idx, M!TableOf, TableOf
<1>3. \A ip, last : M!common_bytes(ip, last) = common_bytes(ip, last)
  BY <1>1, SameRib DEF M!common_bytes, common_bytes
<1>4. \A l, r : M!RootTable(l, r) = RootTable(l, r)
  BY <1>1, <1>3 DEF M!RootTable, RootTable
<1>5. /\ \A E, g : M!Recyclable(E, g) <=> Recyclable(E, g)
      /\ \A E, p, g : M!Folded(E, p, g) = Folded(E, p, g)
  BY <1>1, SameConstants DEF M!Recyclable, Recyclable, M!Uniform, Uniform, M!Folded, Folded
<1>6. \A r : M!depth_diff(r) = depth_diff(r)
  <2>1. /\ \A d : M!AlignFloor(d) = AlignFloor(d)
        /\ \A d : M!AlignCeil(d) = AlignCeil(d)
    BY DEF M!AlignFloor, AlignFloor, M!AlignCeil, AlignCeil
  <2> SUFFICES ASSUME NEW r PROVE M!depth_diff(r) = depth_diff(r)
    OBVIOUS
  <2>2. {p.depth : p \in M!Matching(rib, r.ip)} \cup {M!Tbl24Depth}
        = {p.depth : p \in Matching(rib, r.ip)} \cup {Tbl24Depth}
    BY SameRib, SameConstants
  <2> QED BY <2>1, <2>2, SameRib, SameConstants DEF M!depth_diff, depth_diff
<1>7. M!Needed = Needed
  BY <1>2 DEF M!Needed, Needed
<1> QED BY <1>1, <1>2, <1>3, <1>4, <1>5, <1>6, <1>7

-----------------------------------------------------------------------------
(* States with nothing to store are their own image *)

LEMMA Unstored ==
  ASSUME op.val = NoVal
  PROVE  /\ Settled = entries /\ DoneOp = op
         /\ M!Level = Level /\ M!Root = Root /\ M!Edge = Edge /\ M!Here = Here
         /\ M!BottomTable = BottomTable /\ M!Beside = Beside
         /\ M!Descending <=> Descending
         /\ \A n : M!Place(n) = Place(n)
         /\ \A places, e : M!Written(places, e) = Written(places, e)
         /\ \A l, r, last : M!Install(l, r, last) = Install(l, r, last)
         /\ \A q : M!After(q) = After(q)
<1>1. Settled = entries /\ DoneOp = op
  BY DEF Settled, DoneOp
<1>2. M!Level = Level /\ M!Root = Root /\ M!Edge = Edge /\ M!Filler = Filler
  BY <1>1, SameTables DEF M!Level, Level, M!Root, Root, M!Edge, Edge, M!Filler, Filler
<1>3. \A n : M!Place(n) = Place(n)
  BY <1>1, <1>2, SameTables DEF M!Place, Place
<1>4. M!Here = Here /\ M!Beside = Beside
  BY <1>1, <1>2, <1>3, SameTables DEF M!Here, Here, M!Beside, Beside
<1>5. M!BottomTable = BottomTable
  <2> DEFINE mfirst == M!Max({M!common_bytes(DoneOp.ledge, M!LastIn(DoneOp.redge)), TBL24_BYTES})
             first == Max({common_bytes(op.ledge, LastIn(op.redge)), TBL24_BYTES})
             mused == {i \in (mfirst + 1)..(IPV6_ADDR_SIZE - 1) : M!Byte(M!Edge, i) # M!Filler}
             used == {i \in (first + 1)..(IPV6_ADDR_SIZE - 1) : Byte(Edge, i) # Filler}
  <2>1. mfirst = first
    BY <1>1, SameRib, SameTables
  <2>2. mused = used
    <3> HIDE DEF mfirst, first
    <3> QED BY <1>2, <2>1, SameTables
  <2>3. M!BottomTable = M!Max(mused \cup {mfirst}) - TBL24_BYTES + 2
        /\ BottomTable = Max(used \cup {first}) - TBL24_BYTES + 2
    BY ONLY DEF M!BottomTable, BottomTable
  <2> HIDE DEF mfirst, first, mused, used
  <2> QED BY <2>1, <2>2, <2>3, SameRib
<1>6. M!Descending <=> Descending
  BY <1>1, <1>2, <1>5 DEF M!Descending, Descending
<1>7. \A places, e : M!Written(places, e) = Written(places, e)
  BY <1>1, SameConstants DEF M!Written, Written
<1>8. /\ \A l, r, last : M!Install(l, r, last) = Install(l, r, last)
      /\ \A q : M!After(q) = After(q)
  BY <1>1, SameTables DEF M!Install, Install, M!After, After
<1> QED BY <1>1, <1>2, <1>3, <1>4, <1>5, <1>6, <1>7, <1>8

Plain == op.val = NoVal /\ op'.val = NoVal

LEMMA PlainStep ==
  ASSUME Plain
  PROVE  /\ Settled = entries /\ DoneOp = op /\ Settled' = entries' /\ DoneOp' = op'
         /\ (UNCHANGED M!Local <=> UNCHANGED Local)
         /\ (UNCHANGED M!tables <=> UNCHANGED tables)
BY DEF Plain, Settled, DoneOp, M!Local, Local, M!tables, tables

LEMMA PlainCalls ==
  ASSUME Plain
  PROVE  /\ \A r : RejectDepth(r) => M!RejectDepth(r)
         /\ \A r, hop : dummy_add(r, hop) => M!dummy_add(r, hop)
         /\ \A r, hop : AddSame(r, hop) => M!AddSame(r, hop)
         /\ \A r, hop : Change(r, hop) => M!Change(r, hop)
         /\ \A r, hop : AddRefused(r, hop) => M!AddRefused(r, hop)
         /\ \A r, hop : Add(r, hop) => M!Add(r, hop)
         /\ \A r : rte_fib6_delete(r) => M!rte_fib6_delete(r)
         /\ \A ip : rte_fib6_lookup_bulk(ip) => M!rte_fib6_lookup_bulk(ip)
<1>1. /\ \A status : Return(status) => M!Return(status)
      /\ \A data_plane, r : M!Called(data_plane, r) <=> Called(data_plane, r)
      /\ \A r : M!Admitted(r) <=> Admitted(r)
      /\ \A key, hop : M!SameAsAround(key, hop) <=> SameAsAround(key, hop)
  BY PlainStep, SameConstants, SameRib, SameTables
     DEF M!Return, Return, M!Called, Called, M!Admitted, Admitted, M!SameAsAround, SameAsAround
<1>2. \A call, key, hop, diff : modify_dp(call, key, hop, diff) => M!modify_dp(call, key, hop, diff)
  BY PlainStep, SameConstants, SameRib, SameTables DEF M!modify_dp, modify_dp
<1>3. \A r : NoNode(r) => M!NoNode(r)
  BY <1>1, SameRib DEF M!NoNode, NoNode
<1>4. \A r : RejectDepth(r) => M!RejectDepth(r)
  BY <1>1, PlainStep, SameConstants DEF M!RejectDepth, RejectDepth
<1>5. \A r, hop : dummy_add(r, hop) => M!dummy_add(r, hop)
  BY <1>1, <1>3, SameRib DEF M!dummy_add, dummy_add
<1>6. \A r, hop : AddSame(r, hop) => M!AddSame(r, hop)
  BY <1>1, PlainStep, SameConstants, SameRib, SameTables DEF M!AddSame, AddSame
<1>7. \A r, hop : Change(r, hop) => M!Change(r, hop)
  BY <1>1, <1>2, SameConstants, SameRib DEF M!Change, Change
<1>8. \A r, hop : AddRefused(r, hop) => M!AddRefused(r, hop)
  BY <1>1, <1>3, SameConstants, SameRib DEF M!AddRefused, AddRefused
<1>9. \A r, hop : Add(r, hop) => M!Add(r, hop)
  BY <1>1, <1>2, SameConstants, SameRib, SameTables DEF M!Add, Add
<1>10. \A r : rte_fib6_delete(r) => M!rte_fib6_delete(r)
  <2>1. \A key, diff : Removed(key, diff) => M!Removed(key, diff)
    BY SameRib DEF M!Removed, Removed
  <2>2. \A r : dummy_delete(r) => M!dummy_delete(r)
    BY <1>1, SameRib DEF M!dummy_delete, dummy_delete
  <2>3. \A r : DeleteAbsent(r) => M!DeleteAbsent(r)
    BY <1>1, SameRib DEF M!DeleteAbsent, DeleteAbsent
  <2>4. \A r : Delete(r) => M!Delete(r)
    BY <1>1, <1>2, <2>1, SameRib, SameTables DEF M!Delete, Delete
  <2> QED BY <2>2, <2>3, <2>4 DEF M!rte_fib6_delete, rte_fib6_delete
<1>11. \A ip : rte_fib6_lookup_bulk(ip) => M!rte_fib6_lookup_bulk(ip)
  <2>1. \A ip : M!LookupHop(ip) = LookupHop(ip)
    <3>1. \A ip : M!TableHop(ip) = TableHop(ip)
      BY PlainStep, SameConstants, SameTables DEF M!TableHop, TableHop, M!Walk, Walk
    <3> QED BY <3>1, SameRib DEF M!LookupHop, LookupHop
  <2> QED BY <2>1, PlainStep DEF M!rte_fib6_lookup_bulk, rte_fib6_lookup_bulk, M!tables, tables
<1> QED BY <1>4, <1>5, <1>6, <1>7, <1>8, <1>9, <1>10, <1>11

LEMMA PlainSteps ==
  ASSUME Plain
  PROVE  /\ NextGap => M!NextGap
         /\ LastGap => M!LastGap
         /\ Follow => M!Follow
         /\ tbl8_alloc => M!tbl8_alloc
         /\ OutOfGroups => M!OutOfGroups
         /\ WriteBetween => M!WriteBetween
         /\ RecycleRoot => M!RecycleRoot
         /\ Succeed => M!Succeed
         /\ Fail => M!Fail
<1>1. op.val = NoVal
  BY DEF Plain
<1>2. \A g : Enter(g) => M!Enter(g)
  BY <1>1, PlainStep, Unstored DEF M!Enter, Enter
<1>3. NextGap => M!NextGap
  BY <1>1, PlainStep, Unstored, SameRib, SameTables DEF M!NextGap, NextGap
<1>4. LastGap => M!LastGap
  BY <1>1, PlainStep, Unstored, SameTables DEF M!LastGap, LastGap
<1>5. Follow => M!Follow
  BY <1>1, <1>2, PlainStep, Unstored DEF M!Follow, Follow
<1>6. tbl8_alloc => M!tbl8_alloc
  BY <1>1, <1>2, PlainStep, Unstored, SameConstants, SameTables DEF M!tbl8_alloc, tbl8_alloc
<1>7. OutOfGroups => M!OutOfGroups
  BY <1>1, PlainStep, Unstored DEF M!OutOfGroups, OutOfGroups
<1>8. WriteBetween => M!WriteBetween
  <2>1. M!get_idx(DoneOp.ledge, M!Level) = get_idx(op.ledge, Level)
        /\ M!get_idx(M!LastIn(DoneOp.redge), M!Level) = get_idx(LastIn(op.redge), Level)
    BY <1>1, PlainStep, Unstored, SameTables
  <2>2. \A places : M!Written(places, M!Leaf(DoneOp.hop)) = Written(places, Leaf(op.hop))
    BY <1>1, PlainStep, Unstored, SameTables
  <2> QED BY <1>1, <2>1, <2>2, PlainStep, Unstored DEF M!WriteBetween, WriteBetween
<1>9. RecycleRoot => M!RecycleRoot
  <2>1. \A s : M!Front(s) = Front(s)
    BY DEF M!Front, Front
  <2> QED BY <1>1, <2>1, PlainStep, Unstored, SameTables DEF M!RecycleRoot, RecycleRoot
<1>10. Succeed => M!Succeed
  <2>1. \A key, diff : Removed(key, diff) => M!Removed(key, diff)
    BY SameRib DEF M!Removed, Removed
  <2> QED BY <2>1, PlainStep, SameConstants, SameRib, SameTables DEF M!Succeed, Succeed
<1>11. Fail => M!Fail
  BY PlainStep, SameConstants, SameRib, SameTables DEF M!Fail, Fail
<1> QED BY <1>3, <1>4, <1>5, <1>6, <1>7, <1>8, <1>9, <1>10, <1>11

-----------------------------------------------------------------------------
(* The steps of write_edge *)

\* A call that has an entry to store is on its way up an edge.
Storing ==
  op.val # NoVal =>
    /\ op \in Call /\ op.pc \in Edges /\ op.up /\ type = "TRIE" /\ op.call # "none"
    /\ Level \in Depths /\ Level >= Root
    /\ op.path[1] = tbl24 /\ \A n \in 2..Level : op.path[n] \in Groups
    /\ entries \in [Places -> [ext : BOOLEAN, val : Hops]]
    /\ \A p \in Places : entries[p].ext => entries[p].val \in Groups

StepsInv == M!IndInv /\ Storing

\* What FibTrieFolds says of a state with nothing to store.
LEMMA UnstoredOK ==
  ASSUME op.val = NoVal, M!IndInv
  PROVE  IndInv
<1>1. M!RibOK <=> RibOK
  BY SameConstants DEF M!RibOK, RibOK
<1>2. M!TablesOK <=> TablesOK
  BY Unstored, SameConstants DEF M!TablesOK, TablesOK
<1>3. M!OpOK <=> OpOK
  BY Unstored, SameConstants DEF M!OpOK, OpOK
<1>4. M!Progress <=> Progress
  BY Unstored, SameConstants DEF M!Progress, Progress
<1>5. M!Linkers = Linkers
  BY Unstored, SameConstants DEF M!Linkers, Linkers
<1>6. M!LinksOK <=> LinksOK
  BY <1>5, Unstored, SameConstants
     DEF M!LinksOK, LinksOK, M!OneLink, OneLink, M!NoLoop, NoLoop, M!LinkedOnTheWay,
         LinkedOnTheWay
<1>7. M!PoolOK <=> PoolOK
  BY <1>5, Unstored
     DEF M!PoolOK, PoolOK, M!PoolDistinct, PoolDistinct, M!PoolUnlinked, PoolUnlinked,
         M!PoolOffPath, PoolOffPath
<1> QED BY <1>1, <1>2, <1>3, <1>4, <1>6, <1>7 DEF M!IndInv, IndInv

LEMMA BottomIsFold ==
  ASSUME Plain, IndInv, WriteBottom
  PROVE  M!FoldBottom
<1>1. op.val = NoVal
  BY DEF Plain
<1>2. op \in Call /\ Level \in Nat /\ op.path \in Seq(Groups \cup {tbl24}) /\ op.pc \in Edges
  BY Walking DEF IndInv, OpOK, WriteBottom, Edges
<1>3. M!Written({M!Here}, M!Leaf(DoneOp.hop)) = Written({Here}, Leaf(op.hop))
  BY <1>1, Unstored, SameTables
<1>4. SubSeq(op.path, 1, Level) = op.path
  BY <1>2 DEF Level
<1>5. [op EXCEPT !.val = NoVal] = op
  BY <1>1, <1>2 DEF Call
<1>6. CASE Level > Root
  <2>1. op' = [op EXCEPT !.val = NoVal, !.up = TRUE, !.pc = @]
    BY <1>6 DEF WriteBottom, Ascend
  <2>2. op' = [op EXCEPT !.up = TRUE]
    BY <1>1, <1>2, <2>1 DEF Call
  <2> QED BY <1>1, <1>3, <1>6, <2>2, PlainStep, Unstored DEF WriteBottom, M!FoldBottom
<1>7. CASE ~(Level > Root)
  <2> DEFINE up == Level > Root
             pc == IF Level > Root THEN op.pc
                   ELSE IF op.pc = "ledge" THEN "between" ELSE "recycle"
  <2>1. op' = [op EXCEPT !.val = NoVal, !.up = up, !.pc = pc]
    BY DEF WriteBottom, Ascend
  <2>2. op' = [op EXCEPT !.path = SubSeq(op.path, 1, Level), !.up = up, !.pc = pc]
    <3> HIDE DEF up, pc
    <3> QED BY <1>1, <1>2, <1>4, <2>1 DEF Call
  <2>3. M!FoldAscend(M!Level)
    BY <1>1, <2>2, PlainStep, Unstored DEF M!FoldAscend
  <2> QED BY <1>1, <1>3, <1>7, <2>3, PlainStep, Unstored DEF WriteBottom, M!FoldBottom
<1> QED BY <1>6, <1>7

LEMMA RestIsFold ==
  ASSUME op.val = NoVal, IndInv, WriteRest
  PROVE  M!FoldRest /\ Storing'
<1> DEFINE g == op.path[Level]
           filled == Written({g} \X Beside, Leaf(op.hop))
           val == IF Recyclable(filled, g) THEN filled[<<g, 0>>] ELSE Link(g)
<1>1. /\ op \in Call /\ op.pc \in Edges /\ op.up /\ Level > Root /\ g \in Groups
      /\ op.call # "none" /\ type = "TRIE"
      /\ Level \in Nat /\ Root \in Nat \ {0} /\ Level \in Depths
      /\ op.path \in Seq(Groups \cup {tbl24})
  BY Walking DEF IndInv, OpOK, Progress, WriteRest, Edges
<1>2. Front(op.path) = SubSeq(op.path, 1, Level - 1)
  BY DEF Front, Level
<1>3. Front(op.path) \in Seq(Groups \cup {tbl24}) /\ Len(Front(op.path)) = Level - 1
      /\ \A n \in 1..(Level - 1) : Front(op.path)[n] = op.path[n]
  BY <1>1, <1>2 DEF Level
<1>4. filled \in [Places -> [ext : BOOLEAN, val : Hops]]
      /\ \A p \in Places : filled[p].ext => filled[p].val \in Groups
  BY <1>1 DEF IndInv, TablesOK, Written, Leaf, Call
<1>5. <<g, 0>> \in Places /\ Groups \subseteq Hops /\ 0 \in Hops
  BY <1>1, Sizes, FibTrieAssumption DEF Places, Slots, Hops, Groups
<1>6. val \in [ext : BOOLEAN, val : Hops] /\ (val.ext => val.val \in Groups) /\ val # NoVal
  <2>1. val \in [ext : BOOLEAN, val : Hops] /\ (val.ext => val.val \in Groups)
    <3> HIDE DEF filled
    <3> QED BY <1>1, <1>4, <1>5 DEF Link
  <2>2. MISS \notin Hops
    BY DEF MISS, Hops
  <2> HIDE DEF val
  <2> QED BY <2>1, <2>2 DEF NoVal
<1>7. op' = [op EXCEPT !.path = Front(op.path), !.val = val]
      /\ entries' = IF Recyclable(filled, g) THEN Emptied(filled, g) ELSE filled
  BY DEF WriteRest
<1> HIDE DEF filled, val
<1>8. /\ op'.path = Front(op.path) /\ op'.val = val /\ op'.pc = op.pc /\ op'.up = op.up
      /\ op'.ledge = op.ledge /\ op'.redge = op.redge
      /\ op'.call = op.call
  BY <1>1, <1>7 DEF Call
<1>9. Level' = Level - 1 /\ Root' = Root /\ Here' = Place(Level - 1)
  <2>1. Level' = Level - 1 /\ Root' = Root /\ Edge' = Edge
    BY <1>3, <1>8 DEF Level, Root, Edge
  <2> QED BY <1>1, <1>3, <1>8, <2>1 DEF Here, Place
<1>10. Settled' = [p \in Places |-> IF p \in {Place(Level - 1)} THEN val ELSE entries'[p]]
  BY <1>6, <1>8, <1>9 DEF Settled, Written
<1>11. IF Recyclable(filled, g)
       THEN Settled' = Folded(filled, Place(Level - 1), g)
       ELSE Settled' = [filled EXCEPT ![Place(Level - 1)] = Link(g)]
  <2>1. CASE Recyclable(filled, g)
    BY <1>7, <1>10, <2>1 DEF val, Emptied, Folded
  <2>2. CASE ~Recyclable(filled, g)
    BY <1>4, <1>7, <1>10, <2>2 DEF val
  <2> QED BY <2>1, <2>2
<1>12. DoneOp' = [op EXCEPT !.path = SubSeq(op.path, 1, Level - 1), !.up = Level - 1 > Root,
                            !.pc = IF Level - 1 > Root THEN @
                                   ELSE IF @ = "ledge" THEN "between" ELSE "recycle"]
  <2> DEFINE up == Level - 1 > Root
             pc == IF Level - 1 > Root THEN op.pc
                   ELSE IF op.pc = "ledge" THEN "between" ELSE "recycle"
  <2>1. DoneOp' = [op' EXCEPT !.val = NoVal, !.up = up, !.pc = pc]
    BY <1>6, <1>8, <1>9 DEF DoneOp
  <2> HIDE DEF up, pc
  <2>2. DoneOp' = [[op EXCEPT !.path = Front(op.path), !.val = val]
                    EXCEPT !.val = NoVal, !.up = up, !.pc = pc]
    BY <1>7, <2>1
  <2>3. DoneOp' = [op EXCEPT !.path = Front(op.path), !.up = up, !.pc = pc]
    BY <1>1, <2>2 DEF Call
  <2> QED BY <1>2, <2>3 DEF up, pc
<1>13. M!FoldAscend(M!Level - 1)
  BY <1>12, Unstored DEF M!FoldAscend
<1>14. M!Written({g} \X M!Beside, M!Leaf(DoneOp.hop)) = filled
  BY Unstored, SameTables DEF filled
<1>15. M!FoldRest
  <2>1. UNCHANGED M!Local
    BY DEF WriteRest, M!Local, Local
  <2> QED BY <1>1, <1>11, <1>13, <1>14, <2>1, Unstored, SameTables DEF M!FoldRest, WriteRest, Edges
<1>16. Storing'
  <2>1. op' \in Call
    BY <1>1, <1>3, <1>6, <1>7 DEF Call
  <2>2. entries' \in [Places -> [ext : BOOLEAN, val : Hops]]
        /\ \A p \in Places : entries'[p].ext => entries'[p].val \in Groups
    BY <1>4, <1>5, <1>7 DEF Emptied, Leaf
  <2>3. type' = "TRIE" /\ op'.call # "none"
    BY <1>1, <1>8 DEF WriteRest, Local
  <2>4. /\ Level' \in Depths /\ Level' >= Root'
        /\ op'.path[1] = tbl24 /\ \A n \in 2..Level' : op'.path[n] \in Groups
    BY <1>1, <1>3, <1>8, <1>9, Walking, Sizes DEF Depths
  <2> QED BY <1>1, <1>8, <2>1, <2>2, <2>3, <2>4 DEF Storing
<1> QED BY <1>15, <1>16

LEMMA StoreIsNothing ==
  ASSUME op.val # NoVal, Storing, StoreEntry
  PROVE  Settled' = entries' /\ Settled = Settled' /\ DoneOp' = DoneOp /\ op'.val = NoVal
         /\ UNCHANGED M!vars
<1>1. op \in Call
  BY DEF Storing
<1>2. op' = DoneOp
  BY DEF StoreEntry, Ascend, DoneOp
<1>3. op'.val = NoVal
  BY <1>1, <1>2 DEF DoneOp, Call
<1>4. Settled' = entries' /\ DoneOp' = op'
  BY <1>3 DEF Settled, DoneOp
<1>5. Settled = entries'
  BY DEF Settled, StoreEntry
<1> QED BY <1>2, <1>3, <1>4, <1>5 DEF StoreEntry, Local, M!vars, M!tables

-----------------------------------------------------------------------------
(* The refinement *)

\* While an entry is to be stored nothing else is done; otherwise the step is
\* one that stores all it writes, or it leaves one to be stored.
LEMMA OnlyStores ==
  ASSUME op.val # NoVal, Storing, Next
  PROVE  StoreEntry
<1>1. op.pc \in {"ledge", "redge"} /\ op.up
  BY DEF Storing, Edges
<1>2. op.pc \notin {"idle", "gap", "root", "between", "recycle", "failed"}
  BY <1>1
<1> QED BY <1>1, <1>2
        DEF Next, RejectDepth, rte_fib6_add, dummy_add, AddSame, Change, AddRefused, Add,
            rte_fib6_delete, dummy_delete, DeleteAbsent, Delete, Called, rte_fib6_lookup_bulk,
            Step, NextGap, LastGap, Follow, tbl8_alloc, OutOfGroups, Descending, WriteBottom,
            WriteRest, WriteBetween, RecycleRoot, Succeed, Fail

LEMMA StaysPlain ==
  ASSUME op.val = NoVal, IndInv, Next, ~WriteRest
  PROVE  Plain
<1>1. op \in Call
  BY DEF IndInv, OpOK
<1>2. Idle.val = NoVal
  BY DEF Idle
<1>3. /\ \A call, key, hop, diff : modify_dp(call, key, hop, diff) => op'.val = NoVal
      /\ \A status : Return(status) => op'.val = NoVal
      /\ \A g : Enter(g) => op'.val = NoVal
      /\ Ascend => op'.val = NoVal
  <2>1. \A call, key, hop, diff : modify_dp(call, key, hop, diff) => op'.val = NoVal
    BY DEF modify_dp, Idle
  <2>2. \A g : Enter(g) => op'.val = NoVal
    BY <1>1 DEF Enter, Call
  <2>3. Ascend => op'.val = NoVal
    BY <1>1 DEF Ascend, Call
  <2> QED BY <2>1, <2>2, <2>3 DEF Return
<1>4. CASE \E r \in Routes : \/ RejectDepth(r)
                             \/ \E hop \in NextHops : rte_fib6_add(r, hop)
                             \/ rte_fib6_delete(r)
  BY <1>3, <1>4 DEF Plain, RejectDepth, rte_fib6_add, dummy_add, NoNode, AddSame, Change,
     AddRefused, Add, rte_fib6_delete, dummy_delete, DeleteAbsent, Delete
<1>5. CASE \E ip \in Probes : rte_fib6_lookup_bulk(ip)
  BY <1>5 DEF Plain, rte_fib6_lookup_bulk
<1>6. CASE NextGap \/ LastGap
  BY <1>1, <1>6 DEF Plain, NextGap, LastGap, Install, Call
<1>7. CASE Follow \/ tbl8_alloc \/ WriteBottom
  BY <1>3, <1>7 DEF Plain, Follow, tbl8_alloc, WriteBottom
<1>8. CASE OutOfGroups \/ WriteBetween \/ RecycleRoot
  BY <1>1, <1>8 DEF Plain, OutOfGroups, WriteBetween, RecycleRoot, Call
<1>9. CASE Succeed \/ Fail
  BY <1>2, <1>9 DEF Plain, Succeed, Fail
<1>10. ~StoreEntry
  BY DEF StoreEntry
<1> QED BY <1>4, <1>5, <1>6, <1>7, <1>8, <1>9, <1>10 DEF Next, Step

LEMMA StepImplements ==
  ASSUME StepsInv, Next
  PROVE  (M!FoldNext \/ UNCHANGED M!vars) /\ Storing'
<1>1. CASE op.val # NoVal
  <2>1. op'.val = NoVal /\ UNCHANGED M!vars
    BY <1>1, OnlyStores, StoreIsNothing DEF StepsInv
  <2> QED BY <2>1 DEF Storing
<1>2. CASE op.val = NoVal /\ WriteRest
  <2>1. M!FoldRest /\ Storing'
    BY <1>2, UnstoredOK, RestIsFold DEF StepsInv
  <2> QED BY <2>1 DEF M!FoldNext, M!FoldStep
<1>3. CASE op.val = NoVal /\ ~WriteRest
  <2>1. IndInv /\ Plain /\ ~StoreEntry
    <3>1. IndInv
      BY <1>3, UnstoredOK DEF StepsInv
    <3> QED BY <1>3, <3>1, StaysPlain DEF StoreEntry
  <2>2. Storing'
    BY <2>1 DEF Plain, Storing
  <2>3. ASSUME Step PROVE M!FoldStep
    BY <1>3, <2>1, <2>3, PlainSteps, BottomIsFold DEF Step, M!FoldStep
  <2>4. CASE \E r \in Routes : \/ RejectDepth(r)
                               \/ \E hop \in NextHops : rte_fib6_add(r, hop)
                               \/ rte_fib6_delete(r)
    BY <2>1, <2>2, <2>4, PlainCalls DEF rte_fib6_add, M!rte_fib6_add, M!FoldNext
  <2>5. CASE \E ip \in Probes : rte_fib6_lookup_bulk(ip)
    BY <2>1, <2>2, <2>5, PlainCalls DEF M!FoldNext
  <2> QED BY <2>2, <2>3, <2>4, <2>5 DEF Next, M!FoldNext
<1> QED BY <1>1, <1>2, <1>3

LEMMA StutterImplements ==
  ASSUME StepsInv, UNCHANGED vars
  PROVE  UNCHANGED M!vars /\ Storing'
BY DEF StepsInv, vars, tables, M!vars, M!tables, Settled, DoneOp, Written, Here, Place, Edge,
       Level, Root, Storing

LEMMA CreateImplements == rte_fib6_create => M!rte_fib6_create /\ Storing
<1> SUFFICES ASSUME rte_fib6_create PROVE M!rte_fib6_create /\ Storing
  OBVIOUS
<1>1. op.val = NoVal
  BY DEF rte_fib6_create, Idle
<1> QED BY <1>1, Unstored, SameConstants, SameTables
        DEF rte_fib6_create, M!rte_fib6_create, trie_create, M!trie_create, Storing

LEMMA StepsInvariant == Spec => []StepsInv
<1>1. rte_fib6_create => StepsInv
  BY CreateImplements, M!CreateEstablishesInv, Parameters DEF StepsInv
<1>2. StepsInv /\ [Next]_vars => StepsInv'
  <2>1. M!IndInv /\ [M!FoldNext]_(M!vars) => M!IndInv'
    BY M!NextKeepsInv, Parameters
  <2> QED BY <2>1, StepImplements, StutterImplements DEF StepsInv
<1> QED BY <1>1, <1>2, PTL DEF Spec

\* FibTrie implements FibTrieFolds: the steps in which write_edge fills a group,
\* empties it, puts it back and stores the entry above make one (trie.c:339-355).
THEOREM StoresImplementFolds == Spec => M!FoldSpec
<1>1. StepsInv /\ [Next]_vars => [M!FoldNext]_(M!vars)
  BY StepImplements, StutterImplements
<1>2. rte_fib6_create => M!rte_fib6_create
  BY CreateImplements
<1> QED BY <1>1, <1>2, StepsInvariant, PTL DEF Spec, M!FoldSpec

-----------------------------------------------------------------------------
(* What is inherited *)

LEMMA IdleSettled ==
  ASSUME StepsInv
  PROVE  /\ DoneOp.pc = "idle" <=> op.pc = "idle"
         /\ op.pc = "idle" => Settled = entries
         /\ DoneOp.path = op.path /\ DoneOp.call = op.call /\ DoneOp.key = op.key
         /\ DoneOp.hop = op.hop
<1>1. CASE op.val = NoVal
  BY <1>1, Unstored
<1>2. CASE op.val # NoVal
  <2>1. op \in Call /\ op.pc \in Edges
    BY <1>2 DEF StepsInv, Storing
  <2>2. /\ DoneOp.path = op.path /\ DoneOp.call = op.call /\ DoneOp.key = op.key
        /\ DoneOp.hop = op.hop
    BY <1>2, <2>1 DEF DoneOp, Call
  <2>3. DoneOp.pc \in {op.pc, "between", "recycle"}
    BY <1>2, <2>1 DEF DoneOp, Call
  <2> QED BY <2>1, <2>2, <2>3 DEF Edges
<1> QED BY <1>1, <1>2

LEMMA StepsInvTyped == StepsInv => TypeOK
<1> SUFFICES ASSUME StepsInv PROVE TypeOK
  OBVIOUS
<1>1. CASE op.val = NoVal
  BY <1>1, UnstoredOK, InvariantParts DEF StepsInv
<1>2. CASE op.val # NoVal
  <2>1. RibOK /\ free \in Seq(Groups) /\ type \in Types /\ intact \in BOOLEAN
    BY SameConstants DEF StepsInv, M!IndInv, M!RibOK, RibOK, M!TablesOK
  <2>2. Len(free) <= number_tbl8s
    <3>1. \A i, j \in 1..Len(free) : free[i] = free[j] => i = j
      BY DEF StepsInv, M!IndInv, M!PoolOK, M!PoolDistinct
    <3> QED BY <2>1, <3>1, PoolFits
  <2>3. op.pc # "idle" /\ op # Idle
    BY <1>2 DEF StepsInv, Storing, Edges, Idle
  <2> QED BY <1>2, <2>1, <2>2, <2>3 DEF StepsInv, Storing, TypeOK, RibOK, Level
<1> QED BY <1>1, <1>2

LEMMA SettledWalk ==
  ASSUME Settled = entries, NEW ip
  PROVE  M!Walk(ip) = Walk(ip)
<1> DEFINE mine(f) == [n \in M!Depths |->
                        IF n = 1 THEN Settled[<<M!tbl24, M!get_idx(ip, 1)>>]
                        ELSE IF f[n - 1].ext
                             THEN Settled[<<f[n - 1].val, M!get_idx(ip, n)>>] ELSE f[n - 1]]
           same(f) == [n \in Depths |->
                        IF n = 1 THEN entries[<<tbl24, get_idx(ip, 1)>>]
                        ELSE IF f[n - 1].ext
                             THEN entries[<<f[n - 1].val, get_idx(ip, n)>>] ELSE f[n - 1]]
<1>1. \A f : mine(f) = same(f)
  BY SameConstants, SameTables
<1>2. M!Walk(ip) = (CHOOSE f : f = mine(f)) /\ Walk(ip) = (CHOOSE f : f = same(f))
  BY DEF M!Walk, Walk
<1> HIDE DEF mine, same
<1> QED BY <1>1, <1>2

\* The variables keep their types, the walk of a call stays in the tables there
\* are, and the pool never gets more groups than it gave (install_to_dp,
\* write_edge, tbl8_put).
THEOREM StepsTypeCorrect == Spec => []TypeOK
BY StepsInvariant, StepsInvTyped, PTL

\* No group that is linked or on the way of a call is in the pool, none is in
\* it twice, and no two entries share one, between any two stores of an update,
\* if the entry that write_edge is about to store is left aside (tbl8_get,
\* tbl8_recycle, write_edge).
THEOREM StoredGroupsNeverShared == Spec => []LinkedGroupsTaken
<1>1. StepsInv /\ M!LinkedTaken => LinkedGroupsTaken
  <2> SUFFICES ASSUME StepsInv, M!LinkedTaken PROVE LinkedGroupsTaken
    OBVIOUS
  <2>1. M!Linkers = Linking
    BY SameConstants DEF M!Linkers, Linking
  <2>2. M!OnPath = OnPath
    BY IdleSettled DEF M!OnPath, OnPath
  <2> QED BY <2>1, <2>2 DEF M!LinkedTaken, LinkedGroupsTaken
<1>2. M!FoldSpec => []M!LinkedTaken
  BY M!GroupsNeverShared, Parameters
<1> QED BY <1>1, <1>2, StepsInvariant, StoresImplementFolds, PTL

LEMMA SameCallers == NoDefaultRoute => M!NoDefaultRoute
BY SameRib, SameConstants DEF NoDefaultRoute, M!NoDefaultRoute

\* After every history of insertions, changes and deletions, between calls, each
\* address is answered as the RIB does, for callers that use no default route
\* and as long as no update has run out of groups (trie_modify, install_to_dp,
\* write_edge).
THEOREM StoredLookupsAgree ==
  ASSUME NoDefaultRoute
  PROVE  Spec => []LookupAgrees
<1>1. StepsInv /\ M!LookupAgrees => LookupAgrees
  <2> SUFFICES ASSUME StepsInv, M!LookupAgrees, op.pc = "idle", intact, NEW ip \in Address
               PROVE  LookupHop(ip) = RibHop(rib, ip)
    BY DEF LookupAgrees
  <2>1. M!TableHop(ip) = TableHop(ip)
    BY IdleSettled, SettledWalk DEF M!TableHop, TableHop
  <2>2. M!LookupHop(ip) = LookupHop(ip)
    BY <2>1, SameRib DEF M!LookupHop, LookupHop
  <2> QED BY <2>2, IdleSettled, SameConstants, SameRib DEF M!LookupAgrees
<1>2. M!FoldSpec => []M!LookupAgrees
  BY M!LookupsAgree, SameCallers, Parameters
<1> QED BY <1>1, <1>2, StepsInvariant, StoresImplementFolds, PTL

\* No group is lost while no update runs out of them: each is in the pool,
\* linked, or held by the edge that is written (tbl8_get, write_edge,
\* tbl8_recycle).
THEOREM NoStoredGroupIsLost ==
  ASSUME NoDefaultRoute
  PROVE  Spec => []NoGroupLost
<1>1. StepsInv /\ M!NoGroupMissing => NoGroupLost
  <2> SUFFICES ASSUME StepsInv, M!NoGroupMissing PROVE NoGroupLost
    OBVIOUS
  <2>1. M!Linkers = Linking /\ M!OnPath = OnPath /\ M!Range(free) = Range(free)
    BY IdleSettled, SameConstants
       DEF M!Linkers, Linking, M!OnPath, OnPath, M!Range, Range
  <2> QED BY <2>1, SameConstants DEF M!NoGroupMissing, NoGroupLost
<1>2. M!FoldSpec => []M!NoGroupMissing
  BY M!NoGroupIsLost, SameCallers, Parameters
<1> QED BY <1>1, <1>2, StepsInvariant, StoresImplementFolds, PTL

\* Between calls each table below tbl24 is one that a longer route makes
\* necessary: the update that takes the last one away has folded the group back
\* (tbl8_recycle, write_edge, recycle_root_path).
THEOREM StoredGroupsAreNeeded ==
  ASSUME NoDefaultRoute
  PROVE  Spec => []GroupsNeeded
<1>1. StepsInv /\ M!GroupsNeeded => GroupsNeeded
  <2> SUFFICES ASSUME StepsInv, M!GroupsNeeded, op.pc = "idle", intact, NEW ip \in Address,
                      NEW n \in Depths, Walk(ip)[n].ext
               PROVE  TableOf(ip, TBL24_BYTES + n - 1) \in Needed
    BY DEF GroupsNeeded
  <2>1. M!Walk(ip) = Walk(ip)
    BY IdleSettled, SettledWalk
  <2> QED BY <2>1, IdleSettled, SameConstants, SameTables DEF M!GroupsNeeded
<1>2. M!FoldSpec => []M!GroupsNeeded
  BY M!GroupsAreNeeded, SameCallers, Parameters
<1> QED BY <1>1, <1>2, StepsInvariant, StoresImplementFolds, PTL

\* The groups run out for an update only if the routes need at least as many
\* tables as there are groups (install_to_dp, build_common_root, write_edge).
THEOREM StoresRunDryWhenNeeded ==
  ASSUME NoDefaultRoute
  PROVE  Spec => RunsDryOnlyWhenFull
<1> DEFINE Dry == op.pc # "idle" /\ intact /\ ~intact' => Cardinality(Needed) >= number_tbl8s
           MDry == DoneOp.pc # "idle" /\ intact /\ ~intact'
                     => M!Cardinality(M!Needed) >= number_tbl8s
<1>1. StepsInv /\ [MDry]_(M!vars) => [Dry]_vars
  <2>1. M!Cardinality(M!Needed) = Cardinality(Needed)
    BY SameTables DEF M!Cardinality, Cardinality
  <2> QED BY <2>1, IdleSettled DEF M!vars
<1>2. M!FoldSpec => [][MDry]_(M!vars)
  BY M!DryOnlyWhenNeeded, SameCallers, Parameters DEF M!RunsDryOnlyWhenFull
<1> QED BY <1>1, <1>2, StepsInvariant, StoresImplementFolds, PTL DEF RunsDryOnlyWhenFull

-----------------------------------------------------------------------------
(* The abstract fib *)

LEMMA SamePromises ==
  /\ \A status : M!Promise!Answer(status) = Promise!Answer(status)
  /\ \A R, keys : M!Promise!WithoutRules(R, keys) = Promise!WithoutRules(R, keys)
  /\ \A R, key, hop : M!Promise!WithRule(R, key, hop) = Promise!WithRule(R, key, hop)
  /\ \A R, ip : M!Promise!RibHop(R, ip) = Promise!RibHop(R, ip)
  /\ M!Promise!NoRules = Promise!NoRules /\ M!Promise!Address = Promise!Address
  /\ M!Promise!MAX_DEPTH = Promise!MAX_DEPTH
  /\ \A S : M!Promise!Cardinality(S) = Promise!Cardinality(S)
  /\ M!Promise!NoUpdate = Promise!NoUpdate /\ M!Promise!Updates = Promise!Updates
  /\ \A u : M!Promise!Fits(u) <=> Promise!Fits(u)
<1>1. /\ \A status : M!Promise!Answer(status) = Promise!Answer(status)
      /\ \A r : M!Promise!Masked(r) = Promise!Masked(r)
      /\ \A R, keys : M!Promise!WithoutRules(R, keys) = Promise!WithoutRules(R, keys)
      /\ \A R, key, hop : M!Promise!WithRule(R, key, hop) = Promise!WithRule(R, key, hop)
      /\ \A R, ip : M!Promise!RibHop(R, ip) = Promise!RibHop(R, ip)
      /\ M!Promise!NoRules = Promise!NoRules /\ M!Promise!Address = Promise!Address
      /\ M!Promise!MISS = Promise!MISS /\ M!Promise!MAX_DEPTH = Promise!MAX_DEPTH
      /\ \A S : M!Cardinality(S) = Cardinality(S)
      /\ \A S : M!Promise!Cardinality(S) = Promise!Cardinality(S)
  <2>1. \A S : M!Cardinality(S) = Cardinality(S)
    BY DEF M!Cardinality, Cardinality
  <2>2. /\ \A status : M!Promise!Answer(status) = M!Answer(status)
        /\ \A r : M!Promise!Masked(r) = M!Masked(r)
        /\ \A R, keys : M!Promise!WithoutRules(R, keys) = M!WithoutRules(R, keys)
        /\ \A R, key, hop : M!Promise!WithRule(R, key, hop) = M!WithRule(R, key, hop)
        /\ \A R, ip : M!Promise!RibHop(R, ip) = M!RibHop(R, ip)
        /\ M!Promise!NoRules = M!NoRules /\ M!Promise!Address = M!Address
        /\ M!Promise!MISS = M!MISS /\ M!Promise!MAX_DEPTH = M!MAX_DEPTH
        /\ \A S : M!Promise!Cardinality(S) = M!Cardinality(S)
    BY M!SameWords, Parameters
  <2> QED BY <2>1, <2>2, SameWords, SameTables, SameRib, SameConstants
<1>2. \A u : M!Promise!Fits(u) <=> Promise!Fits(u)
  BY SameConstants DEF M!Promise!Fits, Promise!Fits
<1>3. /\ \A p, hop : M!Promise!Adding(p, hop) = Promise!Adding(p, hop)
      /\ \A p : M!Promise!Deleting(p) = Promise!Deleting(p)
      /\ M!Promise!NoUpdate = Promise!NoUpdate
      /\ M!Promise!Valid = Promise!Valid
  BY <1>1 DEF M!Promise!Adding, Promise!Adding, M!Promise!Deleting, Promise!Deleting,
     M!Promise!NoUpdate, Promise!NoUpdate, M!Promise!Valid, Promise!Valid
<1>4. M!Promise!Updates = Promise!Updates
  BY <1>1, <1>3 DEF M!Promise!Updates, Promise!Updates
<1> QED BY <1>1, <1>2, <1>3, <1>4

SeenAlike == M!Seen = Seen /\ M!Running = Running

LEMMA SameSeen == StepsInv => SeenAlike
BY IdleSettled, SameRib, SameConstants DEF SeenAlike, M!Seen, Seen, M!Running, Running

LEMMA SameSeenNext == StepsInv' => SeenAlike'
BY SameSeen, PTL

LEMMA SamePromised ==
  ASSUME StepsInv, StepsInv'
  PROVE  [M!Promise!Next]_(M!Promise!vars) => [Promise!Next]_(Promise!vars)
<1>1. M!Seen = Seen /\ M!Running = Running /\ M!Seen' = Seen' /\ M!Running' = Running'
  BY SameSeen, SameSeenNext DEF SeenAlike
<1>2. ASSUME NEW u PROVE /\ M!Promise!Begin(u) => Promise!Begin(u)
                         /\ M!Promise!Commit(u) => Promise!Commit(u)
                         /\ M!Promise!Refuse(u) => Promise!Refuse(u)
  <2>1. M!Promise!Begin(u) => Promise!Begin(u)
    BY <1>1, SamePromises
       DEF M!Promise!Begin, Promise!Begin, M!Seen, Seen, M!Running, Running
  <2>2. M!Promise!Commit(u) => Promise!Commit(u)
    BY <1>1, SamePromises
       DEF M!Promise!Commit, Promise!Commit, M!Promise!Effect, Promise!Effect,
           M!Seen, Seen, M!Running, Running
  <2>3. M!Promise!Refuse(u) => Promise!Refuse(u)
    BY <1>1, SamePromises
       DEF M!Promise!Refuse, Promise!Refuse, M!Seen, Seen, M!Running, Running
  <2> QED BY <2>1, <2>2, <2>3
<1>3. /\ M!Promise!RejectDepth => Promise!RejectDepth
      /\ \A ip : M!Promise!Lookup(ip) => Promise!Lookup(ip)
  <2>1. M!Promise!RejectDepth => Promise!RejectDepth
    BY <1>1, SamePromises
       DEF M!Promise!RejectDepth, Promise!RejectDepth, M!Seen, Seen, M!Running, Running
  <2>2. ASSUME NEW ip PROVE M!Promise!Lookup(ip) => Promise!Lookup(ip)
    <3>1. M!Promise!RibHop(M!Seen, ip) = Promise!RibHop(Seen, ip)
      BY <1>1, SamePromises
    <3>2. /\ M!Promise!Lookup(ip)
             => /\ ret' = [status |-> "ok", ip |-> ip, hop |-> M!Promise!RibHop(M!Seen, ip)]
                /\ UNCHANGED <<M!Seen, M!Running>>
          /\ /\ ret' = [status |-> "ok", ip |-> ip, hop |-> Promise!RibHop(Seen, ip)]
             /\ UNCHANGED <<Seen, Running>>
             => Promise!Lookup(ip)
      BY DEF M!Promise!Lookup, Promise!Lookup, M!Seen, Seen, M!Running, Running
    <3> QED BY <1>1, <3>1, <3>2
  <2> QED BY <2>1, <2>2
<1>4. M!Promise!Promised => Promise!Promised
  BY <1>1, <1>2, <1>3, SamePromises
     DEF M!Promise!Promised, Promise!Promised, M!Running, Running
<1>5. UNCHANGED M!Promise!vars => UNCHANGED Promise!vars
  BY <1>1 DEF M!Promise!vars, Promise!vars, M!Seen, Seen, M!Running, Running
<1> QED BY <1>4, <1>5 DEF M!Promise!Next, Promise!Next

\* The updates of the tables implement the abstract fib: a dictionary of routes
\* in which an update takes effect as it returns and every lookup answers with
\* the most specific route (rte_fib6_add, rte_fib6_delete,
\* rte_fib6_lookup_bulk).
THEOREM StoresImplementFib ==
  ASSUME NoDefaultRoute
  PROVE  Spec => ImplementsFib
<1>1. StepsInv /\ M!Promise!Init => Promise!Init
  <2> SUFFICES ASSUME StepsInv, M!Promise!Init PROVE Promise!Init
    OBVIOUS
  <2>1. M!Seen = Seen /\ M!Running = Running
    BY SameSeen DEF SeenAlike
  <2> QED BY <2>1, SamePromises
          DEF M!Promise!Init, Promise!Init, M!Seen, Seen, M!Running, Running
<1>2. M!FoldSpec => M!Promise!Init /\ [][M!Promise!Next]_(M!Promise!vars)
  BY M!TablesImplementFib, SameCallers, Parameters DEF M!ImplementsFib, M!Promise!Spec
<1>3. StepsInv /\ StepsInv' /\ [M!Promise!Next]_(M!Promise!vars)
        => [Promise!Next]_(Promise!vars)
  BY SamePromised
<1> QED BY <1>1, <1>2, <1>3, StepsInvariant, StoresImplementFolds, PTL
        DEF ImplementsFib, Promise!Spec

\* With two nodes per route the RIB refuses none for lack of memory: a tree over
\* n routes has at most 2n - 1 nodes (rte_fib6_create, rte_rib6_insert).
THEOREM StoredRoutesFit == Spec => []NodesSuffice
<1>1. M!NodesSuffice => NodesSuffice
  BY DEF M!NodesSuffice, NodesSuffice, M!Cardinality, Cardinality
<1>2. M!FoldSpec => []M!NodesSuffice
  BY M!RoutesFit, Parameters
<1> QED BY <1>1, <1>2, StoresImplementFolds, PTL

-----------------------------------------------------------------------------
(* What a lookup sees until the entry above a folded group is stored *)

\* The answers that the stored entry will change: to the next hop that is
\* written, under the route and outside its longer routes, or behind the entry.
Window ==
  op.val # NoVal /\ intact =>
    \A ip \in Address :
      TableHop(ip) # M!TableHop(ip) =>
        M!TableHop(ip) = op.hop /\ (Own(ip) \/ Blank(ip))

AnswersInv == StepsInv /\ M!AgreeInv /\ Window

LEMMA SameHalf ==
  ASSUME op.val = NoVal
  PROVE  M!Half = Half /\ (M!Folds <=> Folds)
<1>1. M!Rest = Rest
  BY Unstored, SameTables DEF M!Rest, Rest
<1> QED BY <1>1, Unstored, SameConstants, SameTables
        DEF M!Half, Half, M!Folds, Folds, M!Emptied, Emptied

LEMMA SameHopIn == \A E, ip : M!HopIn(E, ip) = HopIn(E, ip)
<1> SUFFICES ASSUME NEW E, NEW ip PROVE M!HopIn(E, ip) = HopIn(E, ip)
  OBVIOUS
<1>1. \A p, n : M!Behind(E, p, ip, n) = Behind(E, p, ip, n)
  BY SameTables DEF M!Behind, Behind
<1>2. M!PathIn(E, ip) = PathIn(E, ip)
  <2> DEFINE mine(f) == [n \in M!Depths |->
                          IF n = 1 THEN <<M!tbl24, M!get_idx(ip, 1)>>
                          ELSE M!Behind(E, f[n - 1], ip, n)]
             same(f) == [n \in Depths |->
                          IF n = 1 THEN <<tbl24, get_idx(ip, 1)>>
                          ELSE Behind(E, f[n - 1], ip, n)]
  <2>1. \A f : mine(f) = same(f)
    BY <1>1, SameConstants, SameTables
  <2>2. M!PathIn(E, ip) = (CHOOSE f : f = mine(f)) /\ PathIn(E, ip) = (CHOOSE f : f = same(f))
    BY DEF M!PathIn, PathIn
  <2> HIDE DEF mine, same
  <2> QED BY <2>1, <2>2
<1> QED BY <1>2 DEF M!HopIn, HopIn, M!Deepest, Deepest

\* Settled tables answer as those of FibTrieFolds do.
SettledAnswers == op.val = NoVal => \A ip \in Address : M!TableHop(ip) = TableHop(ip)

LEMMA SettledAnswer == SettledAnswers
BY Unstored, SettledWalk DEF SettledAnswers, M!TableHop, TableHop

LEMMA SettledAnswerNext ==
  op'.val = NoVal => \A ip \in Address : M!TableHop(ip)' = TableHop(ip)'
<1>1. SettledAnswers'
  BY SettledAnswer, PTL
<1> QED BY <1>1 DEF SettledAnswers, NoVal, MISS, Address, MAX_DEPTH

\* The walk answers as the way through the tables does, whatever is written.
TablesAnswer == IsTables(entries) => \A ip \in Address : TableHop(ip) = HopIn(entries, ip)

LEMMA AnswersByTables == TablesAnswer
BY TableHopIs DEF TablesAnswer

LEMMA AnswersByTablesNext ==
  IsTables(entries') => \A ip \in Address : TableHop(ip)' = HopIn(entries', ip)
<1>1. TablesAnswer'
  BY AnswersByTables, PTL
<1> QED BY <1>1 DEF TablesAnswer, IsTables, Places, Slots, Groups, tbl24, Hops, MAX_NH,
                    Address, MAX_DEPTH

\* What write_edge leaves to be stored when it has written the rest of a group.
LEMMA RestLeaves ==
  ASSUME op.val = NoVal, IndInv, WriteRest
  PROVE  /\ entries' = Half /\ IsTables(entries')
         /\ op'.val # NoVal /\ (Folds => ~op'.val.ext)
         /\ Level' = Level - 1 /\ Here' = Place(Level - 1) /\ Edge' = Edge
         /\ Half[Place(Level - 1)] = entries[Place(Level - 1)]
         /\ op'.hop = op.hop /\ op'.key = op.key /\ rib' = rib
<1> DEFINE g == op.path[Level]
           val == IF Folds THEN Rest[<<g, 0>>] ELSE Link(g)
<1>1. /\ op \in Call /\ op.pc \in Edges /\ op.up /\ Level > Root /\ Level \in Nat
      /\ Root \in Nat \ {0} /\ Level \in Depths /\ op.path \in Seq(Groups \cup {tbl24})
  BY Walking DEF IndInv, OpOK, Progress, WriteRest, Edges
<1>2. Front(op.path) = SubSeq(op.path, 1, Level - 1)
  BY DEF Front, Level
<1>3. Front(op.path) \in Seq(Groups \cup {tbl24}) /\ Len(Front(op.path)) = Level - 1
      /\ \A n \in 1..(Level - 1) : Front(op.path)[n] = op.path[n]
  BY <1>1, <1>2 DEF Level
<1>4. entries' = Half /\ op' = [op EXCEPT !.path = Front(op.path), !.val = val] /\ rib' = rib
  BY DEF WriteRest, Half, Folds, Rest, Local
<1>5. Folds => ~val.ext
  BY DEF Folds, Recyclable, Uniform
<1> HIDE DEF val
<1>6. /\ op'.path = Front(op.path) /\ op'.val = val /\ op'.pc = op.pc
      /\ op'.ledge = op.ledge /\ op'.redge = op.redge
      /\ op'.hop = op.hop /\ op'.key = op.key
  BY <1>1, <1>4 DEF Call
<1>7. Level' = Level - 1 /\ Edge' = Edge
  BY <1>3, <1>6 DEF Level, Edge
<1>8. Here' = Place(Level - 1)
  BY <1>1, <1>3, <1>6, <1>7 DEF Here, Place
<1>9. op'.val # NoVal
  <2>1. \A h : Link(h).val = h /\ Link(h).ext
    BY DEF Link
  <2>2. g \in Groups
    BY <1>1, Walking
  <2>3. <<g, 0>> \in Places /\ MISS \notin Hops
    BY <2>2, Sizes DEF Places, Slots, MISS, Hops
  <2>4. Rest[<<g, 0>>].val \in Hops
    BY <1>1, <2>3 DEF Rest, Written, Leaf, IndInv, TablesOK, Call
  <2>5. val.val # MISS
    <3>1. MISS \notin Groups
      BY FibTrieAssumption, Sizes DEF MISS, Groups
    <3> QED BY <2>1, <2>2, <2>3, <2>4, <3>1 DEF val
  <2> QED BY <1>6, <2>5 DEF NoVal
<1>10. IsTables(entries')
  <2>1. Storing'
    BY RestIsFold
  <2> QED BY <1>9, <2>1 DEF Storing, IsTables, Places, Slots, Groups, tbl24, Hops, MAX_NH
<1>11. Half[Place(Level - 1)] = entries[Place(Level - 1)]
  <2>1. Level - 1 \in 1..Level /\ Level \in 1..Level /\ Level - 1 # Level /\ Level - 1 >= Root
    BY <1>1
  <2>2. Place(Level - 1) \in Places
    BY <1>1, <2>1, Walking
  <2>3. Place(Level - 1)[1] # g
    <3>1. Place(Level - 1)[1] = op.path[Level - 1]
      BY DEF Place
    <3> QED BY <1>1, <2>1, <3>1 DEF IndInv, LinksOK, NoLoop
  <2>4. Rest[Place(Level - 1)] = entries[Place(Level - 1)]
    BY <2>2, <2>3 DEF Rest, Written
  <2> QED BY <2>2, <2>3, <2>4 DEF Half, Emptied
<1> QED BY <1>4, <1>5, <1>6, <1>7, <1>8, <1>9, <1>10, <1>11

\* What lookups see while the rest of a group has been written and the entry
\* above it has not.
LEMMA RestAnswers ==
  ASSUME op.val = NoVal, IndInv, M!IndInv, M!AgreeInv, intact, WriteRest, NEW ip \in Address
  PROVE  \/ TableHop(ip)' = TableHop(ip)
         \/ TableHop(ip)' = M!TableHop(ip)'
         \/ TableHop(ip)' = 0 /\ M!TableHop(ip)' = op.hop /\ Blank(ip)'
<1>1. M!FoldRest
  BY RestIsFold
<1>2. /\ DoneOp = op /\ Settled = entries /\ M!Level = Level /\ M!Edge = Edge
      /\ \A n : M!Place(n) = Place(n)
      /\ \A n : M!get_idx(ip, n) = get_idx(ip, n) /\ M!get_idx(Edge, n) = get_idx(Edge, n)
      /\ M!Half = Half /\ (M!Folds <=> Folds) /\ M!HopIn(Half, ip) = HopIn(Half, ip)
      /\ M!TableHop(ip) = TableHop(ip)
  BY Unstored, SameTables, SameHalf, SameHopIn, SettledAnswer DEF SettledAnswers
<1>3. ip \in M!Address
  BY SameConstants
<1>4. \/ M!HopIn(M!Half, ip) = M!TableHop(ip)
      \/ M!HopIn(M!Half, ip) = M!TableHop(ip)'
      \/ /\ M!HopIn(M!Half, ip) = 0 /\ M!TableHop(ip)' = DoneOp.hop
         /\ M!Folds /\ Settled[M!Place(M!Level - 1)].ext
         /\ \A n \in 1..(M!Level - 1) : M!get_idx(ip, n) = M!get_idx(M!Edge, n)
  BY <1>1, <1>3, M!FoldWindow, Parameters
<1>5. \/ HopIn(Half, ip) = TableHop(ip)
      \/ HopIn(Half, ip) = M!TableHop(ip)'
      \/ /\ HopIn(Half, ip) = 0 /\ M!TableHop(ip)' = op.hop
         /\ Folds /\ entries[Place(Level - 1)].ext
         /\ \A n \in 1..(Level - 1) : get_idx(ip, n) = get_idx(Edge, n)
  BY ONLY <1>2, <1>4
<1>6. TableHop(ip)' = HopIn(Half, ip)
  BY RestLeaves, AnswersByTablesNext
<1>7. ASSUME Folds, entries[Place(Level - 1)].ext,
             \A n \in 1..(Level - 1) : get_idx(ip, n) = get_idx(Edge, n)
      PROVE  Blank(ip)'
  <2>1. op'.val # NoVal /\ ~op'.val.ext /\ entries'[Here'].ext
    BY <1>7, RestLeaves
  <2>2. \A n \in 1..Level' : get_idx(ip, n) = get_idx(Edge', n)
    BY <1>7, RestLeaves
  <2> QED BY <2>1, <2>2 DEF Blank, NoVal, MISS, get_idx, Byte
<1> QED BY <1>5, <1>6, <1>7

\* A step of an update changes what the settled tables answer as one of
\* FibTrieFolds does.
LEMMA SettledStays ==
  ASSUME NoDefaultRoute, StepsInv, M!AgreeInv, Next, intact', NEW ip \in Address,
         M!TableHop(ip)' # M!TableHop(ip)
  PROVE  M!TableHop(ip)' = op.hop /\ Own(ip)
<1>1. [M!FoldNext]_(M!vars)
  BY StepImplements
<1>2. M!AgreeInv' /\ [M!NoStrayWrite]_Settled
  BY <1>1, M!NextAgrees, SameCallers, Parameters DEF StepsInv
<1>3. Settled' # Settled
  <2> SUFFICES ASSUME Settled' = Settled PROVE FALSE
    OBVIOUS
  <2> QED BY DEF M!TableHop, M!Walk, M!get_idx, M!Byte, M!Depths, M!tbl24
<1>4. M!NoStrayWrite
  BY <1>2, <1>3
<1>5. ip \in M!Address
  BY SameConstants
<1>6. /\ M!TableHop(ip)' = DoneOp.hop /\ M!Holds(DoneOp.key, ip)
      /\ \A q \in M!Longer(rib, DoneOp.key) : ~M!Holds(q, ip)
  BY <1>4, <1>5 DEF M!NoStrayWrite
<1> QED BY <1>6, IdleSettled, SameRib DEF Own

LEMMA SettledSeen ==
  ASSUME Settled' = Settled, NEW ip
  PROVE  M!TableHop(ip)' = M!TableHop(ip)
BY DEF M!TableHop, M!Walk, M!get_idx, M!Byte, M!Depths, M!tbl24

LEMMA EntriesSeen ==
  ASSUME entries' = entries, NEW ip
  PROVE  TableHop(ip)' = TableHop(ip)
BY DEF TableHop, Walk, get_idx, Byte, Depths, tbl24

LEMMA WindowOpens ==
  ASSUME NoDefaultRoute, AnswersInv, op.val = NoVal, WriteRest
  PROVE  Window'
<1>1. IndInv /\ M!IndInv /\ M!AgreeInv /\ StepsInv /\ Next
  BY UnstoredOK DEF AnswersInv, StepsInv, Next, Step
<1>2. op'.hop = op.hop /\ op'.key = op.key /\ rib' = rib /\ intact' = intact
  BY <1>1, RestLeaves DEF WriteRest
<1>3. ASSUME NEW ip \in Address, intact', TableHop(ip)' # M!TableHop(ip)'
      PROVE  M!TableHop(ip)' = op'.hop /\ (Own(ip)' \/ Blank(ip)')
  <2>1. Own(ip) => Own(ip)'
    BY <1>2 DEF Own, Longer, Inside, Holds, ip6_mask_addr, MAX_DEPTH
  <2>2. M!TableHop(ip) = TableHop(ip)
    BY SettledAnswer DEF SettledAnswers
  <2>3. CASE TableHop(ip)' = TableHop(ip)
    <3>1. M!TableHop(ip)' = op.hop /\ Own(ip)
      BY <1>1, <1>3, <2>2, <2>3, SettledStays
    <3> QED BY <1>2, <2>1, <3>1
  <2>4. CASE TableHop(ip)' = 0 /\ M!TableHop(ip)' = op.hop /\ Blank(ip)'
    BY <1>2, <2>4
  <2> QED BY <1>1, <1>2, <1>3, <2>3, <2>4, RestAnswers
<1> QED BY <1>3 DEF Window, Address, MAX_DEPTH, NoVal, MISS

LEMMA WindowKept ==
  ASSUME NoDefaultRoute, AnswersInv, [Next]_vars
  PROVE  Window'
<1>1. CASE UNCHANGED vars
  <2>1. Settled' = Settled /\ entries' = entries /\ op' = op /\ rib' = rib /\ intact' = intact
    BY <1>1 DEF vars, tables, Settled, Written, Here, Place, Edge, Level, LastIn, get_idx,
                Byte, Places, Slots, Groups, tbl24, MAX_DEPTH, NoVal, MISS
  <2>2. \A ip : TableHop(ip)' = TableHop(ip) /\ M!TableHop(ip)' = M!TableHop(ip)
    BY <2>1, SettledSeen, EntriesSeen
  <2>3. \A ip : (Own(ip)' <=> Own(ip)) /\ (Blank(ip)' <=> Blank(ip))
    BY <2>1 DEF Own, Longer, Inside, Holds, ip6_mask_addr, MAX_DEPTH, Blank, Here, Place, Edge,
                Level, LastIn, get_idx, Byte, NoVal, MISS
  <2> QED BY <2>1, <2>2, <2>3 DEF AnswersInv, Window, Address, MAX_DEPTH, NoVal, MISS
<1>2. CASE Next /\ op.val # NoVal
  <2>1. op'.val = NoVal
    BY <1>2, OnlyStores, StoreIsNothing DEF AnswersInv, StepsInv
  <2> QED BY <2>1 DEF Window, NoVal, MISS
<1>3. CASE Next /\ op.val = NoVal /\ ~WriteRest
  <2>1. op'.val = NoVal
    BY <1>3, UnstoredOK, StaysPlain DEF AnswersInv, StepsInv, Plain
  <2> QED BY <2>1 DEF Window, NoVal, MISS
<1> QED BY <1>1, <1>2, <1>3, WindowOpens

LEMMA AnswersInvariant ==
  ASSUME NoDefaultRoute
  PROVE  Spec => []AnswersInv
<1>1. M!FoldSpec => [](M!IndInv /\ M!AgreeInv)
  BY M!AgreeInvariant, SameCallers, Parameters
<1>2. rte_fib6_create => Window
  BY DEF rte_fib6_create, Idle, Window
<1>3. (StepsInv /\ M!IndInv /\ M!AgreeInv) /\ Window /\ [Next]_vars => Window'
  BY WindowKept DEF AnswersInv
<1>4. StepsInv /\ M!IndInv /\ M!AgreeInv /\ Window => AnswersInv
  BY DEF AnswersInv
<1> QED BY <1>1, <1>2, <1>3, <1>4, StepsInvariant, StoresImplementFolds, PTL DEF Spec

StrayWrite(ip) ==
  /\ TableHop(ip)' # TableHop(ip)
  /\ ~(TableHop(ip)' = op.hop /\ (Own(ip) \/ Blank(ip)))
  /\ ~(TableHop(ip)' = 0 /\ Blank(ip)' /\ (Own(ip) \/ TableHop(ip) = op.hop))

LEMMA NoStrayStore ==
  ASSUME NoDefaultRoute, AnswersInv, Next, intact', NEW ip \in Address
  PROVE  ~StrayWrite(ip)
<1>1. StepsInv /\ M!IndInv /\ M!AgreeInv /\ Storing /\ Window
  BY DEF AnswersInv, StepsInv
<1>2. CASE op.val # NoVal
  <2>1. StoreEntry /\ intact
    BY <1>1, <1>2, OnlyStores DEF StoreEntry
  <2>2. op'.val = NoVal /\ Settled' = Settled
    BY <1>1, <1>2, <2>1, StoreIsNothing
  <2>3. TableHop(ip)' = M!TableHop(ip)
    BY <2>2, SettledSeen, SettledAnswerNext
  <2> QED BY <1>1, <1>2, <2>1, <2>3 DEF Window, StrayWrite
<1>3. CASE op.val = NoVal /\ ~WriteRest
  <2>1. op'.val = NoVal
    BY <1>1, <1>3, UnstoredOK, StaysPlain DEF Plain
  <2>2. TableHop(ip)' = M!TableHop(ip)' /\ TableHop(ip) = M!TableHop(ip)
    BY <1>3, <2>1, SettledAnswer, SettledAnswerNext DEF SettledAnswers
  <2>3. M!TableHop(ip)' # M!TableHop(ip) => M!TableHop(ip)' = op.hop /\ Own(ip)
    BY <1>1, SettledStays
  <2> QED BY <2>2, <2>3 DEF StrayWrite
<1>4. CASE op.val = NoVal /\ WriteRest
  <2>1. IndInv /\ intact
    BY <1>1, <1>4, UnstoredOK DEF WriteRest
  <2>2. TableHop(ip) = M!TableHop(ip)
    BY <1>4, SettledAnswer DEF SettledAnswers
  <2>3. M!TableHop(ip)' # M!TableHop(ip) => M!TableHop(ip)' = op.hop /\ Own(ip)
    BY <1>1, SettledStays
  <2>4. \/ TableHop(ip)' = TableHop(ip)
        \/ TableHop(ip)' = M!TableHop(ip)'
        \/ TableHop(ip)' = 0 /\ M!TableHop(ip)' = op.hop /\ Blank(ip)'
    BY <1>1, <1>4, <2>1, RestAnswers
  <2> QED BY <2>2, <2>3, <2>4 DEF StrayWrite
<1> QED BY <1>2, <1>3, <1>4

\* A store of an update changes an answer to the next hop that is written, under
\* the route and outside its longer routes or, when it takes the place of a
\* link to a group that has been folded, behind its entry; those addresses are
\* the only ones that lose an answer they had, and they read 0 from the fold to
\* that store (build_common_root, write_edge, recycle_root_path).
THEOREM StoresStayInTheirGaps ==
  ASSUME NoDefaultRoute
  PROVE  Spec => NoStrayWrites
<1>1. AnswersInv /\ [Next]_vars =>
        [intact' => \A ip \in Address : ~StrayWrite(ip)]_vars
  BY NoStrayStore
<1>2. AnswersInv /\ [Next]_vars =>
        [intact' => \A ip \in Address :
          TableHop(ip)' # TableHop(ip) =>
            \/ TableHop(ip)' = op.hop /\ (Own(ip) \/ Blank(ip))
            \/ TableHop(ip)' = 0 /\ Blank(ip)' /\ (Own(ip) \/ TableHop(ip) = op.hop)]_vars
  BY <1>1 DEF StrayWrite
<1> QED BY <1>2, AnswersInvariant, PTL DEF Spec, NoStrayWrites

=============================================================================
