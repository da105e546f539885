---------------------------- MODULE Dir24_8Proof ----------------------------
(***************************************************************************)
(* For every size of table and every sequence of calls, the ones that run  *)
(* out of groups included: the variables of Dir24_8 keep their types, and  *)
(* no group is linked twice or linked while it is free.  For callers that  *)
(* use no default route, as long as there are groups: the table implements *)
(* the abstract fib.                                                       *)
(***************************************************************************)
EXTENDS Dir24_8, PrefixLemmas

-----------------------------------------------------------------------------
(* Entries, groups and indices *)

LEMMA Sizes ==
  /\ MAX_NH \in Nat /\ MAX_NH + 1 \in Nat \ {0} /\ Hops \subseteq Nat /\ DEF_NH \in Hops
  /\ number_tbl8s \in Nat /\ Groups \subseteq Hops
  /\ GRP_NUM_ENT \in Nat \ {0} /\ 2 ^ TOP_BITS \in Nat \ {0}
  /\ 2 ^ MAX_DEPTH = 2 ^ TOP_BITS * GRP_NUM_ENT
  /\ RSVD_MOD \in Nat \ {0} /\ 0 \in Slots
<1>1. MAX_NH \in Int
  BY Dir24_8Assumption DEF MAX_NH
<1>2. TOP_BITS \in 0..MAX_DEPTH
  BY Dir24_8Assumption, DepthsAreNaturals
<1>3. /\ 2 ^ TOP_BITS \in Nat \ {0} /\ GRP_NUM_ENT \in Nat \ {0}
      /\ 2 ^ MAX_DEPTH = 2 ^ TOP_BITS * GRP_NUM_ENT
  <2>1. /\ Size(TOP_BITS) \in Nat \ {0} /\ 2 ^ TOP_BITS \in Nat \ {0}
        /\ 2 ^ MAX_DEPTH = Size(TOP_BITS) * 2 ^ TOP_BITS
    BY <1>2, SizeOfDepth
  <2>2. GRP_NUM_ENT = Size(TOP_BITS)
    BY DEF GRP_NUM_ENT, TBL8_BITS, Size
  <2>3. \A m, n \in Nat : m * n = n * m
    OBVIOUS
  <2> QED BY <2>1, <2>2, <2>3
<1> QED
  BY <1>1, <1>3, Dir24_8Assumption
  DEF Hops, Groups, Slots

\* The entry of an address lies in tbl24, and its slot in a group.
LEMMA IndexOfAddress ==
  ASSUME NEW ip \in Address
  PROVE  get_tbl24_idx(ip) \in Cells /\ SlotOf(ip) \in Slots
<1> DEFINE n == GRP_NUM_ENT
           m == 2 ^ TOP_BITS
<1>1. n \in Nat \ {0} /\ m \in Nat \ {0} /\ ip \in 0..(m * n - 1)
  BY Sizes DEF Address
<1> HIDE DEF n, m
<1>2. ip \div n \in Nat /\ ip % n \in 0..(n - 1) /\ ip = (n * (ip \div n)) + (ip % n)
  BY <1>1
<1>3. ip \div n < m
  <2> DEFINE d == ip \div n
  <2> SUFFICES ASSUME d >= m PROVE FALSE
    BY <1>1, <1>2
  <2>1. d \in Nat /\ n * d <= ip
    BY <1>1, <1>2
  <2> HIDE DEF d
  <2>2. n * d >= n * m
    BY <1>1, <2>1
  <2>3. n * m = m * n
    BY <1>1
  <2> QED BY <1>1, <2>1, <2>2, <2>3
<1> QED BY <1>1, <1>2, <1>3 DEF get_tbl24_idx, SlotOf, Cells, Slots, n, m

LEMMA LeafType ==
  ASSUME NEW hop \in Nat
  PROVE  Leaf(hop) \in [ext : BOOLEAN, val : Hops] /\ ~Leaf(hop).ext
<1>1. hop % (MAX_NH + 1) \in Hops
  BY Sizes DEF Hops
<1> QED BY <1>1 DEF Leaf

\* A link holds its group: the index is not cut.
LEMMA LinkType ==
  ASSUME NEW g \in Groups
  PROVE  Link(g) \in [ext : BOOLEAN, val : Hops] /\ Link(g).ext /\ Link(g).val = g
<1>1. g \in Nat /\ g < MAX_NH + 1
  BY Sizes, Dir24_8Assumption DEF Groups
<1>2. g % (MAX_NH + 1) = g
  BY <1>1, Sizes
<1>3. g \in Hops
  BY Sizes
<1> QED BY <1>2, <1>3 DEF Link

\* An allocation returns a free group.
LEMMA AllocatedIsFree ==
  ASSUME Free # {}
  PROVE  tbl8_get_idx \in Free
<1>1. Free \in SUBSET Nat
  BY Sizes DEF Free, Groups
<1>2. \E g \in Free : \A h \in Free : g <= h
  BY <1>1, LeastNatural
<1> QED BY <1>2 DEF tbl8_get_idx

-----------------------------------------------------------------------------
(* The inductive invariant *)

\* Neither part is inductive alone: that a link leads to a group rests on the
\* types, that a group that is written is nobody else's on the links.
IndInv == TypeOK /\ LinkedGroupsTaken

\* The part of TypeOK about the tables.
TablesOK ==
  /\ tbl24 \in [Cells -> [ext : BOOLEAN, val : Hops]]
  /\ \A c \in Cells : tbl24[c].ext => tbl24[c].val \in Groups
  /\ tbl8 \in [Groups -> [Slots -> Hops]]
  /\ tbl8_idxes \subseteq Groups
  /\ cur_tbl8s \in Int

\* The parts about the RIB and about the running call.
RibOK ==
  /\ DOMAIN rib \subseteq Network
  /\ \A p \in DOMAIN rib : rib[p] \in Nat /\ (type = "DIR24_8" => rib[p] \in Hops)
  /\ rsvd_tbl8s \in 0..(RSVD_MOD - 1)

OpOK ==
  /\ op \in Call
  /\ op.pc # "idle" => type = "DIR24_8" /\ op.call # "none"
  /\ op.pc = "idle" <=> op = Idle

LEMMA TypeParts ==
  TypeOK <=> type \in Types /\ RibOK /\ TablesOK /\ OpOK /\ intact \in BOOLEAN
BY DEF TypeOK, RibOK, TablesOK, OpOK

LEMMA TypePartsPrimed ==
  TypeOK' <=> (type \in Types /\ RibOK /\ TablesOK /\ OpOK /\ intact \in BOOLEAN)'
BY DEF TypeOK, RibOK, TablesOK, OpOK

LEMMA IdleOK ==
  /\ Idle \in Call /\ Idle.pc = "idle"
<1>1. 0 \in Address /\ 0 \in 0..MAX_DEPTH /\ 0 \in Hops
  BY DepthsAreNaturals, Sizes DEF Address, Hops
<1> QED BY <1>1 DEF Idle, Call, Network

THEOREM CreateEstablishesInv == rte_fib_create => IndInv
<1> SUFFICES ASSUME rte_fib_create PROVE IndInv
  OBVIOUS
<1>1. /\ Leaf(DEF_NH) \in [ext : BOOLEAN, val : Hops] /\ ~Leaf(DEF_NH).ext
  BY Sizes, LeafType
<1>2. TablesOK /\ \A c \in Cells : ~tbl24[c].ext
  <2>1. 0 \in Hops
    BY Sizes DEF Hops
  <2>2. \A c \in Cells : tbl24[c] = Leaf(DEF_NH)
    BY DEF rte_fib_create
  <2>3. tbl24 \in [Cells -> [ext : BOOLEAN, val : Hops]]
    BY <1>1 DEF rte_fib_create
  <2>4. tbl8 \in [Groups -> [Slots -> Hops]]
    BY <2>1 DEF rte_fib_create
  <2> QED BY <1>1, <2>2, <2>3, <2>4 DEF rte_fib_create, TablesOK
<1>3. LinkedGroupsTaken
  BY <1>2 DEF LinkedGroupsTaken, Linked
<1>4. DOMAIN rib = {}
  BY DEF rte_fib_create, NoRules
<1>5. RibOK
  BY <1>4, Sizes DEF RibOK, rte_fib_create
<1>6. OpOK
  BY IdleOK DEF rte_fib_create, OpOK
<1> QED BY <1>2, <1>3, <1>5, <1>6, TypeParts DEF rte_fib_create, IndInv

\* What a step needs to keep if it leaves the tables alone.
LEMMA TablesUnchanged ==
  ASSUME IndInv, UNCHANGED tables
  PROVE  TablesOK' /\ LinkedGroupsTaken'
BY TypeParts DEF IndInv, tables, TablesOK, LinkedGroupsTaken, Linked

-----------------------------------------------------------------------------
(* The calls *)

LEMMA WithRuleOK ==
  ASSUME RibOK, NEW key \in Network, NEW hop \in Nat,
         type = "DIR24_8" => hop \in Hops,
         rib' = WithRule(rib, key, hop), type' = type,
         rsvd_tbl8s' \in 0..(RSVD_MOD - 1)
  PROVE  RibOK'
BY DEF WithRule, RibOK

LEMMA WithoutRulesOK ==
  ASSUME RibOK, NEW keys, rib' = WithoutRules(rib, keys), type' = type,
         rsvd_tbl8s' \in 0..(RSVD_MOD - 1)
  PROVE  RibOK'
BY DEF WithoutRules, RibOK

\* Removing a route gives back its reservation modulo RSVD_MOD.
LEMMA RemovedOK ==
  ASSUME RibOK, NEW key, Removed(key), type' = type
  PROVE  RibOK'
<1>1. rsvd_tbl8s \in Int /\ rsvd_tbl8s - 1 \in Int
  BY Sizes DEF RibOK
<1>2. (rsvd_tbl8s - 1) % RSVD_MOD \in 0..(RSVD_MOD - 1)
  BY <1>1, Sizes, RemainderRange
<1>3. rsvd_tbl8s' \in 0..(RSVD_MOD - 1)
  BY <1>2 DEF Removed, RibOK
<1> QED BY <1>3, WithoutRulesOK DEF Removed

\* A call that returns at once, whatever it did to the RIB.
LEMMA ReturnKeepsInv ==
  ASSUME IndInv, NEW status, Return(status), RibOK'
  PROVE  IndInv'
<1>1. TablesOK' /\ LinkedGroupsTaken'
  BY TablesUnchanged DEF Return
<1>2. OpOK'
  BY TypeParts DEF IndInv, Return, OpOK
<1> QED BY <1>1, <1>2, TypeParts, TypePartsPrimed DEF IndInv, Return

LEMMA SameRibOK ==
  ASSUME RibOK, UNCHANGED <<type, rib, rsvd_tbl8s>>
  PROVE  RibOK'
BY DEF RibOK

\* A call that starts to write.
LEMMA ModifyKeepsInv ==
  ASSUME IndInv, type = "DIR24_8", NEW key \in Network, NEW hop \in Hops,
         NEW call \in {"add", "change", "delete"}, NEW reserve \in BOOLEAN,
         modify_fib(call, key, hop, reserve), RibOK'
  PROVE  IndInv'
<1>1. TablesOK' /\ LinkedGroupsTaken'
  BY TablesUnchanged DEF modify_fib
<1>2. Nearest(rib, key) \in SUBSET Network
  BY NearestAreRoutes, TypeParts DEF IndInv, RibOK
<1>3. key.ip \in Address
  BY DEF Network
<1>4. op' \in Call /\ op'.pc = "gap" /\ op'.call = call
  BY <1>2, <1>3, IdleOK DEF modify_fib, Call, Idle
<1>5. op' # Idle
  BY <1>4, IdleOK
<1>6. OpOK'
  BY <1>4, <1>5 DEF modify_fib, OpOK
<1> QED BY <1>1, <1>6, TypeParts, TypePartsPrimed DEF IndInv, modify_fib

LEMMA RouteTypes ==
  ASSUME NEW r \in Routes, r.depth <= MAX_DEPTH
  PROVE  Masked(r) \in Network
<1>1. r.ip \in Address /\ r.depth \in 0..MAX_DEPTH
  BY Dir24_8Assumption, DepthsAreNaturals
<1> QED BY <1>1, MaskedNetwork

LEMMA AddKeepsInv ==
  ASSUME IndInv, NEW r \in Routes, NEW hop \in NextHops, rte_fib_add(r, hop)
  PROVE  IndInv'
<1> DEFINE key == Masked(r)
<1>1. RibOK /\ r.depth <= MAX_DEPTH
  BY TypeParts DEF IndInv, rte_fib_add, dummy_add, RejectHop, AddSame, Change,
                   AddRefused, Add, Called
<1>2. key \in Network /\ hop \in Nat
  BY <1>1, RouteTypes, Dir24_8Assumption
<1>3. hop <= MAX_NH => hop \in Hops
  BY <1>2, Sizes DEF Hops
<1>4. rsvd_tbl8s \in 0..(RSVD_MOD - 1)
  BY <1>1 DEF RibOK
<1>5. CASE dummy_add(r, hop)
  <2>1. CASE NoNode(r)
    <3>1. UNCHANGED <<type, rib, rsvd_tbl8s>> /\ Return("ENOMEM")
      BY <2>1 DEF NoNode, Return
    <3> QED BY <1>1, <3>1, SameRibOK, ReturnKeepsInv
  <2>2. CASE ~NoNode(r)
    <3>1. /\ rib' = WithRule(rib, key, hop) /\ Return("ok") /\ type = "DUMMY"
          /\ rsvd_tbl8s' = rsvd_tbl8s /\ type' = type
      BY <1>5, <2>2 DEF dummy_add, Called, Return
    <3>2. RibOK'
      BY <1>1, <1>2, <1>4, <3>1, WithRuleOK
    <3> QED BY <3>1, <3>2, ReturnKeepsInv
  <2> QED BY <2>1, <2>2
<1>6. CASE RejectHop(r, hop) \/ AddSame(r, hop) \/ AddRefused(r, hop)
  <2>1. UNCHANGED <<type, rib, rsvd_tbl8s>> /\ \E status : Return(status)
    BY <1>6 DEF RejectHop, AddSame, AddRefused, NoNode, Return
  <2> QED BY <1>1, <2>1, SameRibOK, ReturnKeepsInv
<1>7. CASE Change(r, hop)
  <2>1. /\ modify_fib("change", key, hop, FALSE)
        /\ UNCHANGED <<type, rib, rsvd_tbl8s>>
        /\ type = "DIR24_8" /\ hop \in Hops
    BY <1>3, <1>7 DEF Change, Called, modify_fib
  <2> QED BY <1>1, <1>2, <2>1, SameRibOK, ModifyKeepsInv
<1>8. CASE Add(r, hop)
  <2>1. /\ rib' = WithRule(rib, key, hop) /\ type = "DIR24_8" /\ hop \in Hops
        /\ type' = type /\ rsvd_tbl8s' = rsvd_tbl8s
    BY <1>3, <1>8 DEF Add, Called, Return, modify_fib
  <2>2. RibOK'
    BY <1>1, <1>2, <1>4, <2>1, WithRuleOK
  <2>3. CASE Return("ok")
    BY <2>2, <2>3, ReturnKeepsInv
  <2>4. CASE modify_fib("add", key, hop, NeedsGroup(key))
    <3>1. NeedsGroup(key) \in BOOLEAN
      BY DEF NeedsGroup
    <3> QED BY <1>2, <2>1, <2>2, <2>4, <3>1, ModifyKeepsInv
  <2> QED BY <1>8, <2>3, <2>4 DEF Add
<1> QED BY <1>5, <1>6, <1>7, <1>8 DEF rte_fib_add

LEMMA DeleteKeepsInv ==
  ASSUME IndInv, NEW r \in Routes, rte_fib_delete(r)
  PROVE  IndInv'
<1> DEFINE key == Masked(r)
<1>1. RibOK /\ r.depth <= MAX_DEPTH
  BY TypeParts DEF IndInv, rte_fib_delete, dummy_delete, DeleteAbsent, Delete, Called
<1>2. key \in Network
  BY <1>1, RouteTypes
<1>3. CASE dummy_delete(r)
  <2>1. /\ rib' = WithoutRules(rib, {key}) /\ rsvd_tbl8s' = rsvd_tbl8s
        /\ \E status : Return(status)
    BY <1>3 DEF dummy_delete
  <2>2. RibOK'
    BY <1>1, <2>1, WithoutRulesOK DEF RibOK, Return
  <2> QED BY <2>1, <2>2, ReturnKeepsInv
<1>4. CASE DeleteAbsent(r)
  <2>1. UNCHANGED <<type, rib, rsvd_tbl8s>> /\ Return("ENOENT")
    BY <1>4 DEF DeleteAbsent, Return
  <2> QED BY <1>1, <2>1, SameRibOK, ReturnKeepsInv
<1>5. CASE Delete(r) /\ SameAsAround(key, rib[key])
  <2>1. Return("ok") /\ Removed(key) /\ type' = type
    BY <1>5 DEF Delete, Return
  <2> QED BY <1>1, <2>1, RemovedOK, ReturnKeepsInv
<1>6. CASE Delete(r) /\ ~SameAsAround(key, rib[key])
  <2>1. /\ modify_fib("delete", key, ParentHop(rib, key), FALSE)
        /\ UNCHANGED <<type, rib, rsvd_tbl8s>> /\ type = "DIR24_8"
    BY <1>6 DEF Delete, Called, modify_fib
  <2>2. ParentHop(rib, key) \in Hops
    BY <1>1, <1>2, <2>1, ParentHopIsSome, Sizes DEF RibOK
  <2> QED BY <1>1, <1>2, <2>1, <2>2, SameRibOK, ModifyKeepsInv
<1> QED BY <1>3, <1>4, <1>5, <1>6 DEF rte_fib_delete

-----------------------------------------------------------------------------
(* The pieces of an update *)

\* What a step of a call changes in `op'.
LEMMA StepOpOK ==
  ASSUME OpOK, op.pc # "idle", type' = type, op' \in Call, op'.pc # "idle",
         op'.call = op.call
  PROVE  OpOK'
BY IdleOK DEF OpOK

LEMMA StepKeepsInv ==
  ASSUME IndInv, op.pc # "idle", UNCHANGED Local, intact' \in BOOLEAN,
         op' \in Call, op'.pc # "idle", op'.call = op.call,
         TablesOK', LinkedGroupsTaken'
  PROVE  IndInv'
<1>1. OpOK'
  BY StepOpOK, TypeParts DEF IndInv, Local
<1>2. RibOK'
  BY SameRibOK, TypeParts DEF IndInv, Local
<1> QED BY <1>1, <1>2, TypeParts, TypePartsPrimed DEF IndInv, Local

LEMMA GapKeepsInv ==
  ASSUME IndInv, NextGap \/ LastGap
  PROVE  IndInv'
<1>1. op \in Call /\ op.key \in Network /\ op.todo \in SUBSET Network
  BY TypeParts DEF IndInv, OpOK, Call
<1>2. \A ledge, redge : FirstPiece(ledge, redge) \in {"left", "middle", "inside", "gap"}
  BY DEF FirstPiece
<1>3. op' \in Call /\ op'.pc # "idle" /\ op'.call = op.call
  <2>1. CASE NextGap
    <3> DEFINE q == First(op.todo)
    <3>1. q \in Network /\ op.todo # {}
      BY <1>1, <2>1, FirstIsMember DEF NextGap
    <3>2. StepOver(q) \in Address /\ q.ip \in Address
      BY <3>1, EndAddress DEF StepOver, Network
    <3>3. \/ op' = [op EXCEPT !.ledge = StepOver(q), !.todo = @ \ {q}]
          \/ op' = [op EXCEPT !.pc = FirstPiece(op.ledge, q.ip), !.redge = q.ip]
      BY <2>1 DEF NextGap
    <3>4. op.pc = "gap" /\ op.todo \ {q} \in SUBSET Network
      BY <1>1, <2>1 DEF NextGap
    <3> DEFINE piece == FirstPiece(op.ledge, q.ip)
    <3>5. piece \in {"left", "middle", "inside", "gap"}
      BY <1>2
    <3> HIDE DEF q, piece
    <3>6. CASE op' = [op EXCEPT !.ledge = StepOver(q), !.todo = @ \ {q}]
      BY <1>1, <3>2, <3>4, <3>6 DEF Call
    <3>7. CASE op' = [op EXCEPT !.pc = piece, !.redge = q.ip]
      BY <1>1, <3>2, <3>5, <3>7 DEF Call
    <3> QED BY <3>3, <3>6, <3>7 DEF piece
  <2>2. CASE LastGap
    <3> DEFINE end == End(op.key)
    <3>1. end \in Address
      BY <1>1, EndAddress
    <3>2. \/ op' = [op EXCEPT !.last = TRUE]
          \/ op' = [op EXCEPT !.pc = FirstPiece(op.ledge, end),
                              !.redge = end, !.last = TRUE]
      BY <2>2 DEF LastGap
    <3> DEFINE piece == FirstPiece(op.ledge, end)
    <3>3. op.pc = "gap" /\ piece \in {"left", "middle", "inside", "gap"}
      BY <1>2, <2>2 DEF LastGap
    <3> HIDE DEF end, piece
    <3>4. CASE op' = [op EXCEPT !.last = TRUE]
      BY <1>1, <3>3, <3>4 DEF Call
    <3>5. CASE op' = [op EXCEPT !.pc = piece, !.redge = end, !.last = TRUE]
      BY <1>1, <3>1, <3>3, <3>5 DEF Call
    <3> QED BY <3>2, <3>4, <3>5 DEF piece
  <2> QED BY <2>1, <2>2
<1>4. op.pc # "idle" /\ UNCHANGED Local /\ UNCHANGED tables /\ intact' = intact
  BY DEF NextGap, LastGap
<1>5. TablesOK' /\ LinkedGroupsTaken'
  BY <1>4, TablesUnchanged
<1> QED BY <1>3, <1>4, <1>5, StepKeepsInv, TypeParts DEF IndInv

\* Writing into an entry's group, or into a new one that was free and so is
\* linked by no entry.
LEMMA WriteSlotsKeepsTables ==
  ASSUME IndInv, NEW c \in Cells, NEW slots, op.hop \in Hops,
         tbl24[c].ext \/ Free # {}, WriteSlots(c, slots)
  PROVE  TablesOK' /\ LinkedGroupsTaken'
<1> DEFINE e == tbl24[c]
           g == IF e.ext THEN e.val ELSE tbl8_get_idx
           group == [s \in Slots |-> IF s \in slots THEN op.hop
                                     ELSE IF e.ext THEN tbl8[g][s] ELSE Initial(e, s)]
           taken == IF e.ext THEN 0 ELSE 1
<1>1. TablesOK /\ LinkedGroupsTaken
  BY TypeParts DEF IndInv
<1>2. e \in [ext : BOOLEAN, val : Hops]
  BY <1>1 DEF TablesOK
<1>3. g \in Groups /\ \A d \in Cells \ {c} : tbl24[d].ext => tbl24[d].val # g
  <2>1. CASE e.ext
    BY <1>1, <2>1 DEF TablesOK, LinkedGroupsTaken, Linked
  <2>2. CASE ~e.ext
    <3>1. g \in Groups \ tbl8_idxes
      BY <2>2, AllocatedIsFree DEF Free
    <3> QED BY <1>1, <3>1 DEF LinkedGroupsTaken, Linked
  <2> QED BY <2>1, <2>2
<1>4. group \in [Slots -> Hops]
  <2>1. tbl8[g] \in [Slots -> Hops]
    BY <1>1, <1>3 DEF TablesOK
  <2> QED BY <1>2, <2>1 DEF Initial
<1>5. taken \in Int
  OBVIOUS
<1>6. CASE Recyclable(group)
  <2>1. /\ tbl24' = [tbl24 EXCEPT ![c] = Leaf(group[0])]
        /\ tbl8' = [tbl8 EXCEPT ![g] = [s \in Slots |-> 0]]
        /\ tbl8_idxes' = tbl8_idxes \ {g}
        /\ cur_tbl8s' = cur_tbl8s + taken - 1
    BY <1>6 DEF WriteSlots
  <2>2. group[0] \in Nat
    BY <1>4, Sizes
  <2>3. Leaf(group[0]) \in [ext : BOOLEAN, val : Hops] /\ ~Leaf(group[0]).ext
    BY <2>2, LeafType
  <2>4. [s \in Slots |-> 0] \in [Slots -> Hops]
    BY Sizes DEF Hops
  <2> HIDE DEF g, group, taken
  <2>5. TablesOK'
    BY <1>1, <1>3, <1>5, <2>1, <2>3, <2>4 DEF TablesOK
  <2>6. \A d \in Cells : tbl24'[d].ext => d # c /\ tbl24'[d] = tbl24[d]
    BY <1>1, <2>1, <2>3 DEF TablesOK
  <2>7. LinkedGroupsTaken'
    BY <1>1, <1>3, <2>1, <2>6 DEF LinkedGroupsTaken, Linked
  <2> QED BY <2>5, <2>7
<1>7. CASE ~Recyclable(group)
  <2>1. /\ tbl24' = [tbl24 EXCEPT ![c] = Link(g)]
        /\ tbl8' = [tbl8 EXCEPT ![g] = group]
        /\ tbl8_idxes' = tbl8_idxes \cup {g}
        /\ cur_tbl8s' = cur_tbl8s + taken
    BY <1>7 DEF WriteSlots
  <2> HIDE DEF g, group, taken
  <2>2. Link(g) \in [ext : BOOLEAN, val : Hops] /\ Link(g).ext /\ Link(g).val = g
    BY <1>3, LinkType
  <2>3. TablesOK'
    BY <1>1, <1>3, <1>4, <1>5, <2>1, <2>2 DEF TablesOK
  <2>4. /\ \A d \in Cells \ {c} : tbl24'[d] = tbl24[d]
        /\ tbl24'[c].val = g
    BY <1>1, <2>1, <2>2 DEF TablesOK
  <2>5. LinkedGroupsTaken'
    BY <1>1, <1>3, <2>1, <2>4 DEF LinkedGroupsTaken, Linked
  <2> QED BY <2>3, <2>5
<1> QED BY <1>6, <1>7

LEMMA EdgesKeepInv ==
  ASSUME IndInv, WriteLeft \/ WriteRight \/ WriteInside
  PROVE  IndInv'
<1>1. op \in Call /\ op.hop \in Hops /\ op.ledge \in Address /\ op.redge \in Address
  BY TypeParts DEF IndInv, OpOK, Call
<1>2. get_tbl24_idx(op.ledge) \in Cells /\ get_tbl24_idx(op.redge) \in Cells
  BY <1>1, IndexOfAddress
<1>3. Cardinality(Free) > 1 => Free # {}
  BY FS_EmptySet
<1>4. \E c \in Cells : \E slots : WriteSlots(c, slots) /\ (tbl24[c].ext \/ Free # {})
  BY <1>2, <1>3 DEF WriteLeft, WriteRight, WriteInside
<1>5. TablesOK' /\ LinkedGroupsTaken'
  BY <1>1, <1>4, WriteSlotsKeepsTables
<1>6. op' \in Call /\ op'.pc # "idle" /\ op'.call = op.call
  BY <1>1 DEF WriteLeft, WriteRight, WriteInside, GapDone, Call
<1>7. op.pc # "idle" /\ UNCHANGED Local /\ intact' = intact
  BY DEF WriteLeft, WriteRight, WriteInside
<1> QED BY <1>5, <1>6, <1>7, StepKeepsInv, TypeParts DEF IndInv

\* Whole entries are overwritten: links may be dropped, never made.
LEMMA MiddleKeepsInv ==
  ASSUME IndInv, WriteMiddle
  PROVE  IndInv'
<1>1. TablesOK /\ LinkedGroupsTaken /\ op \in Call /\ op.hop \in Nat
  BY TypeParts, Sizes DEF IndInv, OpOK, Call
<1>2. Leaf(op.hop) \in [ext : BOOLEAN, val : Hops] /\ ~Leaf(op.hop).ext
  BY <1>1, LeafType
<1>3. /\ tbl24' = [c \in Cells |-> IF c \in MiddleCells THEN Leaf(op.hop) ELSE tbl24[c]]
      /\ UNCHANGED <<tbl8, tbl8_idxes, cur_tbl8s>>
  BY DEF WriteMiddle
<1>4. \A c \in Cells : tbl24'[c] = Leaf(op.hop) \/ tbl24'[c] = tbl24[c]
  BY <1>3
<1>5. tbl24' \in [Cells -> [ext : BOOLEAN, val : Hops]]
  BY <1>1, <1>2, <1>3 DEF TablesOK
<1>6. TablesOK'
  BY <1>1, <1>2, <1>3, <1>4, <1>5 DEF TablesOK
<1>7. LinkedGroupsTaken'
  BY <1>1, <1>2, <1>3, <1>4 DEF LinkedGroupsTaken, Linked
<1>8. op' \in Call /\ op'.pc # "idle" /\ op'.call = op.call
  BY <1>1 DEF WriteMiddle, GapDone, Call
<1>9. op.pc # "idle" /\ UNCHANGED Local /\ intact' = intact
  BY DEF WriteMiddle
<1> QED BY <1>6, <1>7, <1>8, <1>9, StepKeepsInv, TypeParts DEF IndInv

\* A failed step leaves links and bitmap alone.
LEMMA OutOfGroupsKeepsInv ==
  ASSUME IndInv, OutOfGroups
  PROVE  IndInv'
<1> DEFINE c == get_tbl24_idx(IF op.pc = "right" THEN op.redge ELSE op.ledge)
           fill == [s \in Slots |-> tbl24[c].val]
<1>1. TablesOK /\ LinkedGroupsTaken /\ op \in Call
  BY TypeParts DEF IndInv, OpOK
<1>2. c \in Cells
  BY <1>1, IndexOfAddress DEF Call
<1>3. fill \in [Slots -> Hops]
  BY <1>1, <1>2 DEF TablesOK
<1>4. UNCHANGED <<tbl24, tbl8_idxes>>
  BY DEF OutOfGroups, tables
<1>5. TablesOK'
  <2>1. CASE UNCHANGED tables
    BY <2>1, TablesUnchanged
  <2>2. CASE ~UNCHANGED tables
    <3>1. /\ Cardinality(Free) = 1
          /\ tbl8' = [tbl8 EXCEPT ![tbl8_get_idx] = fill]
          /\ cur_tbl8s' = cur_tbl8s + 1
      BY <2>2 DEF OutOfGroups
    <3>2. tbl8_get_idx \in Groups
      BY <3>1, FS_EmptySet, AllocatedIsFree DEF Free
    <3> HIDE DEF fill
    <3> QED BY <1>1, <1>3, <1>4, <3>1, <3>2 DEF TablesOK
  <2> QED BY <2>1, <2>2
<1>6. LinkedGroupsTaken'
  BY <1>1, <1>4 DEF LinkedGroupsTaken, Linked
<1>7. op' \in Call /\ op'.pc # "idle" /\ op'.call = op.call
  BY <1>1 DEF OutOfGroups, Call
<1>8. op.pc # "idle" /\ UNCHANGED Local /\ intact' = FALSE
  BY DEF OutOfGroups
<1> QED BY <1>5, <1>6, <1>7, <1>8, StepKeepsInv DEF IndInv

-----------------------------------------------------------------------------
(* The end of a call, and the theorems *)

LEMMA ReturnsKeepInv ==
  ASSUME IndInv, Succeed \/ Fail
  PROVE  IndInv'
<1>1. RibOK /\ op \in Call /\ op.key \in Network /\ op.hop \in Hops /\ op.hop \in Nat
  BY TypeParts, Sizes DEF IndInv, OpOK, Call
<1>2. type' = type /\ op' = Idle /\ UNCHANGED tables /\ intact' = intact
  BY DEF Succeed, Fail
<1>3. TablesOK' /\ LinkedGroupsTaken'
  BY <1>2, TablesUnchanged
<1>4. OpOK'
  BY <1>2, IdleOK DEF OpOK
<1>5. (rsvd_tbl8s + 1) % RSVD_MOD \in 0..(RSVD_MOD - 1)
  <2>1. rsvd_tbl8s + 1 \in Int
    BY <1>1, Sizes DEF RibOK
  <2> QED BY <2>1, Sizes, RemainderRange
<1>6. RibOK'
  <2>1. CASE Succeed /\ op.call = "add"
    <3>1. UNCHANGED <<type, rib>> /\ rsvd_tbl8s' \in 0..(RSVD_MOD - 1)
      BY <1>1, <1>2, <1>5, <2>1 DEF Succeed, RibOK
    <3> QED BY <1>1, <3>1 DEF RibOK
  <2>2. CASE Succeed /\ op.call = "change"
    <3>1. rib' = WithRule(rib, op.key, op.hop) /\ rsvd_tbl8s' = rsvd_tbl8s
      BY <2>2 DEF Succeed
    <3>2. rsvd_tbl8s' \in 0..(RSVD_MOD - 1)
      BY <1>1, <3>1 DEF RibOK
    <3> QED BY <1>1, <1>2, <3>1, <3>2, WithRuleOK
  <2>3. CASE Succeed /\ op.call = "delete"
    <3>1. Removed(op.key)
      BY <2>3 DEF Succeed
    <3> QED BY <1>1, <1>2, <3>1, RemovedOK
  <2>4. CASE Fail
    <3>1. /\ rib' = rib \/ rib' = WithoutRules(rib, {op.key})
          /\ rsvd_tbl8s' = rsvd_tbl8s
      BY <2>4 DEF Fail
    <3>2. rsvd_tbl8s' \in 0..(RSVD_MOD - 1)
      BY <1>1, <3>1 DEF RibOK
    <3> QED BY <1>1, <1>2, <3>1, <3>2, SameRibOK, WithoutRulesOK
  <2> QED BY <2>1, <2>2, <2>3, <2>4 DEF Succeed
<1> QED BY <1>2, <1>3, <1>4, <1>6, TypeParts, TypePartsPrimed DEF IndInv

\* Every call, every step of an update and every lookup keeps the invariant.
THEOREM NextKeepsInv == IndInv /\ [Next]_vars => IndInv'
<1> SUFFICES ASSUME IndInv, [Next]_vars PROVE IndInv'
  OBVIOUS
<1>1. ASSUME NEW r \in Routes, RejectDepth(r) PROVE IndInv'
  <2>1. UNCHANGED <<type, rib, rsvd_tbl8s>> /\ Return("EINVAL")
    BY <1>1 DEF RejectDepth, Return
  <2>2. RibOK'
    BY <2>1, SameRibOK, TypeParts DEF IndInv
  <2> QED BY <2>1, <2>2, ReturnKeepsInv
<1>2. ASSUME NEW r \in Routes, NEW hop \in NextHops, rte_fib_add(r, hop) PROVE IndInv'
  BY <1>2, AddKeepsInv
<1>3. ASSUME NEW r \in Routes, rte_fib_delete(r) PROVE IndInv'
  BY <1>3, DeleteKeepsInv
<1>4. CASE (\E ip \in Probes : rte_fib_lookup_bulk(ip)) \/ UNCHANGED vars
  <2>1. UNCHANGED <<type, rib, tables, rsvd_tbl8s, op, intact>>
    BY <1>4 DEF rte_fib_lookup_bulk, vars
  <2> QED BY <2>1 DEF IndInv, TypeOK, LinkedGroupsTaken, Linked, tables
<1>5. CASE Step
  BY <1>5, GapKeepsInv, EdgesKeepInv, MiddleKeepsInv, OutOfGroupsKeepsInv,
     ReturnsKeepInv DEF Step
<1> QED BY <1>1, <1>2, <1>3, <1>4, <1>5 DEF Next

\* Every index the lookups and the updates compute lies in its table, whatever
\* the calls: the links lead to groups that exist, next hops fit their width,
\* and the edges of a gap are addresses (install_to_fib, write_to_fib).
THEOREM TypeCorrect == Spec => []TypeOK
<1>1. IndInv => TypeOK
  BY DEF IndInv
<1> QED BY <1>1, CreateEstablishesInv, NextKeepsInv, PTL DEF Spec

\* No allocation hands out a group that an entry still links, and no two
\* entries share one, also after updates that have run out of groups in the
\* middle (tbl8_alloc, tbl8_recycle, the error path of install_to_fib).
THEOREM GroupsNeverShared == Spec => []LinkedGroupsTaken
<1>1. IndInv => LinkedGroupsTaken
  BY DEF IndInv
<1> QED BY <1>1, CreateEstablishesInv, NextKeepsInv, PTL DEF Spec

-----------------------------------------------------------------------------
(* The dictionary of module Fib *)

\* What a running update has done to the RIB, and that it fails only where the
\* promise is given up.
UpdateOK ==
  /\ IsDictionary(rib)
  /\ op.call = "add" => op.key \in DOMAIN rib /\ rib[op.key] = op.hop
  /\ op.call = "delete" => op.key \in DOMAIN rib
  /\ op.pc = "failed" => ~intact

RefinementInv == IndInv /\ UpdateOK

\* The routes and the update that module Fib sees.
Seen == IF op.call = "add" THEN WithoutRules(rib, {op.key}) ELSE rib
Running ==
  IF op.pc = "idle"
  THEN [call |-> "none", key |-> [ip |-> 0, depth |-> 0], hop |-> MISS]
  ELSE IF op.call = "delete"
  THEN [call |-> "delete", key |-> op.key, hop |-> MISS]
  ELSE [call |-> "add", key |-> op.key, hop |-> op.hop]

Kept == UNCHANGED <<Seen, Running, intact, ret>>

LEMMA SameWords ==
  /\ \A status : Promise!Answer(status) = Answer(status)
  /\ \A r : Promise!Masked(r) = Masked(r)
  /\ \A R, keys : Promise!WithoutRules(R, keys) = WithoutRules(R, keys)
  /\ \A R, key, hop : Promise!WithRule(R, key, hop) = WithRule(R, key, hop)
  /\ \A R, ip : Promise!RibHop(R, ip) = RibHop(R, ip)
  /\ Promise!NoRules = NoRules /\ Promise!Address = Address
  /\ Promise!MISS = MISS /\ Promise!MAX_DEPTH = MAX_DEPTH
  /\ \A S : Promise!Cardinality(S) = Cardinality(S)
BY DEF Promise!Answer, Answer, Promise!Masked, Masked, Promise!ip6_mask_addr, ip6_mask_addr,
       Promise!MAX_DEPTH, MAX_DEPTH, Promise!WithoutRules, WithoutRules, Promise!WithRule,
       WithRule, Promise!RibHop, RibHop, Promise!LongestMatch, LongestMatch,
       Promise!Matching, Matching, Promise!NoRules, NoRules, Promise!Address, Address,
       Promise!MISS, MISS, Promise!Cardinality, Cardinality,
       Promise!IsFiniteSet, IsFiniteSet

LEMMA ShownAsKept == Kept => UNCHANGED Promise!vars
BY SameWords DEF Kept, Seen, Running, Promise!vars, WithoutRules, Promise!WithoutRules

LEMMA UpdatesNamed ==
  ASSUME NEW r \in Routes, r.depth <= MAX_DEPTH
  PROVE  /\ Promise!Deleting(Masked(r)) \in Promise!Updates
         /\ \A hop \in NextHops : Promise!Adding(Masked(r), hop) \in Promise!Updates
<1>1. r \in Promise!Valid /\ Promise!Masked(r) = Masked(r)
  BY SameWords DEF Promise!Valid
<1> QED BY <1>1 DEF Promise!Updates

LEMMA IdleShown ==
  /\ op = Idle => Seen = rib /\ Running = Promise!NoUpdate
  /\ op' = Idle => Seen' = rib' /\ Running' = Promise!NoUpdate
BY SameWords DEF Seen, Running, Idle, Promise!NoUpdate

\* Where no call runs, one is done at once, refused, or begins.
LEMMA Commits ==
  ASSUME op = Idle, op' = Idle, intact' = intact, ret' = Answer("ok"),
         NEW u \in Promise!Updates,
         u.call = "delete" => u.key \in DOMAIN rib,
         rib' = IF u.call = "add" THEN WithRule(rib, u.key, u.hop)
                                  ELSE WithoutRules(rib, {u.key})
  PROVE  Promise!Next
<1>1. /\ Seen = rib /\ Running = Promise!NoUpdate
      /\ Seen' = rib' /\ Running' = Promise!NoUpdate
  BY IdleShown
<1>2. Promise!Commit(u)
  BY <1>1, SameWords DEF Promise!Commit, Promise!Effect, Seen, Running
<1> QED BY <1>1, <1>2 DEF Promise!Next, Promise!Promised, Seen, Running

LEMMA Refuses ==
  ASSUME op = Idle, op' = Idle, intact' = intact, rib' = rib, NEW u \in Promise!Updates,
         \/ u.call = "add" /\ ~(u.hop <= MAX_NH) /\ ret' = Answer("EINVAL")
         \/ u.call = "add" /\ u.key \notin DOMAIN rib /\ ret' = Answer("ENOSPC")
         \/ /\ u.call = "add"
            /\ Cardinality(DOMAIN rib) >= MAX_ROUTES
            /\ ret' = Answer("ENOMEM")
         \/ u.call = "delete" /\ u.key \notin DOMAIN rib /\ ret' = Answer("ENOENT")
  PROVE  Promise!Next
<1>1. /\ Seen = rib /\ Running = Promise!NoUpdate
      /\ Seen' = rib' /\ Running' = Promise!NoUpdate
  BY IdleShown
<1>2. Promise!Refuse(u)
  BY <1>1, SameWords DEF Promise!Refuse, Promise!Fits, Seen, Running
<1> QED BY <1>1, <1>2 DEF Promise!Next, Promise!Promised, Seen, Running

LEMMA Begins ==
  ASSUME op = Idle, intact' = intact, ret' = Answer("pending"), NEW u \in Promise!Updates,
         u.call = "delete" => u.key \in DOMAIN rib, Running' = u, Seen' = rib
  PROVE  Promise!Next
<1>1. Seen = rib /\ Running = Promise!NoUpdate
  BY IdleShown
<1>2. Promise!Begin(u)
  BY <1>1, SameWords DEF Promise!Begin, Seen, Running
<1> QED BY <1>1, <1>2 DEF Promise!Next, Promise!Promised, Seen, Running

\* How a call that writes looks from outside once it has begun.
LEMMA ModifyShown ==
  ASSUME NEW call, NEW key, NEW hop, NEW reserve, modify_fib(call, key, hop, reserve),
         call \in {"add", "change", "delete"}
  PROVE  /\ op'.pc = "gap" /\ op'.call = call /\ op'.key = key /\ op'.hop = hop
         /\ Running' = IF call = "delete" THEN Promise!Deleting(key)
                                          ELSE Promise!Adding(key, hop)
         /\ Seen' = IF call = "add" THEN WithoutRules(rib', {key}) ELSE rib'
         /\ ret' = Answer("pending") /\ intact' = intact
<1>1. op'.pc = "gap" /\ op'.call = call /\ op'.key = key /\ op'.hop = hop
  BY DEF modify_fib, Idle
<1> QED BY <1>1, SameWords DEF modify_fib, Running, Seen, Promise!Deleting, Promise!Adding

LEMMA AddRefines ==
  ASSUME RefinementInv, NEW r \in Routes, NEW hop \in NextHops, rte_fib_add(r, hop)
  PROVE  /\ UpdateOK'
         /\ Promise!Next \/ NoNode(r)
         /\ RoutesUpToMaxFit' => Promise!Next
<1> DEFINE key == Masked(r)
           u == Promise!Adding(key, hop)
<1>1. r.depth <= MAX_DEPTH /\ op = Idle /\ intact' = intact
  BY TypeParts DEF RefinementInv, IndInv, OpOK, rte_fib_add, dummy_add, RejectHop, AddSame,
                   Change, AddRefused, Add, Called, NoNode, Return, modify_fib
<1>2. u \in Promise!Updates /\ u.call = "add" /\ u.key = key /\ u.hop = hop
  BY <1>1, UpdatesNamed DEF Promise!Adding
<1>3. IsDictionary(rib) /\ Idle.call = "none" /\ Idle.pc = "idle"
  BY DEF RefinementInv, UpdateOK, Idle
<1> HIDE DEF key, u
<1>4. ASSUME op' = Idle, IsDictionary(rib') PROVE UpdateOK'
  BY <1>3, <1>4 DEF UpdateOK
<1>5. CASE NoNode(r)
  <2>1. rib' = rib /\ op' = Idle /\ ret' = Answer("ENOMEM")
    BY <1>1, <1>5 DEF NoNode, Return
  <2>2. ASSUME RoutesUpToMaxFit' PROVE Promise!Next
    <3>1. Cardinality(DOMAIN rib) >= MAX_ROUTES
      BY <2>1, <2>2 DEF RoutesUpToMaxFit, Answer
    <3> QED BY <1>1, <1>2, <2>1, <3>1, Refuses
  <2> QED BY <1>3, <1>4, <1>5, <2>1, <2>2
<1>6. CASE dummy_add(r, hop) /\ ~NoNode(r)
  <2>1. rib' = WithRule(rib, key, hop) /\ op' = Idle /\ ret' = Answer("ok")
    BY <1>1, <1>6 DEF dummy_add, Return, key
  <2>2. IsDictionary(rib')
    BY <2>1, DictionaryKept
  <2> QED BY <1>1, <1>2, <1>4, <2>1, <2>2, Commits
<1>7. CASE RejectHop(r, hop)
  <2>1. rib' = rib /\ op' = Idle /\ ret' = Answer("EINVAL") /\ hop > MAX_NH
    BY <1>1, <1>7 DEF RejectHop, Return
  <2>2. ~(hop <= MAX_NH)
    BY <2>1, Sizes, Dir24_8Assumption
  <2> QED BY <1>1, <1>2, <1>3, <1>4, <2>1, <2>2, Refuses
<1>8. CASE AddSame(r, hop)
  <2>1. /\ rib' = rib /\ op' = Idle /\ ret' = Answer("ok")
        /\ key \in DOMAIN rib /\ rib[key] = hop
    BY <1>1, <1>8 DEF AddSame, Return, key
  <2>2. WithRule(rib, key, hop) = rib
    BY <1>3, <2>1, PutBack
  <2> QED BY <1>1, <1>2, <1>3, <1>4, <2>1, <2>2, Commits
<1>9. CASE AddRefused(r, hop) /\ ~NoNode(r)
  <2>1. rib' = rib /\ op' = Idle /\ ret' = Answer("ENOSPC") /\ key \notin DOMAIN rib
    BY <1>1, <1>9 DEF AddRefused, Return, key
  <2> QED BY <1>1, <1>2, <1>3, <1>4, <2>1, Refuses
<1>10. CASE Change(r, hop)
  <2>1. modify_fib("change", key, hop, FALSE) /\ rib' = rib /\ key \in DOMAIN rib
    BY <1>10 DEF Change, key
  <2>2. /\ op'.pc = "gap" /\ op'.call = "change" /\ Running' = u /\ Seen' = rib
        /\ ret' = Answer("pending")
    <3>1. "change" \in {"add", "change", "delete"} /\ "change" \notin {"delete", "add"}
      OBVIOUS
    <3>2. /\ op'.pc = "gap" /\ op'.call = "change"
          /\ Running' = IF "change" = "delete" THEN Promise!Deleting(key)
                                               ELSE Promise!Adding(key, hop)
          /\ Seen' = IF "change" = "add" THEN WithoutRules(rib', {key}) ELSE rib'
          /\ ret' = Answer("pending")
      BY <2>1, <3>1, ModifyShown
    <3> QED BY <2>1, <3>1, <3>2 DEF u
  <2>3. UpdateOK'
    BY <1>3, <2>1, <2>2 DEF UpdateOK
  <2> QED BY <1>1, <1>2, <2>2, <2>3, Begins
<1>11. CASE Add(r, hop)
  <2>1. rib' = WithRule(rib, key, hop) /\ key \notin DOMAIN rib
    BY <1>11 DEF Add, key
  <2>2. IsDictionary(rib') /\ key \in DOMAIN rib' /\ rib'[key] = hop
    <3>1. IsDictionary(rib')
      BY <2>1, DictionaryKept
    <3>2. key \in DOMAIN rib' /\ rib'[key] = hop
      BY <2>1 DEF WithRule
    <3> QED BY <3>1, <3>2
  <2>3. CASE Return("ok")
    <3>1. op' = Idle /\ ret' = Answer("ok")
      BY <1>1, <2>3 DEF Return
    <3> QED BY <1>1, <1>2, <1>4, <2>1, <2>2, <3>1, Commits
  <2>4. CASE modify_fib("add", key, hop, NeedsGroup(key))
    <3>1. /\ op'.pc = "gap" /\ op'.call = "add" /\ op'.key = key /\ op'.hop = hop
          /\ Running' = u /\ Seen' = WithoutRules(rib', {key}) /\ ret' = Answer("pending")
      BY <2>4, ModifyShown DEF u
    <3>2. Seen' = rib
      BY <1>3, <2>1, <3>1, TakenOutAgain
    <3>3. UpdateOK'
      BY <2>2, <3>1 DEF UpdateOK
    <3> QED BY <1>1, <1>2, <3>1, <3>2, <3>3, Begins
  <2> QED BY <1>11, <2>3, <2>4 DEF Add, key
<1> QED BY <1>5, <1>6, <1>7, <1>8, <1>9, <1>10, <1>11 DEF rte_fib_add

LEMMA DeleteRefines ==
  ASSUME RefinementInv, NEW r \in Routes, rte_fib_delete(r)
  PROVE  UpdateOK' /\ Promise!Next
<1> DEFINE key == Masked(r)
           u == Promise!Deleting(key)
<1>1. r.depth <= MAX_DEPTH /\ op = Idle /\ intact' = intact
  BY TypeParts DEF RefinementInv, IndInv, OpOK, rte_fib_delete, dummy_delete, DeleteAbsent,
                   Delete, Called, Return, modify_fib
<1>2. u \in Promise!Updates /\ u.call = "delete" /\ u.key = key
  BY <1>1, UpdatesNamed DEF Promise!Deleting
<1>3. IsDictionary(rib) /\ Idle.call = "none" /\ Idle.pc = "idle"
  BY DEF RefinementInv, UpdateOK, Idle
<1> HIDE DEF key, u
<1>4. ASSUME op' = Idle, rib' = rib, key \notin DOMAIN rib, ret' = Answer("ENOENT")
      PROVE  UpdateOK' /\ Promise!Next
  <2>1. UpdateOK'
    BY <1>3, <1>4 DEF UpdateOK
  <2> QED BY <1>1, <1>2, <1>4, <2>1, Refuses
<1>5. ASSUME op' = Idle, rib' = WithoutRules(rib, {key}), key \in DOMAIN rib,
             ret' = Answer("ok")
      PROVE  UpdateOK' /\ Promise!Next
  <2>1. UpdateOK'
    BY <1>3, <1>5, DictionaryKept DEF UpdateOK
  <2> QED BY <1>1, <1>2, <1>5, <2>1, Commits
<1>6. CASE dummy_delete(r)
  <2>1. op' = Idle /\ rib' = WithoutRules(rib, {key})
    BY <1>1, <1>6 DEF dummy_delete, Return, key
  <2>2. CASE key \in DOMAIN rib
    <3>1. ret' = Answer("ok")
      BY <1>6, <2>2 DEF dummy_delete, Return, key
    <3> QED BY <1>5, <2>1, <2>2, <3>1
  <2>3. CASE key \notin DOMAIN rib
    <3>1. ret' = Answer("ENOENT")
      BY <1>6, <2>3 DEF dummy_delete, Return, key
    <3>2. rib' = rib
      BY <1>3, <2>1, <2>3 DEF WithoutRules, IsDictionary
    <3> QED BY <1>4, <2>1, <2>3, <3>1, <3>2
  <2> QED BY <2>2, <2>3
<1>7. CASE DeleteAbsent(r)
  BY <1>1, <1>4, <1>7 DEF DeleteAbsent, Return, key
<1>8. CASE Delete(r) /\ SameAsAround(key, rib[key])
  BY <1>1, <1>5, <1>8 DEF Delete, Return, Removed, key
<1>9. CASE Delete(r) /\ ~SameAsAround(key, rib[key])
  <2>1. modify_fib("delete", key, ParentHop(rib, key), FALSE) /\ rib' = rib
        /\ key \in DOMAIN rib
    BY <1>9 DEF Delete, key
  <2>2. /\ op'.pc = "gap" /\ op'.call = "delete" /\ op'.key = key /\ Running' = u
        /\ Seen' = rib /\ ret' = Answer("pending")
    BY <2>1, ModifyShown DEF u
  <2>3. UpdateOK'
    BY <1>3, <2>1, <2>2 DEF UpdateOK
  <2> QED BY <1>1, <1>2, <2>1, <2>2, <2>3, Begins
<1> QED BY <1>6, <1>7, <1>8, <1>9 DEF rte_fib_delete

\* The steps of an update show nothing until it returns, or fails.
LEMMA StepRefines ==
  ASSUME RefinementInv, Step
  PROVE  UpdateOK' /\ [Promise!Next]_(Promise!vars)
<1>1. op \in Call /\ UpdateOK /\ op.pc # "idle" /\ op.call \in {"add", "change", "delete"}
  BY TypeParts DEF RefinementInv, IndInv, OpOK, Call, Step, NextGap, LastGap, WriteLeft,
                   WriteMiddle, WriteRight, WriteInside, OutOfGroups, Succeed, Fail
<1>2. Idle.call = "none" /\ Idle.pc = "idle"
  BY DEF Idle
<1>3. CASE NextGap \/ LastGap \/ WriteLeft \/ WriteMiddle \/ WriteRight \/ WriteInside
  <2>1. /\ op'.pc \notin {"idle", "failed"}
        /\ op'.call = op.call /\ op'.key = op.key /\ op'.hop = op.hop
    <3>1. \A ledge, redge : FirstPiece(ledge, redge) \in {"left", "middle", "inside", "gap"}
      BY DEF FirstPiece
    <3>2. CASE NextGap
      BY <1>1, <3>1, <3>2 DEF NextGap, Call
    <3>3. CASE LastGap
      BY <1>1, <3>1, <3>3 DEF LastGap, Call
    <3>4. CASE WriteLeft \/ WriteMiddle \/ WriteRight \/ WriteInside
      BY <1>1, <3>4 DEF WriteLeft, WriteMiddle, WriteRight, WriteInside, GapDone, Call
    <3> QED BY <1>3, <3>2, <3>3, <3>4
  <2>2. rib' = rib /\ ret' = ret /\ intact' = intact
    BY <1>3 DEF NextGap, LastGap, WriteLeft, WriteMiddle, WriteRight, WriteInside, Local
  <2>3. Kept
    BY <1>1, <2>1, <2>2 DEF Kept, Seen, Running
  <2>4. UpdateOK'
    BY <1>1, <2>1, <2>2 DEF UpdateOK
  <2> QED BY <2>3, <2>4, ShownAsKept
<1>4. CASE OutOfGroups
  <2>1. op'.call = op.call /\ op'.key = op.key /\ op'.hop = op.hop /\ rib' = rib
        /\ intact' = FALSE
    BY <1>1, <1>4 DEF OutOfGroups, Call, Local
  <2> QED BY <1>1, <2>1 DEF UpdateOK, Promise!Next
<1>5. CASE Fail
  <2>1. ~intact' /\ op' = Idle
    BY <1>1, <1>5 DEF Fail, UpdateOK
  <2>2. IsDictionary(rib')
    BY <1>1, <1>5, DictionaryKept DEF Fail, UpdateOK
  <2> QED BY <1>2, <2>1, <2>2 DEF UpdateOK, Promise!Next
<1>6. CASE Succeed
  <2> DEFINE u == Running
             after == IF op.call = "delete" THEN WithoutRules(rib, {op.key})
                                            ELSE WithRule(Seen, op.key, op.hop)
  <2>1. op' = Idle /\ ret' = Answer("ok") /\ intact' = intact
    BY <1>6 DEF Succeed
  <2>2. rib' = after
    <3>1. CASE op.call = "add"
      BY <1>1, <1>6, <3>1, PutBack DEF Succeed, Seen, UpdateOK
    <3>2. CASE op.call # "add"
      BY <1>1, <1>6, <3>2 DEF Succeed, Seen, Removed
    <3> QED BY <3>1, <3>2
  <2>3. UpdateOK'
    BY <1>2, <2>1, <2>2, DictionaryKept DEF UpdateOK
  <2>4. Seen' = rib' /\ Running' = Promise!NoUpdate
    BY <2>1, IdleShown
  <2>5. /\ u.call = IF op.call = "delete" THEN "delete" ELSE "add"
        /\ u.key = op.key
        /\ op.call # "delete" => u.hop = op.hop
    BY <1>1 DEF Running
  <2>6. u # Promise!NoUpdate
    <3>1. Promise!NoUpdate.call = "none"
      BY DEF Promise!NoUpdate
    <3> QED BY <2>5, <3>1
  <2>7. op.call = "delete" => op.key \in DOMAIN Seen /\ Seen = rib
    BY <1>1 DEF UpdateOK, Seen
  <2> HIDE DEF u
  <2>8. after = IF u.call = "add" THEN WithRule(Seen, u.key, u.hop)
                                  ELSE WithoutRules(Seen, {u.key})
    BY <1>1, <2>5, <2>7
  <2> HIDE DEF after
  <2>9. Promise!Commit(u)
    BY <1>1, <2>1, <2>2, <2>4, <2>5, <2>7, <2>8, SameWords
    DEF Promise!Commit, Promise!Effect, Seen, Running
  <2> QED BY <2>1, <2>3, <2>6, <2>9 DEF u, Promise!Next, Promise!Promised, Running
<1> QED BY <1>3, <1>4, <1>5, <1>6 DEF Step

LEMMA LookupRefines ==
  ASSUME RefinementInv, NEW ip \in Probes, rte_fib_lookup_bulk(ip)
  PROVE  UpdateOK' /\ (LookupAgrees => Promise!Next)
<1>1. op = Idle /\ ip \in Address
  BY TypeParts, Dir24_8Assumption DEF RefinementInv, IndInv, OpOK, rte_fib_lookup_bulk
<1>2. op' = op /\ rib' = rib /\ intact' = intact
      /\ ret' = [status |-> "ok", ip |-> ip, hop |-> LookupHop(ip)]
  BY DEF rte_fib_lookup_bulk
<1>3. UpdateOK'
  BY <1>2 DEF RefinementInv, UpdateOK
<1>4. ASSUME LookupAgrees, intact PROVE Promise!Next
  <2>1. /\ Seen = rib /\ Running = Promise!NoUpdate
        /\ Seen' = rib' /\ Running' = Promise!NoUpdate
    BY <1>1, <1>2, IdleShown
  <2>2. LookupHop(ip) = RibHop(Seen, ip)
    BY <1>1, <1>4, <2>1 DEF LookupAgrees, Idle
  <2>3. Promise!Lookup(ip)
    BY <1>2, <2>1, <2>2, SameWords DEF Promise!Lookup, Seen, Running
  <2> QED BY <1>1, <1>2, <1>4, <2>1, <2>3, SameWords
          DEF Promise!Next, Promise!Promised, Seen, Running
<1>5. ~intact => Promise!Next
  BY <1>2 DEF Promise!Next
<1> QED BY <1>3, <1>4, <1>5

LEMMA CreateRefines == rte_fib_create => RefinementInv /\ Promise!Init
<1> SUFFICES ASSUME rte_fib_create PROVE RefinementInv /\ Promise!Init
  OBVIOUS
<1>1. op = Idle /\ rib = NoRules /\ intact = TRUE /\ ret = Answer("ok")
  BY DEF rte_fib_create
<1>2. UpdateOK
  BY <1>1 DEF UpdateOK, IsDictionary, NoRules, Idle
<1>3. Promise!Init
  BY <1>1, IdleShown, SameWords DEF Promise!Init, Seen, Running
<1> QED BY <1>2, <1>3, CreateEstablishesInv DEF RefinementInv

Lookups == \E ip \in Probes : rte_fib_lookup_bulk(ip)
NodesLack == \E r \in Routes : NoNode(r)

LEMMA NextRefines ==
  RefinementInv /\ [Next]_vars =>
    /\ RefinementInv'
    /\ [Lookups \/ NodesLack \/ Promise!Next]_(Promise!vars)
    /\ LookupAgrees /\ RoutesUpToMaxFit' => [Promise!Next]_(Promise!vars)
<1> SUFFICES ASSUME RefinementInv, [Next]_vars
             PROVE  /\ UpdateOK'
                    /\ [Lookups \/ NodesLack \/ Promise!Next]_(Promise!vars)
                    /\ LookupAgrees /\ RoutesUpToMaxFit' => [Promise!Next]_(Promise!vars)
  BY NextKeepsInv DEF RefinementInv
<1>1. ASSUME NEW r \in Routes, RejectDepth(r) PROVE UpdateOK' /\ Promise!Next
  <2>1. /\ r.depth > MAX_DEPTH /\ op = Idle /\ op' = Idle /\ rib' = rib
        /\ intact' = intact /\ ret' = Answer("EINVAL")
    BY <1>1, TypeParts DEF RejectDepth, Return, RefinementInv, IndInv, OpOK
  <2>2. /\ Seen = rib /\ Running = Promise!NoUpdate
        /\ Seen' = rib' /\ Running' = Promise!NoUpdate
    BY <2>1, IdleShown
  <2>3. Promise!RejectDepth
    BY <2>1, <2>2, SameWords DEF Promise!RejectDepth, Seen, Running
  <2>4. UpdateOK'
    BY <2>1 DEF RefinementInv, UpdateOK, Idle
  <2> QED BY <2>1, <2>2, <2>3, <2>4 DEF Promise!Next, Promise!Promised, Seen, Running
<1>2. ASSUME NEW r \in Routes, NEW hop \in NextHops, rte_fib_add(r, hop)
      PROVE  /\ UpdateOK'
             /\ NodesLack \/ Promise!Next
             /\ RoutesUpToMaxFit' => Promise!Next
  BY <1>2, AddRefines DEF NodesLack
<1>3. ASSUME NEW r \in Routes, rte_fib_delete(r) PROVE UpdateOK' /\ Promise!Next
  BY <1>3, DeleteRefines
<1>4. CASE Lookups
  BY <1>4, LookupRefines DEF Lookups
<1>5. CASE Step
  BY <1>5, StepRefines
<1>6. CASE UNCHANGED vars
  <2>1. UpdateOK' /\ Kept
    BY <1>6 DEF vars, RefinementInv, UpdateOK, Kept, Seen, Running
  <2> QED BY <2>1, ShownAsKept
<1> QED BY <1>1, <1>2, <1>3, <1>4, <1>5, <1>6 DEF Next, Lookups

\* Every call but a lookup, and but an insertion refused for lack of nodes, is
\* one of the promised dictionary: an update takes effect as it returns, a
\* failed one not at all, and the RIB is what the routes should be.
THEOREM UpdatesImplementFib ==
  Spec => Promise!Init /\ [][Lookups \/ NodesLack \/ Promise!Next]_(Promise!vars)
BY CreateRefines, NextRefines, PTL DEF Spec

\* What is missing are two invariants: that tables and RIB agree between calls
\* and that the RIB has nodes for the routes it was created for.
THEOREM LookupsCompletePromise ==
  Spec /\ []LookupAgrees /\ []RoutesUpToMaxFit => ImplementsFib
BY CreateRefines, NextRefines, PTL DEF Spec, ImplementsFib, Promise!Spec

-----------------------------------------------------------------------------
(* From here on for callers that use no default route, and as long as no   *)
(* update has run out of groups: lookups agree with the RIB between        *)
(* updates, an update writes its next hop where it should and nowhere      *)
(* else, and no group is lost or kept in vain.                             *)

-----------------------------------------------------------------------------
(* Indexes *)

LEMMA IndexAndSlot ==
  ASSUME NEW a \in Nat
  PROVE  /\ get_tbl24_idx(a) \in Nat /\ SlotOf(a) \in 0..(GRP_NUM_ENT - 1)
         /\ a = GRP_NUM_ENT * get_tbl24_idx(a) + SlotOf(a)
         /\ GRP_NUM_ENT * get_tbl24_idx(a) \in Nat
<1> DEFINE n == GRP_NUM_ENT
<1>1. n \in Nat \ {0}
  BY Sizes
<1> HIDE DEF n
<1>2. a \div n \in Nat /\ a % n \in 0..(n - 1) /\ a = n * (a \div n) + (a % n)
  BY <1>1
<1>3. n * (a \div n) \in Nat
  BY <1>1, <1>2
<1> QED BY <1>2, <1>3 DEF get_tbl24_idx, SlotOf, n

LEMMA IndexOf ==
  ASSUME NEW c \in Nat, NEW s \in 0..(GRP_NUM_ENT - 1)
  PROVE  get_tbl24_idx(GRP_NUM_ENT * c + s) = c /\ SlotOf(GRP_NUM_ENT * c + s) = s
<1> DEFINE n == GRP_NUM_ENT
           a == n * c + s
<1>1. n \in Nat \ {0} /\ s \in 0..(n - 1)
  BY Sizes
<1> HIDE DEF n
<1>2. n * c \in Nat
  BY <1>1
<1>3. a \in Nat /\ n * c <= a /\ a < n * c + n /\ a = n * c + s
  BY <1>1, <1>2
<1>4. a \div n = c /\ a - (a % n) = n * c
  <2> HIDE DEF a
  <2>1. c \in Int
    OBVIOUS
  <2> QED BY <1>1, <1>3, <2>1, RoundedDownIs
<1>5. a % n \in Int
  BY <1>1, <1>3
<1>6. a % n = s
  <2> HIDE DEF a
  <2> QED BY <1>1, <1>2, <1>3, <1>4, <1>5
<1> QED BY <1>4, <1>6 DEF get_tbl24_idx, SlotOf, n

\* Addresses are ordered by their entries, then by their slots.
LEMMA Lexicographic ==
  ASSUME NEW a \in Nat, NEW b \in Nat
  PROVE  a < b <=> \/ get_tbl24_idx(a) < get_tbl24_idx(b)
                   \/ get_tbl24_idx(a) = get_tbl24_idx(b) /\ SlotOf(a) < SlotOf(b)
<1> DEFINE n == GRP_NUM_ENT
           i == get_tbl24_idx(a)
           j == get_tbl24_idx(b)
<1>1. /\ n \in Nat /\ i \in Nat /\ j \in Nat
      /\ SlotOf(a) \in 0..(n - 1) /\ SlotOf(b) \in 0..(n - 1)
      /\ a = n * i + SlotOf(a) /\ b = n * j + SlotOf(b)
      /\ n * i \in Nat /\ n * j \in Nat
  BY Sizes, IndexAndSlot
<1> HIDE DEF n, i, j
<1>2. /\ i < j => n * i + n <= n * j
      /\ j < i => n * j + n <= n * i
  BY <1>1, MultiplesApart
<1> QED BY <1>1, <1>2 DEF i, j

\* Rounding up to the next entry.
LEMMA RoundedUp ==
  ASSUME NEW a \in Nat
  PROVE  get_tbl24_idx(a + GRP_NUM_ENT - 1)
           = IF SlotOf(a) = 0 THEN get_tbl24_idx(a) ELSE get_tbl24_idx(a) + 1
<1> DEFINE n == GRP_NUM_ENT
           i == get_tbl24_idx(a)
           s == SlotOf(a)
<1>1. n \in Nat \ {0} /\ i \in Nat /\ s \in 0..(n - 1) /\ a = n * i + s /\ n * i \in Nat
  BY Sizes, IndexAndSlot
<1> HIDE DEF i, s
<1>2. CASE s = 0
  <2>1. a + n - 1 = n * i + (n - 1) /\ n - 1 \in 0..(n - 1)
    BY <1>1, <1>2
  <2>2. get_tbl24_idx(n * i + (n - 1)) = i
    BY <1>1, <2>1, IndexOf
  <2> HIDE DEF n
  <2>3. get_tbl24_idx(a + n - 1) = i
    BY <2>1, <2>2
  <2> QED BY <1>2, <2>3 DEF n, i, s
<1>3. CASE s # 0
  <2>1. n * (i + 1) = n * i + n
    BY <1>1
  <2>2. a + n - 1 = n * (i + 1) + (s - 1) /\ s - 1 \in 0..(n - 1) /\ i + 1 \in Nat
    BY <1>1, <1>3, <2>1
  <2>3. get_tbl24_idx(n * (i + 1) + (s - 1)) = i + 1
    BY <2>2, IndexOf
  <2> HIDE DEF n
  <2>4. get_tbl24_idx(a + n - 1) = i + 1
    BY <2>2, <2>3
  <2> QED BY <1>3, <2>4 DEF n, i, s
<1> QED BY <1>2, <1>3

LEMMA IndexOfEnd ==
  get_tbl24_idx(2 ^ MAX_DEPTH) = 2 ^ TOP_BITS /\ SlotOf(2 ^ MAX_DEPTH) = 0
<1>1. /\ 2 ^ TOP_BITS \in Nat /\ GRP_NUM_ENT \in Nat \ {0}
      /\ 2 ^ MAX_DEPTH = 2 ^ TOP_BITS * GRP_NUM_ENT
  BY Sizes
<1>2. 2 ^ MAX_DEPTH = GRP_NUM_ENT * 2 ^ TOP_BITS + 0 /\ 0 \in 0..(GRP_NUM_ENT - 1)
  <2> DEFINE m == 2 ^ TOP_BITS
             n == GRP_NUM_ENT
  <2>1. m \in Nat /\ n \in Nat \ {0} /\ 2 ^ MAX_DEPTH = m * n
    BY <1>1
  <2> HIDE DEF m, n
  <2>2. m * n = n * m + 0 /\ 0 \in 0..(n - 1)
    BY <2>1
  <2> QED BY <2>1, <2>2 DEF m, n
<1> QED BY <1>1, <1>2, IndexOf

-----------------------------------------------------------------------------
(* What a step changes for lookups *)

\* A linked group has two different entries: it would have been folded back.
Varied == \A c \in Linked : ~Recyclable(tbl8[tbl24[c].val])

LEMMA WriteSlotsEffect ==
  ASSUME IndInv, Varied, NEW c \in Cells, NEW slots, op.hop \in Hops,
         tbl24[c].ext \/ Free # {}, WriteSlots(c, slots)
  PROVE  /\ Varied'
         /\ \A ip \in Address :
              TableHop(ip)' = IF get_tbl24_idx(ip) = c /\ SlotOf(ip) \in slots
                              THEN op.hop ELSE TableHop(ip)
<1> DEFINE e == tbl24[c]
           g == IF e.ext THEN e.val ELSE tbl8_get_idx
           group == [s \in Slots |-> IF s \in slots THEN op.hop
                                     ELSE IF e.ext THEN tbl8[g][s] ELSE Initial(e, s)]
<1>1. TablesOK /\ LinkedGroupsTaken /\ e \in [ext : BOOLEAN, val : Hops]
  BY TypeParts DEF IndInv, TablesOK
<1>2. g \in Groups /\ \A d \in Cells \ {c} : tbl24[d].ext => tbl24[d].val # g
  <2>1. CASE e.ext
    BY <1>1, <2>1 DEF TablesOK, LinkedGroupsTaken, Linked
  <2>2. CASE ~e.ext
    <3>1. g \in Groups \ tbl8_idxes
      BY <2>2, AllocatedIsFree DEF Free
    <3> QED BY <1>1, <3>1 DEF LinkedGroupsTaken, Linked
  <2> QED BY <2>1, <2>2
<1>3. group \in [Slots -> Hops]
  <2>1. tbl8[g] \in [Slots -> Hops]
    BY <1>1, <1>2 DEF TablesOK
  <2> QED BY <1>1, <2>1 DEF Initial
<1>4. \A ip \in Address : get_tbl24_idx(ip) \in Cells /\ SlotOf(ip) \in Slots
  BY IndexOfAddress
<1>5. \A ip \in Address : get_tbl24_idx(ip) = c =>
        group[SlotOf(ip)] = IF SlotOf(ip) \in slots THEN op.hop ELSE TableHop(ip)
  BY <1>4 DEF TableHop, Initial
<1> DEFINE entry == IF Recyclable(group) THEN Leaf(group[0]) ELSE Link(g)
           contents == IF Recyclable(group) THEN [s \in Slots |-> 0] ELSE group
<1>6. tbl24' = [tbl24 EXCEPT ![c] = entry] /\ tbl8' = [tbl8 EXCEPT ![g] = contents]
  BY DEF WriteSlots
<1>7. /\ Recyclable(group) => ~entry.ext /\ entry.val = group[0]
      /\ ~Recyclable(group) => entry.ext /\ entry.val = g /\ contents = group
  <2>1. CASE Recyclable(group)
    <3>1. group[0] \in Hops /\ group[0] \in Nat
      BY <1>3, Sizes
    <3>2. group[0] < MAX_NH + 1
      BY <3>1, Sizes DEF Hops
    <3> HIDE DEF group
    <3>3. group[0] % (MAX_NH + 1) = group[0]
      BY <3>1, <3>2, Sizes
    <3> QED BY <2>1, <3>3 DEF Leaf
  <2>2. CASE ~Recyclable(group)
    BY <1>2, <2>2, LinkType
  <2> QED BY <2>1, <2>2
<1> HIDE DEF e, g, group, entry, contents
<1>8. /\ tbl24'[c] = entry /\ \A d \in Cells \ {c} : tbl24'[d] = tbl24[d]
      /\ tbl8'[g] = contents /\ \A h \in Groups \ {g} : tbl8'[h] = tbl8[h]
  BY <1>1, <1>2, <1>6 DEF TablesOK
<1>9. Varied'
  <2>1. ASSUME NEW d \in Cells, tbl24'[d].ext PROVE ~Recyclable(tbl8'[tbl24'[d].val])
    <3>1. CASE d = c
      <4>1. tbl24'[d] = entry /\ ~Recyclable(group) /\ entry.val = g /\ contents = group
        BY <1>7, <1>8, <2>1, <3>1
      <4> QED BY <1>8, <4>1
    <3>2. CASE d # c
      <4>1. tbl24'[d] = tbl24[d] /\ tbl24[d].ext
        BY <1>8, <2>1, <3>2
      <4>2. tbl24[d].val \in Groups \ {g}
        BY <1>1, <1>2, <3>2, <4>1 DEF TablesOK
      <4>3. tbl8'[tbl24'[d].val] = tbl8[tbl24[d].val]
        BY <1>8, <4>1, <4>2
      <4> QED BY <4>1, <4>3 DEF Varied, Linked
    <3> QED BY <3>1, <3>2
  <2> QED BY <2>1 DEF Varied, Linked, Recyclable
<1>10. ASSUME NEW ip \in Address
       PROVE  TableHop(ip)' = IF get_tbl24_idx(ip) = c /\ SlotOf(ip) \in slots
                              THEN op.hop ELSE TableHop(ip)
  <2> DEFINE i == get_tbl24_idx(ip)
             s == SlotOf(ip)
  <2>1. /\ TableHop(ip)' = IF tbl24'[i].ext THEN tbl8'[tbl24'[i].val][s] ELSE tbl24'[i].val
        /\ TableHop(ip) = IF tbl24[i].ext THEN tbl8[tbl24[i].val][s] ELSE tbl24[i].val
    BY DEF TableHop, get_tbl24_idx, SlotOf
  <2>2. i \in Cells /\ s \in Slots
    BY <1>4
  <2> HIDE DEF i, s
  <2>3. CASE i = c
    <3>1. group[s] = IF s \in slots THEN op.hop ELSE TableHop(ip)
      BY <1>5, <2>3 DEF i, s
    <3>2. TableHop(ip)' = group[s]
      <4>1. CASE Recyclable(group)
        <5>1. TableHop(ip)' = group[0]
          BY <1>7, <1>8, <2>1, <2>3, <4>1
        <5> QED BY <2>2, <4>1, <5>1 DEF Recyclable
      <4>2. CASE ~Recyclable(group)
        BY <1>7, <1>8, <2>1, <2>3, <4>2
      <4> QED BY <4>1, <4>2
    <3> QED BY <2>3, <3>1, <3>2 DEF i, s
  <2>4. CASE i # c
    <3>1. tbl24'[i] = tbl24[i]
      BY <1>8, <2>2, <2>4
    <3>2. ASSUME tbl24[i].ext PROVE tbl8'[tbl24[i].val] = tbl8[tbl24[i].val]
      <4>1. tbl24[i].val \in Groups \ {g}
        BY <1>1, <1>2, <2>2, <2>4, <3>2 DEF TablesOK
      <4> QED BY <1>8, <4>1
    <3> QED BY <2>1, <2>4, <3>1, <3>2 DEF i
  <2> QED BY <2>3, <2>4
<1> QED BY <1>9, <1>10

LEMMA MiddleEffect ==
  ASSUME IndInv, Varied, op.hop \in Hops, WriteMiddle
  PROVE  /\ Varied'
         /\ \A ip \in Address :
              TableHop(ip)' = IF get_tbl24_idx(ip) \in MiddleCells
                              THEN op.hop ELSE TableHop(ip)
<1>1. TablesOK
  BY TypeParts DEF IndInv
<1>2. /\ tbl8' = tbl8
      /\ \A c \in Cells : tbl24'[c] = IF c \in MiddleCells THEN Leaf(op.hop) ELSE tbl24[c]
  BY DEF WriteMiddle
<1>3. ~Leaf(op.hop).ext /\ Leaf(op.hop).val = op.hop
  <2>1. op.hop \in Nat /\ op.hop < MAX_NH + 1
    BY Sizes DEF Hops
  <2>2. op.hop % (MAX_NH + 1) = op.hop
    BY <2>1, Sizes
  <2> QED BY <2>2 DEF Leaf
<1>4. Varied'
  BY <1>2, <1>3 DEF Varied, Linked, Recyclable
<1>5. ASSUME NEW ip \in Address
      PROVE  TableHop(ip)' = IF get_tbl24_idx(ip) \in MiddleCells
                             THEN op.hop ELSE TableHop(ip)
  <2> DEFINE i == get_tbl24_idx(ip)
             s == SlotOf(ip)
  <2>1. /\ TableHop(ip)' = IF tbl24'[i].ext THEN tbl8'[tbl24'[i].val][s] ELSE tbl24'[i].val
        /\ TableHop(ip) = IF tbl24[i].ext THEN tbl8[tbl24[i].val][s] ELSE tbl24[i].val
    BY DEF TableHop, get_tbl24_idx, SlotOf
  <2>2. i \in Cells
    BY IndexOfAddress
  <2> HIDE DEF i, s
  <2>3. TableHop(ip)' = IF i \in MiddleCells THEN op.hop ELSE TableHop(ip)
    BY <1>2, <1>3, <2>1, <2>2
  <2> QED BY <2>3 DEF i
<1> QED BY <1>4, <1>5

-----------------------------------------------------------------------------
(* Where an update is *)

Busy == op.pc \notin {"idle", "failed"}

\* After the last address comes 0; no gap of a longer route than the default
\* one starts there and ends there.
Place(a) == IF a = 0 /\ op.key.ip # 0 THEN 2 ^ MAX_DEPTH ELSE a

\* The addresses of the network that have been written.
Done(ip) ==
  IF op.pc = "gap" THEN ip < Place(op.ledge)
  ELSE IF op.pc = "middle"
  THEN get_tbl24_idx(ip) < get_tbl24_idx(op.ledge + GRP_NUM_ENT - 1)
  ELSE IF op.pc = "right" THEN get_tbl24_idx(ip) < get_tbl24_idx(op.redge)
  ELSE ip < op.ledge

\* What the exposed addresses had before.
Old == IF op.call = "add" THEN ParentHop(rib, op.key) ELSE rib[op.key]

Expected(ip) ==
  IF op.pc = "idle" \/ ~Exposed(rib, op.key, ip) THEN RibHop(rib, ip)
  ELSE IF Done(ip) THEN op.hop ELSE Old

Agreed ==
  intact /\ type = "DIR24_8" => \A ip \in Address : TableHop(ip) = Expected(ip)

\* The running call and the RIB.
CallOK ==
  /\ IsMasked(op.key) /\ op.key.depth # 0
  /\ op.key \in DOMAIN rib
  /\ op.call = "add" => rib[op.key] = op.hop
  /\ op.call = "delete" => op.hop = ParentHop(rib, op.key)

\* Between two gaps: the longer routes are ahead or behind.
BetweenGaps ==
  LET at == Place(op.ledge)
  IN  /\ op.key.ip <= at /\ at <= Past(op.key)
      /\ \A q \in op.todo : at <= q.ip
      /\ \A q \in Nearest(rib, op.key) \ op.todo : Past(q) <= at
      /\ op.last => at = Past(op.key)

\* In a gap: none of them is between its edges.
InGap ==
  LET end == Place(op.redge)
  IN  /\ op.key.ip <= op.ledge /\ op.ledge < end /\ end <= Past(op.key)
      /\ \A q \in op.todo : end <= q.ip
      /\ \A q \in Nearest(rib, op.key) \ op.todo : Past(q) <= op.ledge
      /\ op.last => end = Past(op.key)
      /\ op.pc = "inside" => get_tbl24_idx(op.ledge) = get_tbl24_idx(end)
      /\ op.pc # "inside" => get_tbl24_idx(op.ledge) < get_tbl24_idx(end)
      /\ op.pc = "left" => SlotOf(op.ledge) # 0
      /\ op.pc = "right" => SlotOf(op.redge) # 0

GapOK ==
  /\ op.todo \subseteq Nearest(rib, op.key)
  /\ op.last => op.todo = {}
  /\ IF op.pc = "gap" THEN BetweenGaps ELSE InGap

AgreeInv ==
  /\ RoutesOK(rib)
  /\ Varied
  /\ Busy => CallOK /\ GapOK
  /\ op.pc = "failed" => ~intact
  /\ Agreed
  /\ NoGroupLost

-----------------------------------------------------------------------------
(* Places *)

LEMMA KeyFacts ==
  ASSUME IndInv, RoutesOK(rib), CallOK
  PROVE  /\ op.key.ip \in Nat /\ Past(op.key) \in Nat
         /\ op.key.ip < Past(op.key) /\ Past(op.key) <= 2 ^ MAX_DEPTH
         /\ op.ledge \in Nat /\ op.redge \in Nat /\ 2 ^ MAX_DEPTH \in Nat
         /\ op.ledge < 2 ^ MAX_DEPTH /\ op.redge < 2 ^ MAX_DEPTH
         /\ Place(op.ledge) \in Nat /\ Place(op.redge) \in Nat
         /\ Place(End(op.key)) = Past(op.key)
<1>1. /\ op \in Call /\ op.ledge \in Address /\ op.redge \in Address
  BY TypeParts DEF IndInv, OpOK, Call
<1>2. /\ op.ledge \in Nat /\ op.redge \in Nat /\ 2 ^ MAX_DEPTH \in Nat \ {0}
      /\ op.ledge < 2 ^ MAX_DEPTH /\ op.redge < 2 ^ MAX_DEPTH
  BY <1>1, DepthsAreNaturals DEF Address
<1>3. /\ op.key.ip \in Nat /\ Size(op.key.depth) \in Nat
      /\ op.key.ip < Past(op.key) /\ Past(op.key) <= 2 ^ MAX_DEPTH
  BY <1>1, HoldsInterval DEF CallOK
<1>4. Past(op.key) \in Nat
  BY <1>3 DEF Past
<1>5. Place(End(op.key)) = Past(op.key)
  <2>1. End(op.key) = IF Past(op.key) = 2 ^ MAX_DEPTH THEN 0 ELSE Past(op.key)
    BY NetworkEndIs DEF CallOK
  <2>2. Past(op.key) = 2 ^ MAX_DEPTH => op.key.ip # 0
    BY <1>2, LastNetwork DEF CallOK
  <2> QED BY <1>3, <1>4, <2>1, <2>2 DEF Place
<1> QED BY <1>2, <1>3, <1>4, <1>5 DEF Place

LEMMA RouteFacts ==
  ASSUME IndInv, RoutesOK(rib), CallOK, NEW q \in Nearest(rib, op.key)
  PROVE  /\ IsMasked(q) /\ q.ip \in Nat /\ Past(q) \in Nat /\ q.ip < Past(q)
         /\ op.key.ip <= q.ip /\ Past(q) <= Past(op.key)
         /\ Place(q.ip) = q.ip /\ Place(StepOver(q)) = Past(q)
<1>1. IsMasked(q) /\ op.key.ip <= q.ip /\ Past(q) <= Past(op.key)
  BY NearestApart DEF CallOK
<1>2. /\ op.key.ip \in Nat /\ Past(op.key) \in Nat /\ op.key.ip < Past(op.key)
      /\ Past(op.key) <= 2 ^ MAX_DEPTH /\ 2 ^ MAX_DEPTH \in Nat \ {0}
  BY KeyFacts, DepthsAreNaturals
<1>3. q.ip \in Nat /\ Size(q.depth) \in Nat /\ q.ip < Past(q)
  BY <1>1, HoldsInterval DEF IsMasked, Network
<1>4. Past(q) \in Nat
  BY <1>3 DEF Past
<1>5. Place(q.ip) = q.ip
  BY <1>1, <1>2, <1>3 DEF Place
<1>6. Place(StepOver(q)) = Past(q)
  <2>1. StepOver(q) = IF Past(q) = 2 ^ MAX_DEPTH THEN 0 ELSE Past(q)
    BY <1>1, NetworkEndIs DEF StepOver
  <2>2. Past(q) = 2 ^ MAX_DEPTH => Past(op.key) = 2 ^ MAX_DEPTH
    BY <1>1, <1>2, <1>4
  <2>3. Past(op.key) = 2 ^ MAX_DEPTH => op.key.ip # 0
    BY <1>2, LastNetwork DEF CallOK
  <2> QED BY <1>3, <1>4, <2>1, <2>2, <2>3 DEF Place
<1> QED BY <1>1, <1>3, <1>4, <1>5, <1>6

LEMMA IndexOfPlace ==
  ASSUME IndInv, RoutesOK(rib), CallOK, NEW a \in Nat, a < 2 ^ MAX_DEPTH
  PROVE  /\ Place(a) # a => a = 0 /\ get_tbl24_idx(a) = 0 /\ SlotOf(a) = 0
         /\ Place(a) # a => /\ get_tbl24_idx(Place(a)) = 2 ^ TOP_BITS
                            /\ SlotOf(Place(a)) = 0
<1>1. GRP_NUM_ENT * 0 + 0 = 0 /\ 0 \in 0..(GRP_NUM_ENT - 1)
  BY Sizes
<1>2. get_tbl24_idx(0) = 0 /\ SlotOf(0) = 0
  BY <1>1, IndexOf
<1> QED BY <1>2, IndexOfEnd DEF Place

\* The entry of an address at or behind the start of a network that ends with
\* the address space is not the first one.
LEMMA LastNotInFirst ==
  ASSUME IndInv, RoutesOK(rib), CallOK, Past(op.key) = 2 ^ MAX_DEPTH,
         NEW a \in Nat, op.key.ip <= a
  PROVE  get_tbl24_idx(a) > 0
<1> DEFINE n == GRP_NUM_ENT
           m == 2 ^ TOP_BITS
<1>1. 2 * op.key.ip >= 2 ^ MAX_DEPTH /\ op.key.ip \in Nat
  BY LastNetwork, KeyFacts DEF CallOK
<1>2. n \in Nat \ {0} /\ m \in Nat /\ 2 ^ MAX_DEPTH = m * n
  BY Sizes
<1>3. m >= 2
  <2>1. /\ 0 \in 0..MAX_DEPTH /\ TOP_BITS \in 0..MAX_DEPTH /\ 0 < TOP_BITS
        /\ TOP_BITS - 0 = TOP_BITS
    BY Dir24_8Assumption, DepthsAreNaturals
  <2>2. 2 ^ (TOP_BITS - 0) >= 2
    BY <2>1, SizesDivide
  <2> QED BY <2>1, <2>2
<1> HIDE DEF n, m
<1>4. m * n >= 2 * n
  <2>1. m * n = 2 * n + (m - 2) * n /\ (m - 2) * n \in Nat
    BY <1>2, <1>3
  <2> QED BY <1>2, <2>1
<1>5. a >= n
  <2>1. m * n \in Nat
    BY <1>2
  <2> QED BY <1>1, <1>2, <1>4, <2>1
<1>6. a = n * get_tbl24_idx(a) + SlotOf(a) /\ get_tbl24_idx(a) \in Nat /\ SlotOf(a) < n
      /\ SlotOf(a) \in Nat
  <2>1. /\ a = n * get_tbl24_idx(a) + SlotOf(a) /\ get_tbl24_idx(a) \in Nat
        /\ SlotOf(a) \in 0..(n - 1)
    BY IndexAndSlot DEF n
  <2> QED BY <1>2, <2>1
<1>7. get_tbl24_idx(a) # 0
  BY <1>2, <1>5, <1>6
<1> QED BY <1>6, <1>7

\* A gap begins with the piece that it is taken for.
LEMMA FirstPieceIs ==
  ASSUME IndInv, RoutesOK(rib), CallOK, NEW l \in Nat, NEW r \in Nat,
         l < 2 ^ MAX_DEPTH, r < 2 ^ MAX_DEPTH,
         op.key.ip <= l, l < Place(r), Place(r) <= Past(op.key)
  PROVE  LET i == get_tbl24_idx(l)
             j == get_tbl24_idx(Place(r))
         IN  /\ i \in Nat /\ j \in Nat
             /\ FirstPiece(l, r) =
                  IF i = j THEN "inside" ELSE IF SlotOf(l) = 0 THEN "middle" ELSE "left"
             /\ i # j => i < j
<1> DEFINE i == get_tbl24_idx(l)
           j == get_tbl24_idx(Place(r))
<1>1. Place(r) \in Nat
  BY DepthsAreNaturals DEF Place
<1>2. /\ i \in Nat /\ j \in Nat /\ SlotOf(l) \in Nat /\ SlotOf(Place(r)) \in Nat
      /\ i < j \/ (i = j /\ SlotOf(l) < SlotOf(Place(r)))
  <2>1. /\ i \in Nat /\ SlotOf(l) \in 0..(GRP_NUM_ENT - 1)
        /\ j \in Nat /\ SlotOf(Place(r)) \in 0..(GRP_NUM_ENT - 1)
    BY <1>1, IndexAndSlot
  <2>2. i < j \/ (i = j /\ SlotOf(l) < SlotOf(Place(r)))
    BY <1>1, Lexicographic
  <2>3. GRP_NUM_ENT \in Nat
    BY Sizes
  <2> HIDE DEF i, j
  <2> QED BY <2>1, <2>2, <2>3
<1>3. CASE Place(r) = r
  <2>1. ~Whole(l, r) /\ l # r
    BY <1>3 DEF Whole
  <2> QED BY <1>2, <1>3, <2>1 DEF FirstPiece
<1>4. CASE Place(r) # r
  <2>1. /\ r = 0 /\ get_tbl24_idx(r) = 0 /\ SlotOf(Place(r)) = 0
        /\ Place(r) = 2 ^ MAX_DEPTH
    BY <1>4, IndexOfPlace DEF Place
  <2>2. Past(op.key) = 2 ^ MAX_DEPTH
    BY <2>1, KeyFacts
  <2>3. i > 0
    BY <2>2, LastNotInFirst
  <2>4. ~Whole(l, r) /\ get_tbl24_idx(l) # get_tbl24_idx(r)
    <3>1. op.key.ip # 0
      BY <1>4 DEF Place
    <3>2. l # 0
      BY <3>1, KeyFacts
    <3> QED BY <1>2, <2>1, <2>3, <3>2 DEF Whole
  <2>5. i < j
    BY <1>2, <2>1
  <2> QED BY <1>2, <2>4, <2>5 DEF FirstPiece
<1> QED BY <1>2, <1>3, <1>4

-----------------------------------------------------------------------------
(* The steps of an update *)

\* What the steps of an update leave alone.
Continued ==
  /\ UNCHANGED <<type, rib, intact>>
  /\ op'.key = op.key /\ op'.call = op.call /\ op'.hop = op.hop
  /\ op'.pc \notin {"idle", "failed"}

\* A step that leaves the tables alone leaves the answers.
LEMMA SameAnswers ==
  ASSUME UNCHANGED tables
  PROVE  /\ \A ip : TableHop(ip)' = TableHop(ip)
         /\ Varied => Varied'
         /\ NoGroupLost /\ intact' = intact => NoGroupLost'
BY DEF tables, TableHop, Varied, Linked, Recyclable, NoGroupLost, get_tbl24_idx, SlotOf

\* A step that writes the next hop to some exposed addresses, which are what
\* is done after it and was not before.
LEMMA Written ==
  ASSUME AgreeInv, Busy, Continued, NEW W,
         \A ip \in Address : TableHop(ip)' = IF ip \in W THEN op.hop ELSE TableHop(ip),
         \A ip \in Address : ip \in W => Exposed(rib, op.key, ip),
         \A ip \in Address : Exposed(rib, op.key, ip) => (Done(ip)' <=> Done(ip) \/ ip \in W)
  PROVE  Agreed'
<1> SUFFICES ASSUME intact, type = "DIR24_8", NEW ip \in Address
             PROVE  TableHop(ip)' = Expected(ip)'
  BY DEF Agreed, Continued, Address, MAX_DEPTH
<1>1. TableHop(ip) = Expected(ip)
  BY DEF AgreeInv, Agreed
<1>2. Old' = Old /\ RibHop(rib', ip) = RibHop(rib, ip)
      /\ (Exposed(rib', op'.key, ip) <=> Exposed(rib, op.key, ip))
      /\ op'.hop = op.hop /\ op'.pc # "idle" /\ op.pc # "idle"
  BY DEF Old, Continued, Busy
<1>3. Expected(ip)' = IF ~Exposed(rib', op'.key, ip) THEN RibHop(rib', ip)
                      ELSE IF Done(ip)' THEN op'.hop ELSE Old'
  BY <1>2 DEF Expected
<1>4. Expected(ip) = IF ~Exposed(rib, op.key, ip) THEN RibHop(rib, ip)
                     ELSE IF Done(ip) THEN op.hop ELSE Old
  BY <1>2 DEF Expected
<1> QED BY <1>1, <1>2, <1>3, <1>4

LEMMA NothingWritten ==
  ASSUME AgreeInv, Busy, Continued, UNCHANGED tables,
         \A ip \in Address : Exposed(rib, op.key, ip) => (Done(ip)' <=> Done(ip))
  PROVE  Agreed'
<1> DEFINE W == {}
<1>1. \A ip : ip \notin W
  OBVIOUS
<1> HIDE DEF W
<1>2. \A ip \in Address : TableHop(ip)' = IF ip \in W THEN op.hop ELSE TableHop(ip)
  BY <1>1, SameAnswers
<1>3. /\ \A ip \in Address : ip \in W => Exposed(rib, op.key, ip)
      /\ \A ip \in Address :
           Exposed(rib, op.key, ip) => (Done(ip)' <=> Done(ip) \/ ip \in W)
  BY <1>1
<1> QED BY <1>2, <1>3, Written

\* A gap is exposed.
LEMMA InGapExposed ==
  ASSUME IndInv, AgreeInv, Busy, op.pc # "gap", NEW ip \in Address,
         op.ledge <= ip, ip < Place(op.redge)
  PROVE  Exposed(rib, op.key, ip)
<1>1. RoutesOK(rib) /\ CallOK /\ InGap
  BY DEF AgreeInv, GapOK
<1>2. /\ op.key.ip \in Nat /\ Past(op.key) \in Nat /\ op.ledge \in Nat
      /\ Place(op.redge) \in Nat /\ ip \in Nat
  BY <1>1, KeyFacts DEF Address
<1>3. op.key.ip <= ip /\ ip < Past(op.key)
  BY <1>1, <1>2 DEF InGap
<1>4. ASSUME NEW q \in Nearest(rib, op.key) PROVE Past(q) <= ip \/ ip < q.ip
  <2>1. Past(q) \in Nat /\ q.ip \in Nat
    BY <1>1, RouteFacts
  <2>2. Place(op.redge) <= q.ip \/ Past(q) <= op.ledge
    BY <1>1 DEF InGap
  <2> QED BY <1>2, <2>1, <2>2
<1> QED BY <1>1, <1>3, <1>4, GapExposed DEF CallOK

\* A place is behind the addresses that come before it.
LEMMA PlacesApart ==
  ASSUME IndInv, RoutesOK(rib), CallOK, NEW r \in Address, op.ledge # r,
         Place(op.ledge) <= Place(r), Place(r) <= Past(op.key)
  PROVE  Place(op.ledge) = op.ledge /\ op.ledge < Place(r)
<1>1. /\ op.ledge \in Nat /\ r \in Nat /\ op.ledge < 2 ^ MAX_DEPTH /\ r < 2 ^ MAX_DEPTH
      /\ 2 ^ MAX_DEPTH \in Nat /\ Past(op.key) <= 2 ^ MAX_DEPTH /\ Past(op.key) \in Nat
  BY KeyFacts DEF Address
<1> QED BY <1>1 DEF Place

LEMMA GapBegins ==
  ASSUME IndInv, AgreeInv, op.pc = "gap", Continued, UNCHANGED tables,
         NEW r \in Address, op.ledge # r, Place(op.ledge) <= Place(r),
         Place(r) <= Past(op.key), \A q \in op.todo : Place(r) <= q.ip,
         op'.pc = FirstPiece(op.ledge, r), op'.ledge = op.ledge, op'.redge = r,
         op'.todo = op.todo, op'.last => op.todo = {} /\ Place(r) = Past(op.key)
  PROVE  GapOK' /\ Agreed'
<1>1. RoutesOK(rib) /\ CallOK /\ BetweenGaps /\ op.todo \subseteq Nearest(rib, op.key) /\ Busy
  BY DEF AgreeInv, GapOK, Busy
<1>2. Place(op.ledge) = op.ledge /\ op.ledge < Place(r)
  BY <1>1, PlacesApart
<1>3. /\ op.ledge \in Nat /\ op.ledge < 2 ^ MAX_DEPTH /\ op.key.ip \in Nat
      /\ r \in Nat /\ r < 2 ^ MAX_DEPTH
  BY <1>1, KeyFacts DEF Address
<1>4. op.key.ip <= op.ledge
  BY <1>1, <1>2 DEF BetweenGaps
<1> DEFINE i == get_tbl24_idx(op.ledge)
           j == get_tbl24_idx(Place(r))
<1>5. /\ i \in Nat /\ j \in Nat
      /\ op'.pc = IF i = j THEN "inside" ELSE IF SlotOf(op.ledge) = 0 THEN "middle" ELSE "left"
      /\ i # j => i < j
  BY <1>1, <1>2, <1>3, <1>4, FirstPieceIs
<1>6. GapOK'
  <2>1. Place(op.redge)' = Place(r)
    BY DEF Continued, Place
  <2>2. /\ op.key.ip <= op.ledge /\ op.ledge < Place(r) /\ Place(r) <= Past(op.key)
        /\ \A q \in op.todo : Place(r) <= q.ip
        /\ \A q \in Nearest(rib, op.key) \ op.todo : Past(q) <= op.ledge
    BY <1>1, <1>2, <1>4 DEF BetweenGaps
  <2>3. Past(op.key)' = Past(op.key) /\ Nearest(rib, op.key)' = Nearest(rib, op.key)
    BY DEF Continued
  <2>4. /\ (get_tbl24_idx(op.ledge) = get_tbl24_idx(Place(op.redge)))' <=> i = j
        /\ (get_tbl24_idx(op.ledge) < get_tbl24_idx(Place(op.redge)))' <=> i < j
        /\ (SlotOf(op.ledge) # 0)' <=> SlotOf(op.ledge) # 0
    BY <2>1 DEF get_tbl24_idx, SlotOf
  <2> HIDE DEF i, j
  <2>5. op'.pc # "gap" /\ op'.pc # "right"
    BY <1>5
  <2>6. InGap'
    BY <1>5, <2>1, <2>2, <2>3, <2>4, <2>5 DEF InGap, Continued
  <2> QED BY <1>1, <2>3, <2>5, <2>6 DEF GapOK
<1>7. Agreed'
  <2>1. ASSUME NEW ip \in Address PROVE Done(ip)' <=> Done(ip)
    <3>1. ip \in Nat /\ get_tbl24_idx(ip) \in Nat
      BY IndexAndSlot DEF Address
    <3>2. Done(ip) <=> ip < op.ledge
      BY <1>2 DEF Done
    <3>3. CASE op'.pc = "middle"
      <4>1. SlotOf(op.ledge) = 0 /\ SlotOf(ip) \in Nat
        <5>1. SlotOf(ip) \in 0..(GRP_NUM_ENT - 1) /\ GRP_NUM_ENT \in Nat
          BY <3>1, IndexAndSlot, Sizes
        <5> QED BY <1>5, <3>3, <5>1
      <4>2. get_tbl24_idx(op.ledge + GRP_NUM_ENT - 1) = get_tbl24_idx(op.ledge)
        BY <1>3, <4>1, RoundedUp
      <4>3. Done(ip)' <=> get_tbl24_idx(ip) < get_tbl24_idx(op.ledge)
        BY <3>3, <4>2 DEF Done, get_tbl24_idx
      <4>4. ip < op.ledge <=> \/ get_tbl24_idx(ip) < get_tbl24_idx(op.ledge)
                              \/ (get_tbl24_idx(ip) = get_tbl24_idx(op.ledge)
                                    /\ SlotOf(ip) < SlotOf(op.ledge))
        BY <1>3, <3>1, Lexicographic
      <4> QED BY <3>2, <4>1, <4>3, <4>4
    <3>4. CASE op'.pc # "middle"
      BY <1>5, <3>2, <3>4 DEF Done
    <3> QED BY <3>3, <3>4
  <2> QED BY <1>1, <2>1, NothingWritten
<1> QED BY <1>6, <1>7

LEMMA NextGapAgrees ==
  ASSUME IndInv, AgreeInv, NextGap
  PROVE  GapOK' /\ Agreed' /\ Continued
<1> DEFINE q == First(op.todo)
<1>1. /\ op.pc = "gap" /\ ~op.last /\ op.todo # {} /\ UNCHANGED <<Local, tables, intact>>
      /\ op' = IF op.ledge = q.ip
               THEN [op EXCEPT !.ledge = StepOver(q), !.todo = @ \ {q}]
               ELSE [op EXCEPT !.pc = FirstPiece(op.ledge, q.ip), !.redge = q.ip]
  BY DEF NextGap
<1>2. /\ RoutesOK(rib) /\ CallOK /\ BetweenGaps /\ op.todo \subseteq Nearest(rib, op.key)
      /\ Busy /\ op \in Call
  BY <1>1, TypeParts DEF AgreeInv, GapOK, Busy, IndInv, OpOK
<1>3. op.todo \in SUBSET Network
  BY <1>2 DEF Call
<1>4. q \in op.todo /\ \A r \in op.todo : q.ip <= r.ip
  BY <1>1, <1>3, FirstIsLowest
<1> HIDE DEF q
<1>5. q \in Nearest(rib, op.key)
  BY <1>2, <1>4
<1>6. /\ IsMasked(q) /\ q.ip \in Nat /\ Past(q) \in Nat /\ q.ip < Past(q)
      /\ op.key.ip <= q.ip /\ Past(q) <= Past(op.key)
      /\ Place(q.ip) = q.ip /\ Place(StepOver(q)) = Past(q)
  BY <1>2, <1>5, RouteFacts
<1>7. CASE op.ledge = q.ip
  <2>1. /\ op'.pc = "gap" /\ op'.ledge = StepOver(q) /\ op'.todo = op.todo \ {q}
        /\ op'.last = FALSE /\ op'.key = op.key /\ op'.call = op.call /\ op'.hop = op.hop
    BY <1>1, <1>2, <1>7 DEF Call
  <2>2. Continued
    BY <1>1, <2>1 DEF Continued, Local
  <2>3. Place(op.ledge)' = Past(q)
    BY <1>6, <2>1 DEF Place
  <2>4. op.key.ip \in Nat /\ Past(op.key) \in Nat
    BY <1>2, KeyFacts
  <2>5. ASSUME NEW r \in op.todo \ {q} PROVE Past(q) <= r.ip
    <3>1. IsMasked(r) /\ ~Inside(r, q) /\ ~Inside(q, r) /\ q.ip <= r.ip
      BY <1>2, <1>4, <1>5, NearestApart DEF CallOK
    <3> QED BY <1>6, <2>5, <3>1, ApartInOrder
  <2>6. ASSUME NEW r \in Nearest(rib, op.key) \ (op.todo \ {q}) PROVE Past(r) <= Past(q)
    <3>1. CASE r = q
      BY <1>6, <3>1
    <3>2. CASE r # q
      <4>1. Past(r) <= q.ip /\ Past(r) \in Nat
        BY <1>2, <1>6, <1>7, <2>6, <3>2, RouteFacts DEF BetweenGaps
      <4> QED BY <1>6, <4>1
    <3> QED BY <3>1, <3>2
  <2>7. GapOK'
    <3>1. op.key.ip <= Past(q)
      BY <1>6, <2>4
    <3>2. Past(op.key)' = Past(op.key) /\ Nearest(rib, op.key)' = Nearest(rib, op.key)
      BY <2>2 DEF Continued
    <3>3. BetweenGaps'
      BY <1>6, <2>1, <2>3, <2>5, <2>6, <3>1, <3>2 DEF BetweenGaps
    <3> QED BY <1>2, <2>1, <3>2, <3>3 DEF GapOK
  <2>8. Agreed'
    <3>2. ASSUME NEW ip \in Address, Exposed(rib, op.key, ip) PROVE Done(ip)' <=> Done(ip)
      <4>1. Done(ip) <=> ip < q.ip
        BY <1>1, <1>6, <1>7 DEF Done
      <4>2. Done(ip)' <=> ip < Past(q)
        BY <2>1, <2>3 DEF Done
      <4>3. ~Holds(q, ip)
        BY <1>2, <1>5, <3>2, ExposedByNearest DEF CallOK
      <4>4. ~(q.ip <= ip /\ ip < Past(q)) /\ ip \in Nat
        BY <1>6, <4>3, HoldsInterval DEF Address
      <4> QED BY <1>6, <4>1, <4>2, <4>4
    <3> QED BY <1>1, <1>2, <2>2, <3>2, NothingWritten
  <2> QED BY <2>2, <2>7, <2>8
<1>8. CASE op.ledge # q.ip
  <2> DEFINE piece == FirstPiece(op.ledge, q.ip)
  <2>1. piece \in {"left", "middle", "inside", "gap"}
    BY DEF FirstPiece
  <2>2. op' = [op EXCEPT !.pc = piece, !.redge = q.ip]
    BY <1>1, <1>8
  <2> HIDE DEF piece
  <2>3. /\ op'.pc = piece /\ op'.ledge = op.ledge /\ op'.redge = q.ip /\ op'.todo = op.todo
        /\ op'.last = FALSE /\ op'.key = op.key /\ op'.call = op.call /\ op'.hop = op.hop
    BY <1>1, <1>2, <2>2 DEF Call
  <2>4. Continued
    BY <1>1, <2>1, <2>3 DEF Continued, Local
  <2>5. q.ip \in Address /\ Past(op.key) \in Nat /\ Place(op.ledge) <= q.ip
    <3>1. q.ip \in Address /\ Past(op.key) \in Nat
      BY <1>2, <1>6, KeyFacts DEF IsMasked, Network
    <3>2. Place(op.ledge) <= q.ip
      BY <1>2, <1>4 DEF BetweenGaps
    <3> QED BY <3>1, <3>2
  <2>6. Place(q.ip) <= Past(op.key)
    BY <1>6, <2>5
  <2> QED BY <1>1, <1>4, <1>6, <1>8, <2>3, <2>4, <2>5, <2>6, GapBegins DEF piece
<1> QED BY <1>7, <1>8

LEMMA LastGapAgrees ==
  ASSUME IndInv, AgreeInv, LastGap
  PROVE  GapOK' /\ Agreed' /\ Continued
<1> DEFINE end == End(op.key)
<1>1. /\ op.pc = "gap" /\ ~op.last /\ op.todo = {} /\ UNCHANGED <<Local, tables, intact>>
      /\ op' = IF op.ledge = end
               THEN [op EXCEPT !.last = TRUE]
               ELSE [op EXCEPT !.pc = FirstPiece(op.ledge, end),
                               !.redge = end, !.last = TRUE]
  BY DEF LastGap
<1>2. /\ RoutesOK(rib) /\ CallOK /\ BetweenGaps /\ Busy /\ op \in Call
  BY <1>1, TypeParts DEF AgreeInv, GapOK, Busy, IndInv, OpOK
<1>3. Place(end) = Past(op.key) /\ end \in Address /\ Past(op.key) \in Nat
  BY <1>2, KeyFacts, EndAddress DEF Call
<1> HIDE DEF end
<1>4. CASE op.ledge = end
  <2>1. /\ op'.pc = "gap" /\ op'.ledge = op.ledge /\ op'.todo = op.todo
        /\ op'.last = TRUE /\ op'.key = op.key /\ op'.call = op.call /\ op'.hop = op.hop
    BY <1>1, <1>2, <1>4 DEF Call
  <2>2. Continued
    BY <1>1, <2>1 DEF Continued, Local
  <2>3. Place(op.ledge)' = Place(op.ledge)
    BY <2>1 DEF Place
  <2>4. GapOK'
    <3>1. Past(op.key)' = Past(op.key) /\ Nearest(rib, op.key)' = Nearest(rib, op.key)
      BY <2>2 DEF Continued
    <3> QED BY <1>1, <1>2, <1>3, <1>4, <2>1, <2>3, <3>1 DEF GapOK, BetweenGaps
  <2>5. Agreed'
    <3>1. \A ip \in Address : Done(ip)' <=> Done(ip)
      BY <1>1, <2>1, <2>3 DEF Done
    <3> QED BY <1>1, <1>2, <2>2, <3>1, NothingWritten
  <2> QED BY <2>2, <2>4, <2>5
<1>5. CASE op.ledge # end
  <2> DEFINE piece == FirstPiece(op.ledge, end)
  <2>1. piece \in {"left", "middle", "inside", "gap"}
    BY DEF FirstPiece
  <2>2. op' = [op EXCEPT !.pc = piece, !.redge = end, !.last = TRUE]
    BY <1>1, <1>5
  <2> HIDE DEF piece
  <2>3. /\ op'.pc = piece /\ op'.ledge = op.ledge /\ op'.redge = end /\ op'.todo = op.todo
        /\ op'.key = op.key /\ op'.call = op.call /\ op'.hop = op.hop
    BY <1>1, <1>2, <2>2 DEF Call
  <2>4. Continued
    BY <1>1, <2>1, <2>3 DEF Continued, Local
  <2>5. Place(op.ledge) <= Place(end) /\ Place(end) <= Past(op.key)
    BY <1>2, <1>3 DEF BetweenGaps
  <2> QED BY <1>1, <1>3, <1>5, <2>3, <2>4, <2>5, GapBegins DEF piece
<1> QED BY <1>4, <1>5

-----------------------------------------------------------------------------
(* The pieces *)

LEMMA SmallRemainders ==
  ASSUME NEW m \in Nat \ {0}, NEW a \in Int, 0 <= a, a < m
  PROVE  a % m = a /\ (a # 0 => (0 - a) % m = m - a)
OBVIOUS

\* Where the edges of a gap are, and that the right one is only written under
\* entry 0 if the gap starts there.
LEMMA Edges ==
  ASSUME IndInv, AgreeInv, Busy, op.pc # "gap"
  PROVE  LET i == get_tbl24_idx(op.ledge)
             j == get_tbl24_idx(Place(op.redge))
         IN  /\ op.ledge \in Nat /\ op.redge \in Nat /\ Place(op.redge) \in Nat
             /\ i \in Cells /\ get_tbl24_idx(op.redge) \in Cells
             /\ j \in Nat /\ j <= 2 ^ TOP_BITS /\ i <= j
             /\ SlotOf(op.ledge) \in Slots /\ SlotOf(op.redge) \in Slots
             /\ SlotOf(Place(op.redge)) = SlotOf(op.redge)
             /\ Cells \subseteq Nat /\ Slots \subseteq Nat
             /\ \/ Place(op.redge) = op.redge
                \/ /\ Place(op.redge) = 2 ^ MAX_DEPTH /\ get_tbl24_idx(op.redge) = 0
                   /\ j = 2 ^ TOP_BITS /\ i > 0 /\ SlotOf(op.redge) = 0
             /\ SlotOf(op.redge) # 0 \/ op.pc = "inside" => Place(op.redge) = op.redge
             /\ ~Whole(op.ledge, op.redge)
<1>1. RoutesOK(rib) /\ CallOK /\ InGap /\ op \in Call
  BY TypeParts DEF AgreeInv, GapOK, IndInv, OpOK
<1>2. /\ op.ledge \in Address /\ op.redge \in Address /\ op.ledge \in Nat /\ op.redge \in Nat
      /\ op.ledge < 2 ^ MAX_DEPTH /\ op.redge < 2 ^ MAX_DEPTH /\ Place(op.redge) \in Nat
      /\ op.key.ip \in Nat /\ Past(op.key) \in Nat /\ Past(op.key) <= 2 ^ MAX_DEPTH
  BY <1>1, KeyFacts DEF Call
<1>3. /\ get_tbl24_idx(op.ledge) \in Cells /\ get_tbl24_idx(op.redge) \in Cells
      /\ SlotOf(op.ledge) \in Slots /\ SlotOf(op.redge) \in Slots
      /\ Cells \subseteq Nat /\ Slots \subseteq Nat
  BY <1>2, IndexOfAddress, Sizes DEF Cells, Slots
<1>4. get_tbl24_idx(Place(op.redge)) \in Nat
  BY <1>2, IndexAndSlot
<1>5. get_tbl24_idx(op.ledge) <= get_tbl24_idx(Place(op.redge))
  <2>1. \/ get_tbl24_idx(op.ledge) = get_tbl24_idx(Place(op.redge))
        \/ get_tbl24_idx(op.ledge) < get_tbl24_idx(Place(op.redge))
    BY <1>1 DEF InGap
  <2>2. get_tbl24_idx(op.ledge) \in Nat
    BY <1>3
  <2> QED BY <1>4, <2>1, <2>2
<1>6. CASE Place(op.redge) = op.redge
  <2>1. ~Whole(op.ledge, op.redge)
    BY <1>1, <1>6 DEF Whole, InGap
  <2>2. get_tbl24_idx(Place(op.redge)) <= 2 ^ TOP_BITS
    BY <1>3, <1>6, Sizes DEF Cells
  <2> QED BY <1>2, <1>3, <1>4, <1>5, <1>6, <2>1, <2>2
<1>7. CASE Place(op.redge) # op.redge
  <2>1. /\ op.redge = 0 /\ get_tbl24_idx(op.redge) = 0 /\ SlotOf(op.redge) = 0
        /\ get_tbl24_idx(Place(op.redge)) = 2 ^ TOP_BITS /\ SlotOf(Place(op.redge)) = 0
    BY <1>1, <1>2, <1>7, IndexOfPlace
  <2>2. Place(op.redge) = 2 ^ MAX_DEPTH /\ op.key.ip # 0
    BY <1>7, <2>1 DEF Place
  <2>3. Past(op.key) = 2 ^ MAX_DEPTH /\ op.key.ip <= op.ledge
    BY <1>1, <1>2, <2>2 DEF InGap
  <2>4. get_tbl24_idx(op.ledge) > 0
    BY <1>1, <1>2, <2>3, LastNotInFirst
  <2>5. op.pc # "inside"
    BY <1>1, <1>3, <2>1, Sizes DEF InGap, Cells
  <2>6. ~Whole(op.ledge, op.redge)
    BY <1>2, <2>2, <2>3 DEF Whole
  <2>7. 2 ^ TOP_BITS \in Nat
    BY Sizes
  <2> QED BY <1>2, <1>3, <1>4, <1>5, <2>1, <2>2, <2>4, <2>5, <2>6, <2>7
<1> QED BY <1>6, <1>7

\* The whole entries of a gap.
LEMMA MiddleCellsAre ==
  ASSUME IndInv, AgreeInv, op.pc = "middle", NEW c \in Cells
  PROVE  c \in MiddleCells <=>
           /\ get_tbl24_idx(op.ledge + GRP_NUM_ENT - 1) <= c
           /\ c < get_tbl24_idx(Place(op.redge))
<1> DEFINE i == get_tbl24_idx(op.ledge)
           j == get_tbl24_idx(Place(op.redge))
           e == get_tbl24_idx(op.redge)
           up == get_tbl24_idx(op.ledge + GRP_NUM_ENT - 1)
           m == 2 ^ TOP_BITS
           from == up % m
           len == (e - from) % m
<1>1. /\ op.ledge \in Nat /\ i \in Cells /\ e \in Cells /\ j \in Nat /\ j <= m
      /\ Place(op.redge) = op.redge \/ (e = 0 /\ j = m /\ i > 0)
      /\ ~Whole(op.ledge, op.redge) /\ i < j
  <2>1. Busy /\ op.pc # "gap"
    BY DEF Busy
  <2>2. i < j
    BY <2>1 DEF AgreeInv, GapOK, InGap
  <2> QED BY <2>1, <2>2, Edges
<1>2. e = j \/ (e = 0 /\ j = m /\ i > 0)
  BY <1>1
<1>3. up = i \/ up = i + 1
  BY <1>1, RoundedUp
<1>4. m \in Nat \ {0} /\ Cells = 0..(m - 1)
  BY Sizes DEF Cells
<1>5. MiddleCells = from..(from + len - 1)
  BY <1>1 DEF MiddleCells
<1> HIDE DEF i, j, e, up, m
<1>6. i \in Nat /\ e \in Nat /\ up \in Nat /\ c \in Nat /\ i < m /\ e < m /\ c < m /\ up <= j
  BY <1>1, <1>3, <1>4
<1>7. CASE up < m
  <2>1. from = up
    <3>1. up \in Int /\ 0 <= up /\ up < m /\ m \in Nat \ {0}
      BY <1>4, <1>6, <1>7
    <3> QED BY <3>1, SmallRemainders
  <2>2. len = j - up
    <3>1. CASE e = j
      <4>1. e - from \in Int /\ 0 <= e - from /\ e - from < m /\ e - from = j - up
        <5> HIDE DEF from
        <5> QED BY <1>1, <1>4, <1>6, <2>1, <3>1
      <4>2. (e - from) % m = e - from
        <5> DEFINE a == e - from
        <5>1. a \in Int /\ 0 <= a /\ a < m
          BY <4>1
        <5> HIDE DEF a
        <5>2. a % m = a
          BY <1>4, <5>1, SmallRemainders
        <5> QED BY <5>2 DEF a
      <4> QED BY <4>1, <4>2
    <3>2. CASE e = 0 /\ j = m /\ i > 0
      <4>1. up # 0
        BY <1>3, <1>6, <3>2
      <4>2. (0 - up) % m = m - up
        <5>1. up \in Int /\ 0 <= up /\ up < m /\ m \in Nat \ {0}
          BY <1>4, <1>6, <1>7
        <5> QED BY <4>1, <5>1, SmallRemainders
      <4> QED BY <2>1, <3>2, <4>2
    <3> QED BY <1>2, <3>1, <3>2
  <2>3. MiddleCells = up..(up + (j - up) - 1)
    BY <1>5, <2>1, <2>2
  <2> QED BY <1>1, <1>6, <2>3 DEF up, j
<1>8. CASE ~(up < m)
  <2>1. up = m /\ j = m
    BY <1>1, <1>4, <1>6, <1>8
  <2>2. e = 0
    BY <1>2, <1>6, <2>1
  <2>3. from = 0 /\ len = 0
    BY <1>4, <2>1, <2>2
  <2>4. MiddleCells = {}
    BY <1>5, <2>3
  <2> QED BY <1>6, <2>1, <2>4 DEF up, j
<1> QED BY <1>7, <1>8

\* What a piece writes: where it is, and that no more is done after it.
Writes(W) ==
  /\ Continued
  /\ \A ip \in Address : TableHop(ip)' = IF ip \in W THEN op.hop ELSE TableHop(ip)
  /\ \A ip \in Address : ip \in W => Exposed(rib, op.key, ip)
  /\ \A ip \in Address : Done(ip)' <=> Done(ip) \/ ip \in W

Order(a, b) ==
  a < b <=> \/ get_tbl24_idx(a) < get_tbl24_idx(b)
            \/ (get_tbl24_idx(a) = get_tbl24_idx(b) /\ SlotOf(a) < SlotOf(b))

LEMMA Ordered ==
  ASSUME NEW ip \in Address, NEW a \in Nat
  PROVE  /\ ip \in Nat /\ get_tbl24_idx(ip) \in Nat /\ SlotOf(ip) \in Nat
         /\ Order(ip, a) /\ Order(a, ip)
         /\ get_tbl24_idx(ip) \in Cells /\ SlotOf(ip) \in Slots
<1>1. ip \in Nat
  BY DEF Address
<1>2. get_tbl24_idx(ip) \in Cells /\ SlotOf(ip) \in Slots
  BY IndexOfAddress
<1>3. Cells \subseteq Nat /\ Slots \subseteq Nat
  BY Sizes DEF Cells, Slots
<1> QED BY <1>1, <1>2, <1>3, Lexicographic DEF Order

LEMMA LeftWrites ==
  ASSUME IndInv, AgreeInv, WriteLeft
  PROVE  /\ \E W : Writes(W)
         /\ GapOK' /\ Varied'
<1> DEFINE i == get_tbl24_idx(op.ledge)
           j == get_tbl24_idx(Place(op.redge))
           W == {ip \in Address : get_tbl24_idx(ip) = i
                                    /\ SlotOf(ip) \in SlotOf(op.ledge)..(GRP_NUM_ENT - 1)}
<1>1. /\ op.pc = "left" /\ op.pc # "gap" /\ Busy /\ op' = [op EXCEPT !.pc = "middle"]
      /\ (tbl24[i].ext \/ Free # {}) /\ UNCHANGED <<Local, intact>>
      /\ WriteSlots(i, SlotOf(op.ledge)..(GRP_NUM_ENT - 1))
  <2>1. Cardinality(Free) > 1 => Free # {}
    BY FS_EmptySet
  <2> QED BY <2>1 DEF WriteLeft, Busy
<1>2. op \in Call /\ op.hop \in Hops /\ Varied /\ InGap /\ GapOK
  BY <1>1, TypeParts DEF IndInv, OpOK, Call, AgreeInv, GapOK
<1>3. /\ op'.pc = "middle" /\ op'.ledge = op.ledge /\ op'.redge = op.redge
      /\ op'.todo = op.todo /\ op'.last = op.last
      /\ op'.key = op.key /\ op'.call = op.call /\ op'.hop = op.hop
  BY <1>1, <1>2 DEF Call
<1>4. Continued
  BY <1>1, <1>3 DEF Continued, Local
<1>5. /\ i \in Cells /\ i \in Nat /\ j \in Nat /\ op.ledge \in Nat /\ Place(op.redge) \in Nat
      /\ SlotOf(op.ledge) \in Nat /\ SlotOf(op.ledge) # 0 /\ i < j
  <2>1. i < j /\ SlotOf(op.ledge) # 0
    BY <1>1, <1>2 DEF InGap
  <2> QED BY <1>1, <2>1, Edges
<1>6. /\ Varied'
      /\ \A ip \in Address : TableHop(ip)' = IF ip \in W THEN op.hop ELSE TableHop(ip)
  BY <1>1, <1>2, <1>5, WriteSlotsEffect
<1>7. ASSUME NEW ip \in Address
      PROVE  /\ ip \in W => op.ledge <= ip /\ ip < Place(op.redge)
             /\ Done(ip)' <=> Done(ip) \/ ip \in W
  <2>1. /\ ip \in Nat /\ get_tbl24_idx(ip) \in Nat /\ SlotOf(ip) \in Nat
        /\ SlotOf(ip) <= GRP_NUM_ENT - 1
        /\ Order(ip, op.ledge) /\ Order(ip, Place(op.redge))
    BY <1>5, Ordered DEF Slots
  <2>2. ip \in W <=> get_tbl24_idx(ip) = i /\ SlotOf(op.ledge) <= SlotOf(ip)
    BY <1>5, <2>1, Sizes
  <2>3. Done(ip) <=> ip < op.ledge
    BY <1>1 DEF Done
  <2>4. Done(ip)' <=> get_tbl24_idx(ip) < i + 1
    <3>1. get_tbl24_idx(op.ledge + GRP_NUM_ENT - 1) = i + 1
      BY <1>5, RoundedUp
    <3>2. Done(ip)' <=> get_tbl24_idx(ip) < get_tbl24_idx(op.ledge + GRP_NUM_ENT - 1)
      BY <1>3 DEF Done, get_tbl24_idx
    <3> QED BY <3>1, <3>2
  <2> HIDE DEF W, i, j
  <2>5. /\ ip < op.ledge <=> \/ get_tbl24_idx(ip) < i
                             \/ (get_tbl24_idx(ip) = i /\ SlotOf(ip) < SlotOf(op.ledge))
        /\ ip < Place(op.redge) <=> \/ get_tbl24_idx(ip) < j
                                    \/ (get_tbl24_idx(ip) = j
                                          /\ SlotOf(ip) < SlotOf(Place(op.redge)))
    BY <2>1 DEF Order, i, j
  <2> QED BY <1>5, <2>1, <2>2, <2>3, <2>4, <2>5
<1>8. \A ip \in Address : ip \in W => Exposed(rib, op.key, ip)
  BY <1>1, <1>7, InGapExposed
<1>9. Writes(W)
  <2> HIDE DEF W
  <2> QED BY <1>4, <1>6, <1>7, <1>8 DEF Writes
<1>10. GapOK'
  <2>1. Place(op.redge)' = Place(op.redge)
    BY <1>3 DEF Place
  <2>2. Past(op.key)' = Past(op.key) /\ Nearest(rib, op.key)' = Nearest(rib, op.key)
    BY <1>4 DEF Continued
  <2>3. (get_tbl24_idx(op.ledge) < get_tbl24_idx(Place(op.redge)))' <=> i < j
    BY <1>3, <2>1 DEF get_tbl24_idx
  <2>4. InGap'
    BY <1>2, <1>3, <1>5, <2>1, <2>2, <2>3 DEF InGap
  <2> QED BY <1>2, <1>3, <2>2, <2>4 DEF GapOK
<1> QED BY <1>6, <1>9, <1>10

\* The last piece of a gap leads to its end.
LEMMA GapEnds ==
  ASSUME IndInv, AgreeInv, Busy, op.pc # "gap", op' = GapDone,
         UNCHANGED <<Local, intact>>
  PROVE  /\ GapOK' /\ Continued
         /\ \A ip : Done(ip)' <=> ip < Place(op.redge)
<1>1. op \in Call /\ RoutesOK(rib) /\ CallOK /\ GapOK /\ InGap
  BY TypeParts DEF IndInv, OpOK, AgreeInv, GapOK
<1>2. /\ op'.pc = "gap" /\ op'.ledge = op.redge /\ op'.todo = op.todo /\ op'.last = op.last
      /\ op'.key = op.key /\ op'.call = op.call /\ op'.hop = op.hop
  BY <1>1 DEF Call, GapDone
<1>3. Continued
  BY <1>2 DEF Continued, Local
<1>4. Place(op.ledge)' = Place(op.redge)
  BY <1>2 DEF Place
<1>5. Past(op.key)' = Past(op.key) /\ Nearest(rib, op.key)' = Nearest(rib, op.key)
  BY <1>3 DEF Continued
<1>6. op.key.ip \in Nat /\ op.ledge \in Nat /\ Place(op.redge) \in Nat
  BY <1>1, KeyFacts
<1>7. op.key.ip <= Place(op.redge)
  BY <1>1, <1>6 DEF InGap
<1>8. ASSUME NEW q \in Nearest(rib, op.key) \ op.todo PROVE Past(q) <= Place(op.redge)
  <2>1. Past(q) \in Nat /\ Past(q) <= op.ledge /\ op.ledge < Place(op.redge)
    BY <1>1, RouteFacts DEF InGap
  <2> QED BY <1>6, <2>1
<1>9. /\ Place(op.redge) <= Past(op.key)
      /\ \A q \in op.todo : Place(op.redge) <= q.ip
      /\ op.last => Place(op.redge) = Past(op.key)
  BY <1>1 DEF InGap
<1>10. BetweenGaps'
  BY <1>2, <1>4, <1>5, <1>7, <1>8, <1>9 DEF BetweenGaps
<1>11. GapOK'
  BY <1>1, <1>2, <1>5, <1>10 DEF GapOK
<1>12. \A ip : Done(ip)' <=> ip < Place(op.redge)
  BY <1>2, <1>4 DEF Done
<1> QED BY <1>3, <1>11, <1>12

LEMMA MiddleWrites ==
  ASSUME IndInv, AgreeInv, WriteMiddle
  PROVE  /\ \E W : Writes(W)
         /\ GapOK' /\ Varied'
<1> DEFINE j == get_tbl24_idx(Place(op.redge))
           up == get_tbl24_idx(op.ledge + GRP_NUM_ENT - 1)
           W == {ip \in Address : get_tbl24_idx(ip) \in MiddleCells}
<1>1. /\ op.pc = "middle" /\ op.pc # "gap" /\ Busy /\ UNCHANGED <<Local, intact>>
      /\ op' = IF SlotOf(op.redge) # 0 THEN [op EXCEPT !.pc = "right"] ELSE GapDone
  BY DEF WriteMiddle, Busy
<1>2. op \in Call /\ op.hop \in Hops /\ Varied /\ InGap /\ GapOK
  BY <1>1, TypeParts DEF IndInv, OpOK, Call, AgreeInv, GapOK
<1>3. /\ op.ledge \in Nat /\ Place(op.redge) \in Nat /\ up \in Nat /\ j \in Nat
      /\ up = IF SlotOf(op.ledge) = 0 THEN get_tbl24_idx(op.ledge)
              ELSE get_tbl24_idx(op.ledge) + 1
      /\ get_tbl24_idx(op.ledge) \in Nat /\ SlotOf(Place(op.redge)) = SlotOf(op.redge)
      /\ SlotOf(Place(op.redge)) \in Nat /\ SlotOf(op.ledge) \in Nat
      /\ get_tbl24_idx(op.ledge) < j
      /\ SlotOf(op.redge) # 0 => Place(op.redge) = op.redge
  <2>1. /\ op.ledge \in Nat /\ Place(op.redge) \in Nat
        /\ get_tbl24_idx(op.ledge) \in Nat /\ SlotOf(Place(op.redge)) = SlotOf(op.redge)
        /\ SlotOf(Place(op.redge)) \in Nat /\ SlotOf(op.ledge) \in Nat
        /\ SlotOf(op.redge) # 0 => Place(op.redge) = op.redge
    BY <1>1, Edges
  <2>2. up = IF SlotOf(op.ledge) = 0 THEN get_tbl24_idx(op.ledge)
             ELSE get_tbl24_idx(op.ledge) + 1
    BY <2>1, RoundedUp
  <2>3. j \in Nat /\ up \in Nat
    <3>1. j \in Nat
      BY <2>1, IndexAndSlot
    <3> HIDE DEF up, j
    <3> QED BY <2>1, <2>2, <3>1
  <2>4. get_tbl24_idx(op.ledge) < j
    BY <1>1, <1>2 DEF InGap
  <2> QED BY <2>1, <2>2, <2>3, <2>4
<1>4. Varied' /\ \A ip \in Address : TableHop(ip)' = IF ip \in W THEN op.hop ELSE TableHop(ip)
  BY <1>2, MiddleEffect
<1>5. ASSUME NEW ip \in Address
      PROVE  /\ ip \in W => op.ledge <= ip /\ ip < Place(op.redge)
             /\ Done(ip) \/ ip \in W <=> get_tbl24_idx(ip) < j
  <2>1. /\ ip \in Nat /\ get_tbl24_idx(ip) \in Nat /\ SlotOf(ip) \in Nat
        /\ Order(ip, op.ledge) /\ Order(ip, Place(op.redge)) /\ get_tbl24_idx(ip) \in Cells
    BY <1>3, Ordered
  <2>2. ip \in W <=> up <= get_tbl24_idx(ip) /\ get_tbl24_idx(ip) < j
    BY <1>1, <2>1, MiddleCellsAre
  <2>3. Done(ip) <=> get_tbl24_idx(ip) < up
    BY <1>1 DEF Done
  <2> HIDE DEF W, up, j
  <2>4. /\ ip < op.ledge <=> \/ get_tbl24_idx(ip) < get_tbl24_idx(op.ledge)
                             \/ (get_tbl24_idx(ip) = get_tbl24_idx(op.ledge)
                                   /\ SlotOf(ip) < SlotOf(op.ledge))
        /\ ip < Place(op.redge) <=> \/ get_tbl24_idx(ip) < j
                                    \/ (get_tbl24_idx(ip) = j
                                          /\ SlotOf(ip) < SlotOf(Place(op.redge)))
    BY <2>1 DEF Order, j
  <2> QED BY <1>3, <2>1, <2>2, <2>3, <2>4
<1>6. \A ip \in Address : ip \in W => Exposed(rib, op.key, ip)
  BY <1>1, <1>5, InGapExposed
<1>7. CASE SlotOf(op.redge) # 0
  <2>1. /\ op'.pc = "right" /\ op'.ledge = op.ledge /\ op'.redge = op.redge
        /\ op'.todo = op.todo /\ op'.last = op.last
        /\ op'.key = op.key /\ op'.call = op.call /\ op'.hop = op.hop
    BY <1>1, <1>2, <1>7 DEF Call
  <2>2. Continued
    BY <1>1, <2>1 DEF Continued, Local
  <2>3. \A ip \in Address : Done(ip)' <=> get_tbl24_idx(ip) < j
    BY <1>3, <1>7, <2>1 DEF Done, get_tbl24_idx
  <2>4. Writes(W)
    <3> HIDE DEF W, j
    <3> QED BY <1>4, <1>5, <1>6, <2>2, <2>3 DEF Writes
  <2>5. GapOK'
    <3>1. Place(op.redge)' = Place(op.redge)
      BY <2>1 DEF Place
    <3>2. Past(op.key)' = Past(op.key) /\ Nearest(rib, op.key)' = Nearest(rib, op.key)
      BY <2>2 DEF Continued
    <3>3. (get_tbl24_idx(op.ledge) < get_tbl24_idx(Place(op.redge)))'
            <=> get_tbl24_idx(op.ledge) < j
      BY <2>1, <3>1 DEF get_tbl24_idx
    <3>4. (SlotOf(op.redge) # 0)'
      BY <1>7, <2>1 DEF SlotOf
    <3>5. InGap'
      BY <1>2, <1>3, <2>1, <3>1, <3>2, <3>3, <3>4 DEF InGap
    <3> QED BY <1>2, <2>1, <3>2, <3>5 DEF GapOK
  <2> QED BY <1>4, <2>4, <2>5
<1>8. CASE SlotOf(op.redge) = 0
  <2>1. /\ GapOK' /\ Continued
        /\ \A ip : Done(ip)' <=> ip < Place(op.redge)
    BY <1>1, <1>8, GapEnds
  <2>2. ASSUME NEW ip \in Address PROVE Done(ip)' <=> Done(ip) \/ ip \in W
    <3>1. /\ get_tbl24_idx(ip) \in Nat /\ SlotOf(ip) \in Nat
          /\ Order(ip, Place(op.redge))
      BY <1>3, Ordered
    <3> HIDE DEF W
    <3>2. ip < Place(op.redge) <=> get_tbl24_idx(ip) < j
      BY <1>3, <1>8, <3>1 DEF Order
    <3> QED BY <1>5, <2>1, <3>2
  <2>3. Writes(W)
    <3> HIDE DEF W
    <3> QED BY <1>4, <1>6, <2>1, <2>2 DEF Writes
  <2> QED BY <1>4, <2>1, <2>3
<1> QED BY <1>7, <1>8

\* The last edge of a gap that is not only whole entries.
LEMMA LastEdgeWrites ==
  ASSUME IndInv, AgreeInv, WriteRight \/ WriteInside
  PROVE  /\ \E W : Writes(W)
         /\ GapOK' /\ Varied'
<1> DEFINE i == get_tbl24_idx(op.ledge)
           j == get_tbl24_idx(op.redge)
           low == IF op.pc = "right" THEN 0 ELSE SlotOf(op.ledge)
           slots == low..(SlotOf(op.redge) - 1)
           W == {ip \in Address : get_tbl24_idx(ip) = j /\ SlotOf(ip) \in slots}
<1>1. /\ op.pc \in {"right", "inside"} /\ op.pc # "gap" /\ Busy /\ op' = GapDone
      /\ UNCHANGED <<Local, intact>>
  BY DEF WriteRight, WriteInside, Busy
<1>2. op \in Call /\ op.hop \in Hops /\ Varied /\ InGap /\ GapOK
  BY <1>1, TypeParts DEF IndInv, OpOK, Call, AgreeInv, GapOK
<1>3. /\ op.ledge \in Nat /\ op.redge \in Nat /\ i \in Nat /\ j \in Nat /\ j \in Cells
      /\ SlotOf(op.ledge) \in Nat /\ SlotOf(op.redge) \in Nat
      /\ Place(op.redge) = op.redge /\ op.ledge < op.redge
      /\ op.pc = "right" => i < j
      /\ op.pc = "inside" => i = j
  <2>1. /\ op.ledge \in Nat /\ op.redge \in Nat /\ i \in Nat /\ j \in Nat /\ j \in Cells
        /\ SlotOf(op.ledge) \in Nat /\ SlotOf(op.redge) \in Nat
        /\ SlotOf(op.redge) # 0 \/ op.pc = "inside" => Place(op.redge) = op.redge
    BY <1>1, Edges
  <2>2. Place(op.redge) = op.redge
    BY <1>1, <1>2, <2>1 DEF InGap
  <2> QED BY <1>1, <1>2, <2>1, <2>2 DEF InGap
<1>4. (tbl24[j].ext \/ Free # {}) /\ WriteSlots(j, slots)
  <2>1. CASE op.pc = "right"
    BY <2>1 DEF WriteRight, WriteInside
  <2>2. CASE op.pc = "inside"
    BY <1>3, <2>2 DEF WriteRight, WriteInside
  <2> QED BY <1>1, <2>1, <2>2
<1>5. Varied' /\ \A ip \in Address : TableHop(ip)' = IF ip \in W THEN op.hop ELSE TableHop(ip)
  <2> HIDE DEF slots
  <2> QED BY <1>2, <1>3, <1>4, WriteSlotsEffect
<1>6. /\ GapOK' /\ Continued
      /\ \A ip : Done(ip)' <=> ip < op.redge
  BY <1>1, <1>3, GapEnds
<1>7. ASSUME NEW ip \in Address
      PROVE  /\ ip \in W => op.ledge <= ip /\ ip < op.redge
             /\ ip < op.redge <=> Done(ip) \/ ip \in W
  <2>1. /\ ip \in Nat /\ get_tbl24_idx(ip) \in Nat /\ SlotOf(ip) \in Nat
        /\ Order(ip, op.ledge) /\ Order(ip, op.redge)
    BY <1>3, Ordered
  <2>2. ip \in W <=> get_tbl24_idx(ip) = j /\ low <= SlotOf(ip) /\ SlotOf(ip) < SlotOf(op.redge)
    <3>1. low \in Nat
      BY <1>3
    <3> HIDE DEF low
    <3> QED BY <1>3, <2>1, <3>1
  <2>3. Done(ip) <=> IF op.pc = "right" THEN get_tbl24_idx(ip) < j ELSE ip < op.ledge
    BY <1>1 DEF Done
  <2> HIDE DEF W, i, j
  <2>4. /\ ip < op.ledge <=> \/ get_tbl24_idx(ip) < i
                             \/ (get_tbl24_idx(ip) = i /\ SlotOf(ip) < SlotOf(op.ledge))
        /\ ip < op.redge <=> \/ get_tbl24_idx(ip) < j
                             \/ (get_tbl24_idx(ip) = j /\ SlotOf(ip) < SlotOf(op.redge))
    BY <2>1 DEF Order, i, j
  <2>5. CASE op.pc = "right"
    BY <1>3, <2>1, <2>2, <2>3, <2>4, <2>5
  <2>6. CASE op.pc = "inside"
    BY <1>3, <2>1, <2>2, <2>3, <2>4, <2>6
  <2> QED BY <1>1, <2>5, <2>6
<1>8. \A ip \in Address : ip \in W => Exposed(rib, op.key, ip)
  BY <1>1, <1>3, <1>7, InGapExposed
<1>9. Writes(W)
  <2> HIDE DEF W
  <2> QED BY <1>5, <1>6, <1>7, <1>8 DEF Writes
<1> QED BY <1>5, <1>6, <1>9

-----------------------------------------------------------------------------
(* Groups *)

GroupsInUse ==
  /\ tbl8_idxes = {tbl24[c].val : c \in Linked}
  /\ cur_tbl8s = Cardinality(tbl8_idxes)

\* Writing into an entry takes a group for it or gives its group back.
LEMMA WriteSlotsCounts ==
  ASSUME IndInv, NEW c \in Cells, NEW slots, tbl24[c].ext \/ Free # {},
         WriteSlots(c, slots), GroupsInUse
  PROVE  GroupsInUse'
<1> DEFINE e == tbl24[c]
           g == IF e.ext THEN e.val ELSE tbl8_get_idx
           group == [s \in Slots |-> IF s \in slots THEN op.hop
                                     ELSE IF e.ext THEN tbl8[g][s] ELSE Initial(e, s)]
           taken == IF e.ext THEN 0 ELSE 1
           entry == IF Recyclable(group) THEN Leaf(group[0]) ELSE Link(g)
<1>1. TablesOK /\ LinkedGroupsTaken
  BY TypeParts DEF IndInv
<1>2. /\ g \in Groups /\ \A d \in Cells \ {c} : tbl24[d].ext => tbl24[d].val # g
      /\ g \in tbl8_idxes <=> e.ext
  <2>1. CASE e.ext
    BY <1>1, <2>1 DEF TablesOK, LinkedGroupsTaken, Linked
  <2>2. CASE ~e.ext
    <3>1. g \in Groups \ tbl8_idxes
      BY <2>2, AllocatedIsFree DEF Free
    <3> QED BY <1>1, <2>2, <3>1 DEF LinkedGroupsTaken, Linked
  <2> QED BY <2>1, <2>2
<1>3. /\ tbl24' = [tbl24 EXCEPT ![c] = entry]
      /\ tbl8_idxes' = IF Recyclable(group) THEN tbl8_idxes \ {g} ELSE tbl8_idxes \cup {g}
      /\ cur_tbl8s' = IF Recyclable(group) THEN cur_tbl8s + taken - 1 ELSE cur_tbl8s + taken
  BY DEF WriteSlots
<1>4. entry.ext = ~Recyclable(group) /\ (entry.ext => entry.val = g)
  BY <1>2, LinkType DEF Leaf
<1>5. taken = IF e.ext THEN 0 ELSE 1
  OBVIOUS
<1>6. \A d \in Cells : tbl24'[d] = IF d = c THEN entry ELSE tbl24[d]
  BY <1>1, <1>3 DEF TablesOK
<1> HIDE DEF g, group, taken, entry
<1>7. tbl8_idxes' = {tbl24'[d].val : d \in {d \in Cells : tbl24'[d].ext}}
  <2>1. tbl8_idxes = {tbl24[d].val : d \in {d \in Cells : tbl24[d].ext}}
    BY DEF GroupsInUse, Linked
  <2>2. ASSUME NEW h PROVE h \in tbl8_idxes' <=> \E d \in Cells : tbl24'[d].ext /\ tbl24'[d].val = h
    <3>1. CASE h = g
      <4>1. h \in tbl8_idxes' <=> ~Recyclable(group)
        BY <1>3, <3>1
      <4>2. \A d \in Cells \ {c} : tbl24'[d].ext => tbl24'[d].val # g
        BY <1>2, <1>6
      <4>3. tbl24'[c] = entry
        BY <1>6
      <4> QED BY <1>4, <3>1, <4>1, <4>2, <4>3
    <3>2. CASE h # g
      <4>1. h \in tbl8_idxes' <=> h \in tbl8_idxes
        BY <1>3, <3>2
      <4>2. h \in tbl8_idxes <=> \E d \in Cells : tbl24[d].ext /\ tbl24[d].val = h
        BY <2>1
      <4>3. tbl24[c].ext => tbl24[c].val = g
        BY DEF g
      <4>4. tbl24'[c].ext => tbl24'[c].val = g
        BY <1>4, <1>6
      <4>5. \A d \in Cells \ {c} : tbl24'[d] = tbl24[d]
        BY <1>6
      <4> QED BY <3>2, <4>1, <4>2, <4>3, <4>4, <4>5
    <3> QED BY <3>1, <3>2
  <2> QED BY <2>2
<1>8. cur_tbl8s' = Cardinality(tbl8_idxes')
  <2>1. IsFiniteSet(tbl8_idxes)
    <3>1. IsFiniteSet(0..(number_tbl8s - 1))
      BY Sizes, FS_Interval
    <3> QED BY <1>1, <3>1, FS_Subset DEF TablesOK, Groups
  <2>2. /\ Cardinality(tbl8_idxes) \in Nat
        /\ Cardinality(tbl8_idxes \ {g})
             = IF g \in tbl8_idxes THEN Cardinality(tbl8_idxes) - 1 ELSE Cardinality(tbl8_idxes)
        /\ Cardinality(tbl8_idxes \cup {g})
             = IF g \in tbl8_idxes THEN Cardinality(tbl8_idxes) ELSE Cardinality(tbl8_idxes) + 1
    BY <2>1, FS_CardinalityType, FS_AddElement, FS_RemoveElement
  <2>3. cur_tbl8s = Cardinality(tbl8_idxes)
    BY DEF GroupsInUse
  <2> QED BY <1>2, <1>3, <1>5, <2>2, <2>3
<1> QED BY <1>7, <1>8 DEF GroupsInUse, Linked

\* The addresses of an entry.
LEMMA AddressOf ==
  ASSUME NEW c \in Cells, NEW s \in Slots
  PROVE  \E a \in Address : get_tbl24_idx(a) = c /\ SlotOf(a) = s
<1> DEFINE n == GRP_NUM_ENT
           m == 2 ^ TOP_BITS
<1>1. /\ n \in Nat \ {0} /\ m \in Nat \ {0} /\ 2 ^ MAX_DEPTH = m * n
      /\ c \in Nat /\ c < m /\ s \in 0..(n - 1) /\ s \in Nat
  BY Sizes DEF Cells, Slots
<1>2. get_tbl24_idx(n * c + s) = c /\ SlotOf(n * c + s) = s
  BY <1>1, IndexOf
<1> HIDE DEF n, m
<1>3. n * c \in Nat /\ n * m \in Nat /\ m * n = n * m /\ n * c + n <= n * m
  BY <1>1, MultiplesApart
<1>4. n * c + s \in Address
  BY <1>1, <1>3 DEF Address
<1> QED BY <1>2, <1>4

\* A linked entry has two addresses with different answers.
LEMMA VariedEntry ==
  ASSUME IndInv, Varied, NEW c \in Linked
  PROVE  \E a, b \in Address : /\ get_tbl24_idx(a) = c /\ get_tbl24_idx(b) = c
                               /\ TableHop(a) # TableHop(b)
<1>1. c \in Cells /\ tbl24[c].ext /\ 0 \in Slots
  BY Sizes DEF Linked
<1>2. PICK s \in Slots : tbl8[tbl24[c].val][s] # tbl8[tbl24[c].val][0]
  BY DEF Varied, Recyclable
<1>3. PICK a \in Address : get_tbl24_idx(a) = c /\ SlotOf(a) = s
  BY <1>1, AddressOf
<1>4. PICK b \in Address : get_tbl24_idx(b) = c /\ SlotOf(b) = 0
  BY <1>1, AddressOf
<1>5. /\ TableHop(a) = tbl8[tbl24[c].val][s]
      /\ TableHop(b) = tbl8[tbl24[c].val][0]
  BY <1>1, <1>3, <1>4 DEF TableHop
<1> QED BY <1>2, <1>3, <1>4, <1>5

\* Whole entries of a gap have one answer, so that no group is dropped there.
LEMMA MiddleCounts ==
  ASSUME IndInv, AgreeInv, WriteMiddle, intact
  PROVE  GroupsInUse'
<1>1. GroupsInUse /\ op.pc = "middle" /\ Varied /\ type = "DIR24_8" /\ TablesOK
  BY TypeParts DEF AgreeInv, NoGroupLost, GroupsInUse, WriteMiddle, IndInv, OpOK
<1>2. /\ tbl24' = [c \in Cells |-> IF c \in MiddleCells THEN Leaf(op.hop) ELSE tbl24[c]]
      /\ UNCHANGED <<tbl8_idxes, cur_tbl8s>>
  BY DEF WriteMiddle
<1>3. ASSUME NEW c \in MiddleCells, c \in Linked PROVE FALSE
  <2>1. PICK a \in Address, b \in Address :
          get_tbl24_idx(a) = c /\ get_tbl24_idx(b) = c /\ TableHop(a) # TableHop(b)
    BY <1>1, <1>3, VariedEntry
  <2>2. ASSUME NEW ip \in Address, get_tbl24_idx(ip) = c PROVE TableHop(ip) = Old
    <3>1. Busy /\ op.pc # "gap"
      BY <1>1 DEF Busy
    <3> DEFINE i == get_tbl24_idx(op.ledge)
               j == get_tbl24_idx(Place(op.redge))
               up == get_tbl24_idx(op.ledge + GRP_NUM_ENT - 1)
    <3>2. c \in Cells /\ up <= c /\ c < j
      BY <1>1, <1>3, MiddleCellsAre DEF Linked
    <3>3. /\ op.ledge \in Nat /\ Place(op.redge) \in Nat /\ i \in Nat /\ j \in Nat
          /\ SlotOf(op.ledge) \in Nat /\ c \in Nat
      BY <3>1, <3>2, Edges
    <3>4. up = IF SlotOf(op.ledge) = 0 THEN i ELSE i + 1
      BY <3>3, RoundedUp
    <3>5. Order(ip, op.ledge) /\ Order(ip, Place(op.redge)) /\ SlotOf(ip) \in Nat
          /\ ip \in Nat
      BY <3>3, Ordered
    <3>6. ~Done(ip)
      BY <1>1, <2>2, <3>2, <3>3, <3>4 DEF Done
    <3> HIDE DEF i, j, up
    <3>7. op.ledge <= ip /\ ip < Place(op.redge)
      <4>1. /\ ip < op.ledge <=> \/ c < i
                                 \/ (c = i /\ SlotOf(ip) < SlotOf(op.ledge))
            /\ ip < Place(op.redge) <=> \/ c < j
                                        \/ (c = j /\ SlotOf(ip) < SlotOf(Place(op.redge)))
        BY <2>2, <3>5 DEF Order, i, j
      <4> QED BY <3>2, <3>3, <3>4, <3>5, <4>1
    <3>8. Exposed(rib, op.key, ip)
      BY <3>1, <3>7, InGapExposed
    <3> QED BY <1>1, <3>6, <3>8 DEF AgreeInv, Agreed, Expected
  <2> QED BY <2>1, <2>2
<1>4. ~Leaf(op.hop).ext
  BY DEF Leaf
<1>5. Linked' = Linked /\ \A c \in Linked : tbl24'[c] = tbl24[c]
  <2>1. ASSUME NEW c \in Cells
        PROVE  /\ tbl24'[c].ext <=> tbl24[c].ext
               /\ tbl24[c].ext => tbl24'[c] = tbl24[c]
    <3>1. CASE c \in MiddleCells
      BY <1>2, <1>3, <1>4, <3>1 DEF Linked
    <3>2. CASE c \notin MiddleCells
      BY <1>2, <3>2
    <3> QED BY <3>1, <3>2
  <2> QED BY <2>1 DEF Linked
<1>6. {tbl24'[c].val : c \in Linked'} = {tbl24[c].val : c \in Linked}
  BY <1>5
<1> QED BY <1>1, <1>2, <1>6 DEF GroupsInUse

LEMMA PiecesCount ==
  ASSUME IndInv, AgreeInv, WriteLeft \/ WriteMiddle \/ WriteRight \/ WriteInside
  PROVE  NoGroupLost'
<1>1. SUFFICES ASSUME intact PROVE GroupsInUse'
  BY DEF NoGroupLost, GroupsInUse, WriteLeft, WriteMiddle, WriteRight, WriteInside
<1>2. GroupsInUse
  BY <1>1 DEF AgreeInv, NoGroupLost, GroupsInUse
<1>3. CASE WriteMiddle
  BY <1>1, <1>3, MiddleCounts
<1>4. CASE WriteLeft \/ WriteRight \/ WriteInside
  <2>1. op.ledge \in Address /\ op.redge \in Address
    BY TypeParts DEF IndInv, OpOK, Call
  <2>2. get_tbl24_idx(op.ledge) \in Cells /\ get_tbl24_idx(op.redge) \in Cells
    BY <2>1, IndexOfAddress
  <2>3. Cardinality(Free) > 1 => Free # {}
    BY FS_EmptySet
  <2>4. \E c \in Cells : \E slots : WriteSlots(c, slots) /\ (tbl24[c].ext \/ Free # {})
    BY <1>4, <2>2, <2>3 DEF WriteLeft, WriteRight, WriteInside
  <2> QED BY <1>2, <2>4, WriteSlotsCounts
<1> QED BY <1>3, <1>4

-----------------------------------------------------------------------------
(* Where a call starts and returns *)

\* Callers that use no default route.
NoDefaultRoute == \A r \in Routes : r.depth # 0

LEMMA CallStarts ==
  ASSUME IndInv, AgreeInv, op.pc = "idle", type = "DIR24_8",
         NEW key, IsMasked(key), key.depth # 0, NEW hop, NEW reserve,
         NEW call \in {"add", "change", "delete"},
         modify_fib(call, key, hop, reserve), DifferIn(rib, rib', key), key \in DOMAIN rib',
         call = "add" => key \notin DOMAIN rib /\ rib'[key] = hop,
         call # "add" => rib' = rib,
         call = "delete" => hop = ParentHop(rib, key)
  PROVE  AgreeInv'
<1>1. /\ op'.pc = "gap" /\ op'.call = call /\ op'.key = key /\ op'.hop = hop
      /\ op'.ledge = key.ip /\ op'.todo = Nearest(rib, key) /\ op'.last = FALSE
      /\ UNCHANGED tables /\ intact' = intact /\ type' = type
  BY DEF modify_fib, Idle
<1>2. /\ RoutesOK(rib) /\ RoutesOK(rib') /\ key.depth \in Int /\ key.ip \in Nat
      /\ key.ip \in Address
  BY DepthsAreNaturals DEF DifferIn, IsMasked, Network, Address
<1>3. /\ Nearest(rib, key) = Nearest(rib', key)
      /\ ParentHop(rib, key) = ParentHop(rib', key)
      /\ \A ip : Exposed(rib, key, ip) <=> Exposed(rib', key, ip)
  BY <1>2, AroundKept DEF DifferIn
<1>4. Varied' /\ NoGroupLost'
  BY <1>1, SameAnswers DEF AgreeInv
<1>5. CallOK'
  BY <1>1, <1>3 DEF CallOK
<1>6. Place(op.ledge)' = key.ip
  BY <1>1 DEF Place
<1>7. GapOK'
  <2>1. key.ip < Past(key) /\ Past(key) \in Nat
    BY <1>2, HoldsInterval DEF Past
  <2>2. \A q \in Nearest(rib', key) : key.ip <= q.ip
    BY <1>2, NearestApart
  <2>3. Past(op.key)' = Past(key) /\ Nearest(rib, op.key)' = Nearest(rib', key)
    BY <1>1
  <2>4. BetweenGaps'
    BY <1>1, <1>2, <1>3, <1>6, <2>1, <2>2, <2>3 DEF BetweenGaps
  <2> QED BY <1>1, <1>3, <2>3, <2>4 DEF GapOK
<1>8. Agreed'
  <2> SUFFICES ASSUME intact, NEW ip \in Address PROVE TableHop(ip)' = Expected(ip)'
    BY <1>1 DEF Agreed, Address, MAX_DEPTH
  <2>1. TableHop(ip)' = RibHop(rib, ip)
    BY <1>1, SameAnswers DEF AgreeInv, Agreed, Expected
  <2>2. Expected(ip)' = IF ~Exposed(rib', key, ip) THEN RibHop(rib', ip)
                        ELSE IF Done(ip)' THEN hop ELSE Old'
    BY <1>1 DEF Expected
  <2>3. CASE ~Exposed(rib', key, ip)
    BY <1>2, <1>3, <2>1, <2>2, <2>3, CoveredHop DEF DifferIn
  <2>4. CASE Exposed(rib', key, ip)
    <3>1. ~Done(ip)'
      <4>1. Done(ip)' <=> ip < key.ip
        BY <1>1, <1>6 DEF Done
      <4>2. key.ip <= ip /\ ip \in Nat
        BY <2>4, HoldsInterval DEF Exposed, Address
      <4> QED BY <1>2, <4>1, <4>2
    <3>2. Old' = IF call = "add" THEN ParentHop(rib', key) ELSE rib'[key]
      BY <1>1 DEF Old
    <3>3. RibHop(rib, ip) = IF key \in DOMAIN rib THEN rib[key] ELSE ParentHop(rib, key)
      BY <1>2, <1>3, <2>4, ExposedHop
    <3> QED BY <1>3, <2>1, <2>2, <2>4, <3>1, <3>2, <3>3
  <2> QED BY <2>3, <2>4
<1> QED BY <1>1, <1>2, <1>4, <1>5, <1>7, <1>8 DEF AgreeInv

\* A call that returns without a write.
LEMMA ReturnsAgree ==
  ASSUME IndInv, AgreeInv, op.pc = "idle", UNCHANGED <<type, tables, op, intact>>,
         RoutesOK(rib'),
         type = "DIR24_8" => \A ip \in Address : RibHop(rib', ip) = RibHop(rib, ip)
  PROVE  AgreeInv'
<1>1. Varied' /\ NoGroupLost'
  BY SameAnswers DEF AgreeInv
<1>2. Agreed'
  <2> SUFFICES ASSUME intact, type = "DIR24_8", NEW ip \in Address
               PROVE  TableHop(ip)' = Expected(ip)'
    BY DEF Agreed, Address, MAX_DEPTH
  <2>1. Expected(ip)' = RibHop(rib', ip) /\ Expected(ip) = RibHop(rib, ip)
    BY DEF Expected
  <2>2. TableHop(ip)' = TableHop(ip)
    BY SameAnswers
  <2> QED BY <2>1, <2>2 DEF AgreeInv, Agreed
<1>3. ~Busy' /\ op'.pc # "failed"
  BY DEF Busy
<1> QED BY <1>1, <1>2, <1>3 DEF AgreeInv

LEMMA RouteMasked ==
  ASSUME NoDefaultRoute, NEW r \in Routes, r.depth <= MAX_DEPTH
  PROVE  IsMasked(Masked(r)) /\ Masked(r).depth # 0
<1>1. r.ip \in Address /\ r.depth \in 0..MAX_DEPTH /\ r.depth # 0
  BY Dir24_8Assumption, DepthsAreNaturals DEF NoDefaultRoute
<1> QED BY <1>1, MaskedRoute

LEMMA AddAgrees ==
  ASSUME NoDefaultRoute, IndInv, AgreeInv, NEW r \in Routes, NEW hop \in NextHops,
         rte_fib_add(r, hop)
  PROVE  AgreeInv'
<1> DEFINE key == Masked(r)
<1>1. op.pc = "idle" /\ r.depth <= MAX_DEPTH /\ RoutesOK(rib)
  BY DEF rte_fib_add, dummy_add, RejectHop, AddSame, Change, AddRefused, Add, Called,
         AgreeInv
<1>2. IsMasked(key) /\ key.depth # 0
  BY <1>1, RouteMasked
<1> HIDE DEF key
<1>3. ASSUME rib' = rib, UNCHANGED <<type, tables, op, intact>> PROVE AgreeInv'
  BY <1>1, <1>3, ReturnsAgree
<1>4. DifferIn(rib, WithRule(rib, key, hop), key)
  BY <1>1, <1>2, RuleDiffers
<1>5. /\ key \in DOMAIN WithRule(rib, key, hop) /\ WithRule(rib, key, hop)[key] = hop
  BY DEF WithRule
<1>6. CASE dummy_add(r, hop)
  <2>1. CASE NoNode(r)
    BY <1>3, <2>1 DEF NoNode, Return
  <2>2. CASE ~NoNode(r)
    <3>1. /\ rib' = WithRule(rib, key, hop) /\ type = "DUMMY"
          /\ UNCHANGED <<type, tables, op, intact>>
      BY <1>6, <2>2 DEF dummy_add, Called, Return, key
    <3> QED BY <1>1, <1>4, <3>1, ReturnsAgree DEF DifferIn
  <2> QED BY <2>1, <2>2
<1>7. CASE RejectHop(r, hop) \/ AddSame(r, hop) \/ AddRefused(r, hop)
  BY <1>3, <1>7 DEF RejectHop, AddSame, AddRefused, NoNode, Return
<1>8. CASE Change(r, hop)
  <2>1. /\ modify_fib("change", key, hop, FALSE) /\ rib' = rib /\ type = "DIR24_8"
        /\ key \in DOMAIN rib
    BY <1>8 DEF Change, Called, key
  <2>2. DifferIn(rib, rib', key)
    BY <1>1, <2>1 DEF DifferIn
  <2> QED BY <1>1, <1>2, <2>1, <2>2, CallStarts
<1>9. CASE Add(r, hop)
  <2>1. /\ rib' = WithRule(rib, key, hop) /\ type = "DIR24_8" /\ key \notin DOMAIN rib
        /\ \/ SameAsAround(key, hop) /\ Return("ok")
           \/ modify_fib("add", key, hop, NeedsGroup(key))
    BY <1>9 DEF Add, Called, key
  <2>2. CASE SameAsAround(key, hop) /\ Return("ok")
    <3>1. ParentHop(rib, key) = hop
      BY <2>2 DEF SameAsAround
    <3>2. ParentHop(rib', key) = hop
      <4>1. key.depth \in Int
        BY <1>2, DepthsAreNaturals DEF IsMasked, Network
      <4>2. ParentHop(rib, key) = ParentHop(WithRule(rib, key, hop), key)
        BY <1>1, <1>4, <4>1, AroundKept DEF DifferIn
      <4> QED BY <2>1, <3>1, <4>2
    <3>3. DifferIn(rib', rib, key)
      BY <1>4, <2>1 DEF DifferIn
    <3>4. \A ip \in Address : RibHop(rib', ip) = RibHop(rib, ip)
      BY <1>2, <1>5, <2>1, <3>2, <3>3, SameAsParent
    <3> QED BY <1>1, <2>2, <3>3, <3>4, ReturnsAgree DEF Return, DifferIn
  <2>3. CASE modify_fib("add", key, hop, NeedsGroup(key))
    <3> DEFINE reserve == NeedsGroup(key)
    <3>1. modify_fib("add", key, hop, reserve)
      BY <2>3
    <3> HIDE DEF reserve
    <3> QED BY <1>1, <1>2, <1>4, <1>5, <2>1, <3>1, CallStarts
  <2> QED BY <2>1, <2>2, <2>3
<1> QED BY <1>6, <1>7, <1>8, <1>9 DEF rte_fib_add

LEMMA DeleteAgrees ==
  ASSUME NoDefaultRoute, IndInv, AgreeInv, NEW r \in Routes, rte_fib_delete(r)
  PROVE  AgreeInv'
<1> DEFINE key == Masked(r)
<1>1. op.pc = "idle" /\ r.depth <= MAX_DEPTH /\ RoutesOK(rib)
  BY DEF rte_fib_delete, dummy_delete, DeleteAbsent, Delete, Called, AgreeInv
<1>2. IsMasked(key) /\ key.depth # 0
  BY <1>1, RouteMasked
<1> HIDE DEF key
<1>3. DifferIn(rib, WithoutRules(rib, {key}), key) /\ key \notin DOMAIN WithoutRules(rib, {key})
  <2>1. key \notin DOMAIN WithoutRules(rib, {key})
    BY DEF WithoutRules
  <2> QED BY <1>1, <1>2, <2>1, RuleDiffers
<1>4. CASE dummy_delete(r)
  <2>1. /\ rib' = WithoutRules(rib, {key}) /\ type = "DUMMY"
        /\ UNCHANGED <<type, tables, op, intact>>
    BY <1>4 DEF dummy_delete, Called, Return, key
  <2> QED BY <1>1, <1>3, <2>1, ReturnsAgree DEF DifferIn
<1>5. CASE DeleteAbsent(r)
  <2>1. rib' = rib /\ UNCHANGED <<type, tables, op, intact>>
    BY <1>5 DEF DeleteAbsent, Return
  <2> QED BY <1>1, <2>1, ReturnsAgree
<1>6. CASE Delete(r) /\ SameAsAround(key, rib[key])
  <2>1. /\ rib' = WithoutRules(rib, {key}) /\ key \in DOMAIN rib
        /\ UNCHANGED <<type, tables, op, intact>>
    BY <1>6 DEF Delete, Removed, Return, key
  <2>2. rib[key] = ParentHop(rib, key)
    BY <1>6 DEF SameAsAround
  <2>3. \A ip \in Address : RibHop(rib, ip) = RibHop(rib', ip)
    BY <1>2, <1>3, <2>1, <2>2, SameAsParent
  <2> QED BY <1>1, <1>3, <2>1, <2>3, ReturnsAgree DEF DifferIn
<1>7. CASE Delete(r) /\ ~SameAsAround(key, rib[key])
  <2>1. /\ modify_fib("delete", key, ParentHop(rib, key), FALSE)
        /\ rib' = rib /\ key \in DOMAIN rib /\ type = "DIR24_8"
    BY <1>7 DEF Delete, Called, key
  <2> DEFINE hop == ParentHop(rib, key)
  <2>2. modify_fib("delete", key, hop, FALSE) /\ hop = ParentHop(rib, key)
    BY <2>1
  <2> HIDE DEF hop
  <2>3. DifferIn(rib, rib', key)
    BY <1>1, <2>1 DEF DifferIn
  <2> QED BY <1>1, <1>2, <2>1, <2>2, <2>3, CallStarts
<1> QED BY <1>4, <1>5, <1>6, <1>7 DEF rte_fib_delete, key

\* When an update returns, all of its network is done.
LEMMA SucceedAgrees ==
  ASSUME IndInv, AgreeInv, Succeed
  PROVE  AgreeInv'
<1>1. /\ op.pc = "gap" /\ op.last /\ op' = Idle /\ UNCHANGED <<type, tables, intact>>
      /\ op.call \in {"add", "change", "delete"}
  BY DEF Succeed
<1>2. /\ RoutesOK(rib) /\ CallOK /\ GapOK /\ BetweenGaps
      /\ op.key.depth \in Int /\ IsMasked(op.key) /\ op.key \in DOMAIN rib
  BY <1>1, DepthsAreNaturals DEF AgreeInv, Busy, GapOK, CallOK, IsMasked, Network
<1>3. /\ op.call = "add" => rib' = rib
      /\ op.call = "change" => rib' = WithRule(rib, op.key, op.hop)
      /\ op.call = "delete" => rib' = WithoutRules(rib, {op.key})
  BY DEF Succeed, Removed
<1>4. DifferIn(rib, rib', op.key)
  <2>1. op.call = "add" => DifferIn(rib, rib', op.key)
    BY <1>2, <1>3 DEF DifferIn
  <2> QED BY <1>1, <1>2, <1>3, <2>1, RuleDiffers
<1>5. Varied' /\ NoGroupLost'
  BY <1>1, SameAnswers DEF AgreeInv
<1>6. op'.pc = "idle" /\ ~Busy'
  BY <1>1 DEF Idle, Busy
<1>7. Agreed'
  <2> SUFFICES ASSUME intact, NEW ip \in Address PROVE TableHop(ip)' = RibHop(rib', ip)
    BY <1>1, <1>6 DEF Agreed, Expected, Address, MAX_DEPTH
  <2>1. TableHop(ip)' = Expected(ip)
    BY <1>1, TypeParts, SameAnswers DEF AgreeInv, Agreed, IndInv, OpOK
  <2>2. /\ ParentHop(rib, op.key) = ParentHop(rib', op.key)
        /\ Exposed(rib, op.key, ip) <=> Exposed(rib', op.key, ip)
    BY <1>2, <1>4, AroundKept DEF DifferIn
  <2>3. CASE ~Exposed(rib, op.key, ip)
    <3>1. RibHop(rib, ip) = RibHop(rib', ip)
      BY <1>2, <1>4, <2>3, CoveredHop DEF DifferIn
    <3> QED BY <1>1, <2>1, <2>3, <3>1 DEF Expected
  <2>4. CASE Exposed(rib, op.key, ip)
    <3>1. Done(ip)
      <4>1. ip < Past(op.key)
        BY <1>2, <2>4, HoldsInterval DEF Exposed
      <4> QED BY <1>1, <1>2, <4>1 DEF BetweenGaps, Done
    <3>2. Expected(ip) = op.hop
      BY <1>1, <2>4, <3>1 DEF Expected
    <3>3. RibHop(rib', ip) = IF op.key \in DOMAIN rib' THEN rib'[op.key]
                             ELSE ParentHop(rib', op.key)
      BY <1>2, <1>4, <2>2, <2>4, ExposedHop DEF DifferIn
    <3>4. CASE op.call = "add"
      BY <1>2, <1>3, <2>1, <3>2, <3>3, <3>4 DEF CallOK
    <3>5. CASE op.call = "change"
      <4>1. op.key \in DOMAIN rib' /\ rib'[op.key] = op.hop
        BY <1>3, <3>5 DEF WithRule
      <4> QED BY <2>1, <3>2, <3>3, <4>1
    <3>6. CASE op.call = "delete"
      <4>1. op.key \notin DOMAIN rib'
        BY <1>3, <3>6 DEF WithoutRules
      <4> QED BY <1>2, <2>1, <2>2, <3>2, <3>3, <3>6, <4>1 DEF CallOK
    <3> QED BY <1>1, <3>4, <3>5, <3>6
  <2> QED BY <2>3, <2>4
<1> QED BY <1>1, <1>4, <1>5, <1>6, <1>7 DEF AgreeInv, DifferIn, Idle

\* Failing gives up agreement, not the links.
LEMMA FailingAgrees ==
  ASSUME IndInv, AgreeInv, OutOfGroups \/ Fail
  PROVE  AgreeInv'
<1>1. RoutesOK(rib) /\ Varied /\ LinkedGroupsTaken /\ TablesOK /\ op \in Call
  BY TypeParts DEF AgreeInv, IndInv, OpOK
<1>2. CASE OutOfGroups
  <2>1. op'.pc = "failed" /\ ~intact' /\ rib' = rib /\ UNCHANGED <<tbl24, tbl8_idxes>>
    BY <1>1, <1>2 DEF OutOfGroups, Local, tables, Call
  <2>2. \A c \in Linked : tbl8'[tbl24[c].val] = tbl8[tbl24[c].val]
    <3>1. CASE UNCHANGED tables
      BY <3>1 DEF tables
    <3>2. CASE ~UNCHANGED tables
      <4> DEFINE fill == [s \in Slots |-> tbl24[get_tbl24_idx(IF op.pc = "right" THEN op.redge
                                                              ELSE op.ledge)].val]
      <4>1. Cardinality(Free) = 1 /\ tbl8' = [tbl8 EXCEPT ![tbl8_get_idx] = fill]
        BY <1>2, <3>2 DEF OutOfGroups
      <4>2. tbl8_get_idx \in Free
        BY <4>1, FS_EmptySet, AllocatedIsFree
      <4> HIDE DEF fill
      <4>3. \A c \in Linked : tbl24[c].val \in Groups /\ tbl24[c].val # tbl8_get_idx
        BY <1>1, <4>2 DEF LinkedGroupsTaken, Free, TablesOK, Linked
      <4> QED BY <1>1, <4>1, <4>3 DEF TablesOK
    <3> QED BY <3>1, <3>2
  <2>3. Varied'
    BY <1>1, <2>1, <2>2 DEF Varied, Linked, Recyclable
  <2>4. ~Busy'
    BY <2>1 DEF Busy
  <2> QED BY <1>1, <2>1, <2>3, <2>4 DEF AgreeInv, Agreed, NoGroupLost
<1>3. CASE Fail
  <2>1. /\ op' = Idle /\ ~intact' /\ UNCHANGED tables
        /\ DOMAIN rib' \subseteq DOMAIN rib
    BY <1>3 DEF Fail, AgreeInv, WithoutRules
  <2>2. Varied'
    BY <1>1, <2>1, SameAnswers
  <2>3. RoutesOK(rib')
    BY <1>1, <2>1 DEF RoutesOK
  <2>4. op'.pc = "idle" /\ ~Busy'
    BY <2>1 DEF Idle, Busy
  <2> QED BY <2>1, <2>2, <2>3, <2>4 DEF AgreeInv, Agreed, NoGroupLost
<1> QED BY <1>2, <1>3

-----------------------------------------------------------------------------
(* The theorems *)

\* What an update may do to the answers of lookups beside it.
NoStrayWrite ==
  intact' => \A ip \in Address :
    TableHop(ip)' # TableHop(ip) =>
      /\ TableHop(ip)' = op.hop
      /\ Holds(op.key, ip)
      /\ \A q \in Longer(rib, op.key) : ~Holds(q, ip)

LEMMA CreateAgrees == rte_fib_create => AgreeInv
<1> SUFFICES ASSUME rte_fib_create PROVE AgreeInv
  OBVIOUS
<1>1. /\ op.pc = "idle" /\ rib = NoRules /\ DOMAIN rib = {} /\ intact = TRUE
      /\ \A c \in Cells : tbl24[c] = Leaf(DEF_NH)
  BY DEF rte_fib_create, Idle, NoRules
<1>2. ~Leaf(DEF_NH).ext /\ Leaf(DEF_NH).val = DEF_NH
  <2>1. DEF_NH \in Nat /\ DEF_NH < MAX_NH + 1
    BY Sizes DEF Hops
  <2>2. DEF_NH % (MAX_NH + 1) = DEF_NH
    BY <2>1, Sizes
  <2> QED BY <2>2 DEF Leaf
<1>3. Linked = {}
  BY <1>1, <1>2 DEF Linked
<1>4. NoGroupLost
  BY <1>3, FS_EmptySet DEF NoGroupLost, rte_fib_create
<1>5. Agreed
  <2> SUFFICES ASSUME NEW ip \in Address PROVE TableHop(ip) = Expected(ip)
    BY DEF Agreed
  <2>1. TableHop(ip) = DEF_NH
    BY <1>1, <1>2, IndexOfAddress DEF TableHop
  <2>2. Expected(ip) = DEF_NH
    BY <1>1 DEF Expected, RibHop, Matching
  <2> QED BY <2>1, <2>2
<1> QED BY <1>1, <1>3, <1>4, <1>5 DEF AgreeInv, RoutesOK, Varied, Busy

LEMMA StepAgrees ==
  ASSUME IndInv, AgreeInv, Step
  PROVE  AgreeInv' /\ [NoStrayWrite]_<<tbl24, tbl8>>
<1>1. CASE NextGap \/ LastGap
  <2>1. GapOK' /\ Agreed' /\ Continued /\ UNCHANGED tables
    BY <1>1, NextGapAgrees, LastGapAgrees DEF NextGap, LastGap
  <2>2. Varied' /\ NoGroupLost'
    BY <2>1, SameAnswers DEF AgreeInv, Continued
  <2>3. CallOK
    BY <1>1 DEF AgreeInv, Busy, NextGap, LastGap
  <2>4. CallOK' /\ op'.pc # "failed" /\ RoutesOK(rib')
    BY <2>1, <2>3 DEF CallOK, Continued, AgreeInv
  <2> QED BY <2>1, <2>2, <2>4 DEF AgreeInv, tables
<1>2. CASE WriteLeft \/ WriteMiddle \/ WriteRight \/ WriteInside
  <2>1. (\E W : Writes(W)) /\ GapOK' /\ Varied'
    BY <1>2, LeftWrites, MiddleWrites, LastEdgeWrites
  <2>2. PICK W : Writes(W)
    BY <2>1
  <2>3. Busy /\ CallOK
    BY <1>2 DEF AgreeInv, Busy, WriteLeft, WriteMiddle, WriteRight, WriteInside
  <2>4. Agreed'
    BY <2>2, <2>3, Written DEF Writes
  <2>5. CallOK' /\ op'.pc # "failed" /\ RoutesOK(rib')
    BY <2>2, <2>3 DEF CallOK, Continued, AgreeInv, Writes
  <2>6. NoStrayWrite
    BY <2>2 DEF NoStrayWrite, Writes, Exposed
  <2> QED BY <1>2, <2>1, <2>4, <2>5, <2>6, PiecesCount DEF AgreeInv
<1>3. CASE OutOfGroups
  <2>1. ~intact'
    BY <1>3 DEF OutOfGroups
  <2> QED BY <1>3, <2>1, FailingAgrees DEF NoStrayWrite
<1>4. CASE Succeed \/ Fail
  <2>1. UNCHANGED tables
    BY <1>4 DEF Succeed, Fail
  <2> QED BY <1>4, <2>1, SucceedAgrees, FailingAgrees DEF tables
<1> QED BY <1>1, <1>2, <1>3, <1>4 DEF Step

LEMMA NextAgrees ==
  ASSUME NoDefaultRoute
  PROVE  IndInv /\ AgreeInv /\ [Next]_vars =>
           AgreeInv' /\ [NoStrayWrite]_<<tbl24, tbl8>>
<1> SUFFICES ASSUME IndInv, AgreeInv, [Next]_vars
             PROVE  AgreeInv' /\ [NoStrayWrite]_<<tbl24, tbl8>>
  OBVIOUS
<1>1. ASSUME NEW r \in Routes,
             RejectDepth(r) \/ (\E hop \in NextHops : rte_fib_add(r, hop)) \/ rte_fib_delete(r)
      PROVE  AgreeInv' /\ UNCHANGED tables
  <2>1. CASE RejectDepth(r)
    <3>1. op.pc = "idle" /\ rib' = rib /\ UNCHANGED <<type, tables, op, intact>>
      BY <2>1 DEF RejectDepth, Return
    <3> QED BY <3>1, ReturnsAgree DEF AgreeInv
  <2>2. CASE \E hop \in NextHops : rte_fib_add(r, hop)
    <3>1. UNCHANGED tables
      BY <2>2 DEF rte_fib_add, dummy_add, RejectHop, AddSame, Change, AddRefused, Add,
                  NoNode, Return, modify_fib
    <3> QED BY <2>2, <3>1, AddAgrees
  <2>3. CASE rte_fib_delete(r)
    <3>1. UNCHANGED tables
      BY <2>3 DEF rte_fib_delete, dummy_delete, DeleteAbsent, Delete, Return, modify_fib
    <3> QED BY <2>3, <3>1, DeleteAgrees
  <2> QED BY <1>1, <2>1, <2>2, <2>3
<1>2. CASE \E ip \in Probes : rte_fib_lookup_bulk(ip)
  <2>1. op.pc = "idle" /\ rib' = rib /\ UNCHANGED <<type, tables, op, intact>>
    BY <1>2 DEF rte_fib_lookup_bulk
  <2> QED BY <2>1, ReturnsAgree DEF AgreeInv, tables
<1>3. CASE Step
  BY <1>3, StepAgrees
<1>4. CASE UNCHANGED vars
  <2>1. AgreeInv'
    <3>1. UNCHANGED <<type, rib, tables, op, intact>>
      BY <1>4 DEF vars
    <3>2. Varied' /\ NoGroupLost'
      BY <3>1, SameAnswers DEF AgreeInv
    <3>3. Agreed'
      <4>1. \A ip : Expected(ip)' = Expected(ip)
        BY <3>1 DEF Expected, Done, Old, Place, get_tbl24_idx
      <4> QED BY <3>1, <4>1, SameAnswers
              DEF AgreeInv, Agreed, Address, MAX_DEPTH
    <3>4. /\ Busy' <=> Busy
          /\ CallOK' <=> CallOK
          /\ GapOK' <=> GapOK
      BY <3>1 DEF Busy, CallOK, GapOK, BetweenGaps, InGap, Place, get_tbl24_idx, SlotOf
    <3> QED BY <3>1, <3>2, <3>3, <3>4 DEF AgreeInv
  <2> QED BY <1>4, <2>1 DEF vars, tables
<1> QED BY <1>1, <1>2, <1>3, <1>4 DEF Next, tables

LEMMA AgreeInvariant ==
  ASSUME NoDefaultRoute
  PROVE  Spec => [](IndInv /\ AgreeInv)
BY CreateEstablishesInv, CreateAgrees, NextKeepsInv, NextAgrees, PTL DEF Spec

LEMMA AgreeInvSuffices ==
  IndInv /\ AgreeInv => LookupAgrees /\ NoGroupLost
<1> SUFFICES ASSUME IndInv, AgreeInv, op.pc = "idle", intact, NEW ip \in Address
             PROVE  LookupHop(ip) = RibHop(rib, ip)
  BY DEF AgreeInv, LookupAgrees
<1>1. type \in {"DUMMY", "DIR24_8"}
  BY TypeParts, Dir24_8Assumption DEF IndInv
<1>2. CASE type = "DUMMY"
  BY <1>2 DEF LookupHop
<1>3. CASE type = "DIR24_8"
  BY <1>3 DEF LookupHop, AgreeInv, Agreed, Expected
<1> QED BY <1>1, <1>2, <1>3

\* After every history of insertions, changes and deletions, between calls,
\* each address is answered as the RIB does, for callers that use no default
\* route and as long as no update has run out of groups (dir24_8_modify,
\* modify_fib, install_to_fib).
THEOREM LookupsAgree ==
  ASSUME NoDefaultRoute
  PROVE  Spec => []LookupAgrees
BY AgreeInvariant, AgreeInvSuffices, PTL

\* In the middle of an update, a step changes an answer only to the next hop
\* that is written, and only under the route and outside its longer routes
\* (install_to_fib, write_to_fib, tbl8_recycle).
THEOREM UpdatesStayInTheirGaps ==
  ASSUME NoDefaultRoute
  PROVE  Spec => NoStrayWrites
<1>1. IndInv /\ AgreeInv /\ [Next]_vars => [NoStrayWrite]_<<tbl24, tbl8>>
  BY NextAgrees
<1> QED BY <1>1, AgreeInvariant, PTL DEF Spec, NoStrayWrites, NoStrayWrite

\* The groups in use are the linked ones, and cur_tbl8s counts them: neither
\* writing a gap over linked entries nor folding a group back loses one
\* (tbl8_alloc, tbl8_free, install_to_fib).
THEOREM NoGroupIsLost ==
  ASSUME NoDefaultRoute
  PROVE  Spec => []NoGroupLost
BY AgreeInvariant, AgreeInvSuffices, PTL

-----------------------------------------------------------------------------
(* Entries without longer routes *)

LEMMA CellIs ==
  ASSUME NEW c \in Cells
  PROVE  /\ IsMasked(Cell(c)) /\ Cell(c).ip = GRP_NUM_ENT * c
         /\ Past(Cell(c)) = GRP_NUM_ENT * c + GRP_NUM_ENT
         /\ \A ip \in Address : Holds(Cell(c), ip) <=> get_tbl24_idx(ip) = c
<1> DEFINE n == GRP_NUM_ENT
<1>1. n \in Nat \ {0} /\ c \in Nat /\ n * c \in Nat /\ c * n = n * c
  BY Sizes DEF Cells
<1>2. TOP_BITS \in 0..MAX_DEPTH /\ Size(TOP_BITS) = n
  BY Dir24_8Assumption, DepthsAreNaturals DEF Size, GRP_NUM_ENT, TBL8_BITS
<1>3. Cell(c).ip = n * c /\ Cell(c).depth = TOP_BITS
  BY <1>1 DEF Cell
<1>4. n * c \in Address
  <2>1. 0 \in Slots
    BY Sizes
  <2>2. PICK a \in Address : get_tbl24_idx(a) = c /\ SlotOf(a) = 0
    BY <2>1, AddressOf
  <2>3. a \in Nat
    BY DEF Address
  <2>4. a = n * c + 0
    BY <2>2, <2>3, IndexAndSlot
  <2> HIDE DEF n
  <2> QED BY <1>1, <2>4
<1> HIDE DEF n
<1>5. ASSUME NEW ip \in Address, NEW d \in Int, n * d <= ip, ip < n * d + n
      PROVE  ip6_mask_addr(ip, TOP_BITS) = n * d
  <2>1. Size(TOP_BITS) * d <= ip /\ ip < Size(TOP_BITS) * d + Size(TOP_BITS)
    BY <1>2, <1>5
  <2>2. ip6_mask_addr(ip, TOP_BITS) = Size(TOP_BITS) * d
    BY <1>2, <2>1, MaskFrom
  <2> QED BY <1>2, <2>2
<1>6. IsMasked(Cell(c))
  <2>1. ip6_mask_addr(n * c, TOP_BITS) = n * c
    <3> DEFINE a == n * c
    <3>1. a \in Address /\ n * c <= a /\ a < n * c + n /\ c \in Int
      BY <1>1, <1>4
    <3> HIDE DEF a
    <3>2. ip6_mask_addr(a, TOP_BITS) = n * c
      BY <1>5, <3>1
    <3> QED BY <3>2 DEF a
  <2> QED BY <1>1, <1>2, <1>4, <2>1 DEF Cell, IsMasked, Network, n
<1>7. Past(Cell(c)) = n * c + n
  BY <1>2, <1>3 DEF Past
<1>8. ASSUME NEW ip \in Address PROVE Holds(Cell(c), ip) <=> get_tbl24_idx(ip) = c
  <2> DEFINE d == get_tbl24_idx(ip)
  <2>1. d \in Nat /\ SlotOf(ip) \in 0..(n - 1) /\ ip = n * d + SlotOf(ip) /\ n * d \in Nat
    BY IndexAndSlot DEF Address, n
  <2> HIDE DEF d
  <2>2. n * d <= ip /\ ip < n * d + n
    BY <1>1, <2>1
  <2>3. ip6_mask_addr(ip, TOP_BITS) = n * d
    BY <1>5, <2>1, <2>2
  <2>4. n * d = n * c <=> d = c
    BY <1>1, <2>1
  <2> QED BY <1>3, <2>3, <2>4 DEF Holds, d
<1> QED BY <1>3, <1>6, <1>7, <1>8 DEF n

\* An address that is not the first of its entry only starts or ends a route
\* that is longer than the entry.
Divides(R, a) == SlotOf(a) # 0 => Longer(R, Cell(get_tbl24_idx(a))) # {}

LEMMA RoutesDivide ==
  ASSUME NEW R, RoutesOK(R), NEW q \in DOMAIN R
  PROVE  Divides(R, q.ip) /\ Divides(R, End(q))
<1>1. IsMasked(q) /\ q \in Network
  BY DEF RoutesOK, IsMasked
<1>2. ASSUME NEW a \in Address, a = q.ip \/ a = Past(q), SlotOf(a) # 0
      PROVE  Longer(R, Cell(get_tbl24_idx(a))) # {}
  <2> DEFINE n == GRP_NUM_ENT
             c == get_tbl24_idx(a)
  <2>1. /\ c \in Cells /\ n \in Nat /\ n * c \in Nat /\ a = n * c + SlotOf(a)
        /\ SlotOf(a) \in 0..(n - 1)
    BY IndexOfAddress, IndexAndSlot, Sizes DEF Address
  <2> HIDE DEF n, c
  <2>2. n * c < a /\ a < n * c + n
    BY <1>2, <2>1
  <2>3. IsMasked(Cell(c)) /\ Cell(c).ip = n * c /\ Past(Cell(c)) = n * c + n
    BY <2>1, CellIs DEF n
  <2>4. q \in Longer(R, Cell(c))
    BY <1>2, <2>2, <2>3, EdgeWithin
  <2> QED BY <2>4 DEF c
<1>3. Divides(R, q.ip)
  BY <1>1, <1>2 DEF Divides, Network
<1>4. Divides(R, End(q))
  <2>1. End(q) \in Address /\ End(q) = IF Past(q) = 2 ^ MAX_DEPTH THEN 0 ELSE Past(q)
    BY <1>1, EndAddress, NetworkEndIs
  <2>2. SlotOf(0) = 0
    <3>1. GRP_NUM_ENT * 0 + 0 = 0 /\ 0 \in 0..(GRP_NUM_ENT - 1)
      BY Sizes
    <3> QED BY <3>1, IndexOf
  <2>3. CASE Past(q) = 2 ^ MAX_DEPTH
    BY <2>1, <2>2, <2>3 DEF Divides
  <2>4. CASE Past(q) # 2 ^ MAX_DEPTH
    BY <1>2, <2>1, <2>4 DEF Divides
  <2> QED BY <2>3, <2>4
<1> QED BY <1>3, <1>4

\* The edges of a gap are edges of routes.
EdgesKnown ==
  Busy => /\ Divides(rib, op.ledge)
          /\ op.pc # "gap" => Divides(rib, op.redge)

\* The dummy data plane leaves the tables as they were created.
DummyUntouched == type = "DUMMY" => Linked = {}

EdgeInv == IndInv /\ AgreeInv /\ EdgesKnown /\ DummyUntouched

\* What one call or step may do to the edges.
LEMMA EdgesStep ==
  ASSUME IndInv, [Next]_vars
  PROVE  \/ op'.pc \in {"idle", "failed"}
         \/ op'.pc = "gap" /\ op'.ledge = op'.key.ip
         \/ UNCHANGED <<rib, op>>
         \/ NextGap \/ LastGap
         \/ WriteLeft \/ WriteMiddle \/ WriteRight \/ WriteInside
<1>1. op \in Call
  BY TypeParts DEF IndInv, OpOK
<1>2. ASSUME NEW r \in Routes,
             RejectDepth(r) \/ (\E hop \in NextHops : rte_fib_add(r, hop)) \/ rte_fib_delete(r)
      PROVE  op'.pc = "idle" \/ (op'.pc = "gap" /\ op'.ledge = op'.key.ip)
  <2>2. ASSUME NEW call, NEW key, NEW hop, NEW reserve, modify_fib(call, key, hop, reserve)
        PROVE  op'.pc = "gap" /\ op'.ledge = op'.key.ip
    BY <2>2 DEF modify_fib, Idle
  <2>3. CASE RejectDepth(r)
    BY <2>3 DEF RejectDepth, Return
  <2>4. CASE \E hop \in NextHops : rte_fib_add(r, hop)
    <3>1. PICK hop \in NextHops : rte_fib_add(r, hop)
      BY <2>4
    <3>2. CASE dummy_add(r, hop) \/ RejectHop(r, hop) \/ AddSame(r, hop) \/ AddRefused(r, hop)
      BY <3>2 DEF dummy_add, RejectHop, AddSame, AddRefused, NoNode, Called, Return
    <3>3. CASE Change(r, hop)
      BY <2>2, <3>3 DEF Change
    <3>4. CASE Add(r, hop)
      <4>1. op.pc = "idle" /\ (Return("ok") \/ modify_fib("add", Masked(r), hop, NeedsGroup(Masked(r))))
        BY <3>4 DEF Add, Called
      <4> DEFINE key == Masked(r)
                 reserve == NeedsGroup(key)
      <4>2. CASE Return("ok")
        BY <4>1, <4>2 DEF Return
      <4>3. CASE modify_fib("add", key, hop, reserve)
        <5> HIDE DEF key, reserve
        <5> QED BY <2>2, <4>3
      <4> QED BY <4>1, <4>2, <4>3
    <3> QED BY <3>1, <3>2, <3>3, <3>4 DEF rte_fib_add
  <2>5. CASE rte_fib_delete(r)
    <3> DEFINE key == Masked(r)
               hop == ParentHop(rib, key)
    <3>1. op.pc = "idle" /\ (op' = op \/ modify_fib("delete", key, hop, FALSE))
      BY <2>5 DEF rte_fib_delete, dummy_delete, DeleteAbsent, Delete, Called, Return
    <3> HIDE DEF key, hop
    <3> QED BY <2>2, <3>1
  <2> QED BY <1>2, <2>3, <2>4, <2>5
<1>3. CASE OutOfGroups \/ Succeed \/ Fail
  BY <1>1, <1>3 DEF OutOfGroups, Succeed, Fail, Idle, Call
<1>4. CASE (\E ip \in Probes : rte_fib_lookup_bulk(ip)) \/ UNCHANGED vars
  BY <1>4 DEF rte_fib_lookup_bulk, vars
<1> QED BY <1>2, <1>3, <1>4 DEF Next, Step

LEMMA EdgesKept ==
  ASSUME IndInv, AgreeInv, EdgesKnown, AgreeInv', [Next]_vars
  PROVE  EdgesKnown'
<1>1. op \in Call
  BY TypeParts DEF IndInv, OpOK
<1>2. CASE op'.pc \in {"idle", "failed"}
  BY <1>2 DEF EdgesKnown, Busy
<1>3. CASE op'.pc = "gap" /\ op'.ledge = op'.key.ip
  <2>1. op'.key \in DOMAIN rib' /\ RoutesOK(rib')
    BY <1>3 DEF AgreeInv, Busy, CallOK
  <2>2. Divides(rib', op'.ledge)
    BY <1>3, <2>1, RoutesDivide
  <2> QED BY <1>3, <2>2 DEF EdgesKnown, Divides, Cell, SlotOf, get_tbl24_idx
<1>4. CASE UNCHANGED <<rib, op>>
  BY <1>4 DEF EdgesKnown, Busy, Divides, SlotOf, get_tbl24_idx
<1>5. ASSUME rib' = rib, Busy, Divides(rib, op'.ledge),
             op'.pc # "gap" => Divides(rib, op'.redge)
      PROVE  EdgesKnown'
  BY <1>5 DEF EdgesKnown, Divides, SlotOf, get_tbl24_idx
<1>6. CASE NextGap
  <2> DEFINE q == First(op.todo)
             piece == FirstPiece(op.ledge, q.ip)
  <2>1. /\ op' = IF op.ledge = q.ip
                 THEN [op EXCEPT !.ledge = StepOver(q), !.todo = @ \ {q}]
                 ELSE [op EXCEPT !.pc = piece, !.redge = q.ip]
        /\ rib' = rib /\ Busy /\ op.pc = "gap"
        /\ op.todo # {} /\ op.todo \in SUBSET Network
    BY <1>1, <1>6 DEF NextGap, Local, Busy, Call
  <2>2. q \in op.todo
    BY <2>1, FirstIsMember
  <2> HIDE DEF q, piece
  <2>3. q \in DOMAIN rib /\ RoutesOK(rib)
    BY <2>1, <2>2 DEF AgreeInv, GapOK, Nearest, Longer
  <2>4. Divides(rib, q.ip) /\ Divides(rib, StepOver(q)) /\ Divides(rib, op.ledge)
    BY <2>1, <2>3, RoutesDivide DEF StepOver, EdgesKnown
  <2>5. CASE op.ledge = q.ip
    BY <1>1, <1>5, <2>1, <2>4, <2>5 DEF Call
  <2>6. CASE op.ledge # q.ip
    BY <1>1, <1>5, <2>1, <2>4, <2>6 DEF Call
  <2> QED BY <2>5, <2>6
<1>7. CASE LastGap
  <2> DEFINE end == End(op.key)
             piece == FirstPiece(op.ledge, end)
  <2>1. /\ op' = IF op.ledge = end
                 THEN [op EXCEPT !.last = TRUE]
                 ELSE [op EXCEPT !.pc = piece, !.redge = end, !.last = TRUE]
        /\ rib' = rib /\ Busy /\ op.pc = "gap"
    BY <1>7 DEF LastGap, Local, Busy
  <2>2. op.key \in DOMAIN rib /\ RoutesOK(rib)
    BY <2>1 DEF AgreeInv, CallOK
  <2>3. Divides(rib, end) /\ Divides(rib, op.ledge)
    BY <2>1, <2>2, RoutesDivide DEF EdgesKnown
  <2> HIDE DEF end, piece
  <2>4. CASE op.ledge = end
    BY <1>1, <1>5, <2>1, <2>3, <2>4 DEF Call
  <2>5. CASE op.ledge # end
    BY <1>1, <1>5, <2>1, <2>3, <2>5 DEF Call
  <2> QED BY <2>4, <2>5
<1>8. CASE WriteLeft \/ WriteMiddle \/ WriteRight \/ WriteInside
  <2>1. /\ rib' = rib /\ Busy /\ op.pc # "gap"
        /\ \/ op' = [op EXCEPT !.pc = "middle"]
           \/ op' = [op EXCEPT !.pc = "right"]
           \/ op' = [op EXCEPT !.pc = "gap", !.ledge = op.redge]
    BY <1>8 DEF WriteLeft, WriteMiddle, WriteRight, WriteInside, GapDone, Local, Busy
  <2>2. Divides(rib, op.ledge) /\ Divides(rib, op.redge)
    BY <2>1 DEF EdgesKnown
  <2>3. CASE op' = [op EXCEPT !.pc = "middle"] \/ op' = [op EXCEPT !.pc = "right"]
    BY <1>1, <1>5, <2>1, <2>2, <2>3 DEF Call
  <2>4. CASE op' = [op EXCEPT !.pc = "gap", !.ledge = op.redge]
    BY <1>1, <1>5, <2>1, <2>2, <2>4 DEF Call
  <2> QED BY <2>1, <2>3, <2>4
<1> QED BY <1>2, <1>3, <1>4, <1>6, <1>7, <1>8, EdgesStep


LEMMA DummyKept ==
  ASSUME IndInv, DummyUntouched, [Next]_vars
  PROVE  DummyUntouched'
<1>1. type' = type
  BY DEF Next, rte_fib_add, dummy_add, RejectHop, AddSame, Change, AddRefused, Add, NoNode,
         rte_fib_delete, dummy_delete, DeleteAbsent, Delete, RejectDepth, Return, modify_fib,
         rte_fib_lookup_bulk, Step, NextGap, LastGap, WriteLeft, WriteMiddle, WriteRight,
         WriteInside, OutOfGroups, Succeed, Fail, Local, vars
<1>2. SUFFICES ASSUME type = "DUMMY" PROVE UNCHANGED tables
  BY <1>1 DEF DummyUntouched, Linked, tables
<1>3. op.pc = "idle"
  BY <1>2, TypeParts DEF IndInv, OpOK
<1>4. ~Step
  BY <1>3 DEF Step, NextGap, LastGap, WriteLeft, WriteMiddle, WriteRight, WriteInside,
              OutOfGroups, Succeed, Fail
<1> QED
  BY ZenonT(30), <1>4 DEF Next, rte_fib_add, dummy_add, RejectHop, AddSame, Change, AddRefused, Add, NoNode,
              rte_fib_delete, dummy_delete, DeleteAbsent, Delete, RejectDepth, Return,
              modify_fib, rte_fib_lookup_bulk, vars, tables

\* In the middle of an update, too, every linked entry has a longer route:
\* what is written changes at the edges of routes only.
LEMMA LinkedReserve ==
  ASSUME EdgeInv, intact
  PROVE  Linked \subseteq Reserving
<1> SUFFICES ASSUME NEW c \in Linked, Longer(rib, Cell(c)) = {} PROVE FALSE
  BY DEF Reserving, Linked
<1>1. /\ IndInv /\ AgreeInv /\ EdgesKnown /\ RoutesOK(rib) /\ Varied /\ c \in Cells
      /\ type = "DIR24_8" /\ op \in Call /\ op.pc # "failed"
  BY TypeParts, Dir24_8Assumption
  DEF EdgeInv, IndInv, DummyUntouched, AgreeInv, Linked, OpOK
<1>2. PICK a \in Address, b \in Address :
        get_tbl24_idx(a) = c /\ get_tbl24_idx(b) = c /\ TableHop(a) # TableHop(b)
  BY <1>1, VariedEntry
<1>3. IsMasked(Cell(c)) /\ Holds(Cell(c), a) /\ Holds(Cell(c), b)
  BY <1>1, <1>2, CellIs
<1>4. /\ RibHop(rib, a) = RibHop(rib, b)
      /\ \A key \in DOMAIN rib : Exposed(rib, key, a) <=> Exposed(rib, key, b)
  BY <1>1, <1>3, Undivided
<1>5. TableHop(a) = Expected(a) /\ TableHop(b) = Expected(b)
  BY <1>1 DEF AgreeInv, Agreed
<1>6. CASE op.pc = "idle"
  BY <1>2, <1>4, <1>5, <1>6 DEF Expected
<1>7. CASE op.pc # "idle"
  <2>1. Busy /\ CallOK /\ op.ledge \in Nat /\ op.ledge < 2 ^ MAX_DEPTH
    BY <1>1, <1>7, KeyFacts DEF Busy, AgreeInv
  <2>2. Divides(rib, op.ledge)
    BY <1>1, <2>1 DEF EdgesKnown
  <2>3. ASSUME NEW x \in Nat, SlotOf(x) = 0 \/ get_tbl24_idx(x) # c
        PROVE  a < x <=> b < x
    <3>1. /\ get_tbl24_idx(x) \in Nat /\ c \in Nat
          /\ Order(a, x) /\ Order(b, x) /\ SlotOf(a) \in Nat /\ SlotOf(b) \in Nat
      BY <1>2, IndexAndSlot, Ordered
    <3>2. SlotOf(x) = 0 => ~(SlotOf(a) < SlotOf(x)) /\ ~(SlotOf(b) < SlotOf(x))
      BY <3>1
    <3> QED BY <1>2, <2>3, <3>1, <3>2 DEF Order
  <2>4. a < op.ledge <=> b < op.ledge
    BY <2>1, <2>2, <2>3 DEF Divides
  <2>5. a < Place(op.ledge) <=> b < Place(op.ledge)
    <3>1. CASE Place(op.ledge) = op.ledge
      BY <2>4, <3>1
    <3>2. CASE Place(op.ledge) # op.ledge
      <4>1. SlotOf(Place(op.ledge)) = 0 /\ Place(op.ledge) \in Nat
        BY <1>1, <2>1, <3>2, IndexOfPlace, KeyFacts
      <4> QED BY <2>3, <4>1
    <3> QED BY <3>1, <3>2
  <2>6. Done(a) <=> Done(b)
    BY <1>2, <2>4, <2>5 DEF Done
  <2>7. Expected(a) = Expected(b)
    BY <1>4, <2>1, <2>6 DEF Expected, CallOK
  <2> QED BY <1>2, <1>5, <2>7
<1> QED BY <1>6, <1>7

LEMMA LinkedCount ==
  ASSUME IndInv, GroupsInUse
  PROVE  /\ IsFiniteSet(Linked) /\ Cardinality(Linked) \in Nat
         /\ Cardinality(Free) = number_tbl8s - Cardinality(Linked)
<1>1. TablesOK /\ LinkedGroupsTaken /\ number_tbl8s \in Nat
  BY TypeParts, Sizes DEF IndInv
<1>2. /\ IsFiniteSet(Groups) /\ Cardinality(Groups) = number_tbl8s
      /\ tbl8_idxes \in SUBSET Groups /\ IsFiniteSet(tbl8_idxes)
  <2>1. IsFiniteSet(Groups) /\ Cardinality(Groups) = number_tbl8s
    BY <1>1, FS_Interval DEF Groups
  <2> QED BY <1>1, <2>1, FS_Subset DEF TablesOK
<1>3. Cardinality(Free) = number_tbl8s - Cardinality(tbl8_idxes)
  <2>1. Groups \cap tbl8_idxes = tbl8_idxes
    BY <1>2
  <2> QED BY <1>2, <2>1, FS_Difference DEF Free
<1>4. /\ IsFiniteSet(Linked) /\ Cardinality(tbl8_idxes) = Cardinality(Linked)
  <2> DEFINE f == [c \in Linked |-> tbl24[c].val]
  <2>1. f \in [Linked -> tbl8_idxes]
    BY DEF GroupsInUse
  <2>2. \A g \in tbl8_idxes : \E c \in Linked : f[c] = g
    BY DEF GroupsInUse
  <2>3. \A c, d \in Linked : f[c] = f[d] => c = d
    BY <1>1 DEF LinkedGroupsTaken
  <2> HIDE DEF f
  <2>4. f \in Injection(Linked, tbl8_idxes) /\ f \in Surjection(Linked, tbl8_idxes)
    BY <2>1, <2>2, <2>3 DEF Injection, IsInjective, Surjection
  <2> QED BY <1>2, <2>4, FS_Injection
<1> QED BY <1>3, <1>4, FS_CardinalityType

LEMMA DryOnlyWhenFull ==
  ASSUME EdgeInv, [Next]_vars, intact, ~intact'
  PROVE  Cardinality(Reserving) + Cardinality(Free) > number_tbl8s
<1>1. OutOfGroups
  BY ZenonT(30) DEF Next, rte_fib_add, dummy_add, RejectHop, AddSame, Change, AddRefused, Add, NoNode,
         rte_fib_delete, dummy_delete, DeleteAbsent, Delete, RejectDepth, Return, modify_fib,
         rte_fib_lookup_bulk, Step, NextGap, LastGap, WriteLeft, WriteMiddle, WriteRight,
         WriteInside, Succeed, Fail, Local, vars
<1> DEFINE edge == IF op.pc = "right" THEN op.redge ELSE op.ledge
           c == get_tbl24_idx(edge)
<1>2. ~tbl24[c].ext /\ op.pc \in {"left", "right", "inside"} /\ op.pc # "gap" /\ Busy
  BY <1>1 DEF OutOfGroups, Busy
<1>3. IndInv /\ AgreeInv /\ EdgesKnown /\ InGap
  BY <1>2 DEF EdgeInv, AgreeInv, GapOK
<1>4. Divides(rib, op.ledge) /\ Divides(rib, op.redge)
  BY <1>2, <1>3 DEF EdgesKnown
<1>5. /\ get_tbl24_idx(op.ledge) \in Cells /\ get_tbl24_idx(op.redge) \in Cells
      /\ op.ledge \in Nat /\ op.redge \in Nat /\ get_tbl24_idx(op.ledge) \in Nat
      /\ SlotOf(op.ledge) \in Nat /\ SlotOf(op.redge) \in Nat
      /\ op.pc = "inside" => Place(op.redge) = op.redge
  BY <1>2, <1>3, Edges
<1>6. c \in Reserving
  <2>1. CASE op.pc = "left"
    <3>1. SlotOf(op.ledge) # 0
      BY <1>3, <2>1 DEF InGap
    <3> QED BY <1>4, <1>5, <2>1, <3>1 DEF Divides, Reserving
  <2>2. CASE op.pc = "right"
    <3>1. SlotOf(op.redge) # 0
      BY <1>3, <2>2 DEF InGap
    <3> QED BY <1>4, <1>5, <2>2, <3>1 DEF Divides, Reserving
  <2>3. CASE op.pc = "inside"
    <3>1. op.ledge < op.redge /\ get_tbl24_idx(op.ledge) = get_tbl24_idx(op.redge)
      BY <1>3, <1>5, <2>3 DEF InGap
    <3>2. \/ get_tbl24_idx(op.ledge) < get_tbl24_idx(op.redge)
          \/ (get_tbl24_idx(op.ledge) = get_tbl24_idx(op.redge)
                /\ SlotOf(op.ledge) < SlotOf(op.redge))
      BY <1>5, <3>1, Lexicographic
    <3>3. SlotOf(op.redge) # 0
      BY <1>5, <3>1, <3>2
    <3> QED BY <1>4, <1>5, <2>3, <3>1, <3>3 DEF Divides, Reserving
  <2> QED BY <1>2, <2>1, <2>2, <2>3
<1>7. c \notin Linked
  BY <1>2 DEF Linked
<1> HIDE DEF c
<1>8. Linked \cup {c} \in SUBSET Reserving
  BY <1>6, LinkedReserve
<1>9. IsFiniteSet(Reserving)
  <2>1. IsFiniteSet(Cells)
    <3>1. 0 \in Int /\ 2 ^ TOP_BITS - 1 \in Int
      BY Sizes
    <3> QED BY <3>1, FS_Interval DEF Cells
  <2>2. Reserving \in SUBSET Cells
    BY DEF Reserving
  <2> QED BY <2>1, <2>2, FS_Subset
<1>10. GroupsInUse
  BY <1>3 DEF AgreeInv, NoGroupLost, GroupsInUse
<1>11. /\ IsFiniteSet(Linked) /\ Cardinality(Linked) \in Nat
       /\ Cardinality(Free) = number_tbl8s - Cardinality(Linked)
  BY <1>3, <1>10, LinkedCount
<1>12. Cardinality(Linked \cup {c}) = Cardinality(Linked) + 1
  BY <1>7, <1>11, FS_AddElement
<1>13. Cardinality(Linked \cup {c}) <= Cardinality(Reserving) /\ Cardinality(Reserving) \in Nat
  BY <1>8, <1>9, FS_Subset, FS_CardinalityType
<1>14. number_tbl8s \in Nat
  BY Sizes
<1> QED BY <1>11, <1>12, <1>13, <1>14

LEMMA EdgeInvariant ==
  ASSUME NoDefaultRoute
  PROVE  Spec => []EdgeInv
<1>1. rte_fib_create => EdgeInv
  <2> SUFFICES ASSUME rte_fib_create PROVE EdgesKnown /\ DummyUntouched
    BY CreateEstablishesInv, CreateAgrees DEF EdgeInv
  <2>1. op.pc = "idle"
    BY DEF rte_fib_create, Idle
  <2>2. Linked = {}
    <3>1. \A c \in Cells : ~tbl24[c].ext
      BY DEF rte_fib_create, Leaf
    <3> QED BY <3>1 DEF Linked
  <2> QED BY <2>1, <2>2 DEF EdgesKnown, DummyUntouched, Busy
<1>2. EdgeInv /\ [Next]_vars => EdgeInv'
  BY NextKeepsInv, NextAgrees, EdgesKept, DummyKept DEF EdgeInv
<1> QED BY <1>1, <1>2, PTL DEF Spec

\* Between calls each group in use is one that a route longer than its entry
\* makes necessary: the update that takes the last one away has folded it back
\* (tbl8_recycle, write_to_fib).
THEOREM GroupsAreNeeded ==
  ASSUME NoDefaultRoute
  PROVE  Spec => []GroupsNeeded
<1>1. EdgeInv => GroupsNeeded
  BY LinkedReserve DEF GroupsNeeded, Reserving
<1> QED BY <1>1, EdgeInvariant, PTL

\* The groups run out for an update only if the entries with longer routes and
\* the groups left are more than there are groups: no group is in use anywhere
\* else, not even in the middle of the update (install_to_fib, tbl8_alloc).
THEOREM DryOnlyWhenReserved ==
  ASSUME NoDefaultRoute
  PROVE  Spec => RunsDryOnlyWhenFull
<1> DEFINE Dry == intact /\ ~intact' =>
                    Cardinality(Reserving) + Cardinality(Free) > number_tbl8s
<1>1. EdgeInv /\ [Next]_vars => [Dry]_vars
  BY DryOnlyWhenFull
<1> QED BY <1>1, EdgeInvariant, PTL DEF Spec, RunsDryOnlyWhenFull

-----------------------------------------------------------------------------
(* The nodes of the RIB are enough *)

\* RIB and running call keep to masked routes, finitely many of them.
NodesInv ==
  /\ RoutesOK(rib)
  /\ IsFiniteSet(DOMAIN rib)
  /\ op.pc # "idle" => IsMasked(op.key)
  /\ RoutesUpToMaxFit

\* What a step may do to what NodesInv is about.
LEMMA RibStays ==
  ASSUME NodesInv, rib' = rib, op'.pc # "idle" => op.pc # "idle" /\ op'.key = op.key,
         ret' = ret \/ ret'.status # "ENOMEM"
  PROVE  NodesInv'
BY DEF NodesInv, RoutesUpToMaxFit

LEMMA RibChanges ==
  ASSUME NodesInv, NEW key, IsMasked(key), op'.pc # "idle" => op'.key = key,
         ret'.status # "ENOMEM",
         \/ \E hop : rib' = WithRule(rib, key, hop)
         \/ rib' = WithoutRules(rib, {key})
         \/ rib' = rib
  PROVE  NodesInv'
<1>1. DOMAIN rib' \subseteq DOMAIN rib \cup {key}
  BY DEF WithRule, WithoutRules
<1>2. IsFiniteSet(DOMAIN rib \cup {key})
  BY FS_AddElement DEF NodesInv
<1>3. IsFiniteSet(DOMAIN rib')
  BY <1>1, <1>2, FS_Subset
<1> QED BY <1>1, <1>3 DEF NodesInv, RoutesOK, RoutesUpToMaxFit

LEMMA LackOfNodes ==
  ASSUME NodesInv, NEW r, IsMasked(Masked(r)), NoNode(r)
  PROVE  NodesInv'
<1>1. rib' = rib /\ op' = op /\ RibFull(rib, Masked(r))
  BY DEF NoNode, Return
<1>2. Cardinality(DOMAIN rib) >= MAX_ROUTES
  BY <1>1, FullOfRoutes, Dir24_8Assumption DEF NodesInv
<1> QED BY <1>1, <1>2 DEF NodesInv, RoutesUpToMaxFit

\* How a call ends or begins.
LEMMA CallShape ==
  ASSUME NEW key
  PROVE  /\ \A status : Return(status) => op' = op /\ ret'.status = status
         /\ \A call, hop, reserve : modify_fib(call, key, hop, reserve) =>
              op'.key = key /\ ret'.status = "pending"
<1>1. ASSUME NEW status, Return(status) PROVE op' = op /\ ret'.status = status
  BY <1>1 DEF Return, Answer
<1>2. ASSUME NEW call, NEW hop, NEW reserve, modify_fib(call, key, hop, reserve)
      PROVE  op'.key = key /\ ret'.status = "pending"
  BY <1>2 DEF modify_fib, Answer, Idle
<1> QED BY <1>1, <1>2

LEMMA NodesAtAdd ==
  ASSUME IndInv, NodesInv, NEW r \in Routes, NEW hop, rte_fib_add(r, hop)
  PROVE  NodesInv'
<1> DEFINE key == Masked(r)
<1>1. op = Idle /\ op.pc = "idle" /\ r.depth <= MAX_DEPTH
  BY DEF IndInv, TypeOK, rte_fib_add, dummy_add, RejectHop, AddSame, Change,
         AddRefused, Add, Called, Idle
<1>2. IsMasked(key)
  <2>1. r.ip \in Address /\ r.depth \in 0..MAX_DEPTH
    BY <1>1, Dir24_8Assumption, DepthsAreNaturals
  <2> QED BY <2>1, MaskedRoute
<1>3. CASE NoNode(r)
  BY <1>2, <1>3, LackOfNodes
<1>4. CASE ~NoNode(r)
  <2>1. rib' = rib \/ rib' = WithRule(rib, key, hop)
    BY <1>4 DEF rte_fib_add, dummy_add, RejectHop, AddSame, Change, AddRefused, Add
  <2>2. \/ \E status \in {"ok", "EINVAL", "ENOSPC"} : Return(status)
        \/ \E call, h, reserve : modify_fib(call, key, h, reserve)
    BY <1>4 DEF rte_fib_add, dummy_add, RejectHop, AddSame, Change, AddRefused, Add
  <2> HIDE DEF key
  <2> QED BY <1>1, <1>2, <2>1, <2>2, CallShape, RibChanges
<1> QED BY <1>3, <1>4

LEMMA NodesAtDelete ==
  ASSUME IndInv, NodesInv, NEW r \in Routes, rte_fib_delete(r)
  PROVE  NodesInv'
<1> DEFINE key == Masked(r)
<1>1. op = Idle /\ op.pc = "idle" /\ r.depth <= MAX_DEPTH
  BY DEF IndInv, TypeOK, rte_fib_delete, dummy_delete, DeleteAbsent, Delete, Called, Idle
<1>2. IsMasked(key)
  <2>1. r.ip \in Address /\ r.depth \in 0..MAX_DEPTH
    BY <1>1, Dir24_8Assumption, DepthsAreNaturals
  <2> QED BY <2>1, MaskedRoute
<1>3. rib' = rib \/ rib' = WithoutRules(rib, {key})
  BY DEF rte_fib_delete, dummy_delete, DeleteAbsent, Delete, Removed
<1>4. \/ \E status \in {"ok", "ENOENT"} : Return(status)
      \/ \E call, h, reserve : modify_fib(call, key, h, reserve)
  BY DEF rte_fib_delete, dummy_delete, DeleteAbsent, Delete
<1> HIDE DEF key
<1> QED BY <1>1, <1>2, <1>3, <1>4, CallShape, RibChanges

LEMMA NodesAtStep ==
  ASSUME IndInv, NodesInv, Step
  PROVE  NodesInv'
<1>1. op \in Call /\ op.pc # "idle"
  BY DEF IndInv, TypeOK, Step, NextGap, LastGap, WriteLeft, WriteMiddle, WriteRight,
         WriteInside, OutOfGroups, Succeed, Fail
<1>2. CASE Succeed \/ Fail
  <2>1. /\ op'.pc = "idle" /\ ret'.status # "ENOMEM" /\ IsMasked(op.key)
        /\ \/ rib' = rib
           \/ rib' = WithRule(rib, op.key, op.hop)
           \/ rib' = WithoutRules(rib, {op.key})
    BY <1>1, <1>2 DEF Succeed, Fail, Removed, Answer, Idle, NodesInv
  <2> QED BY <2>1, RibChanges
<1>3. CASE ~(Succeed \/ Fail)
  <2>1. UNCHANGED <<rib, ret>>
    BY <1>3 DEF Step, NextGap, LastGap, WriteLeft, WriteMiddle, WriteRight,
                WriteInside, OutOfGroups, Local
  <2>2. op'.key = op.key
    BY <1>1, <1>3 DEF Step, NextGap, LastGap, WriteLeft, WriteMiddle, WriteRight,
                WriteInside, OutOfGroups, GapDone, Call
  <2> QED BY <1>1, <2>1, <2>2, RibStays
<1> QED BY <1>2, <1>3

\* No route is refused for lack of memory below the number of routes that the
\* fib was created for, because a tree over n routes has at most 2n - 1 nodes
\* (rte_fib_create, rte_rib_insert).
THEOREM RoutesFit == Spec => []RoutesUpToMaxFit
<1>1. rte_fib_create => NodesInv
  <2> SUFFICES ASSUME rte_fib_create PROVE NodesInv
    OBVIOUS
  <2>1. DOMAIN rib = {} /\ op.pc = "idle" /\ ret.status = "ok"
    BY DEF rte_fib_create, NoRules, Idle, Answer
  <2> QED BY <2>1, FS_EmptySet DEF NodesInv, RoutesOK, RoutesUpToMaxFit
<1>2. IndInv /\ NodesInv /\ [Next]_vars => NodesInv'
  <2> SUFFICES ASSUME IndInv, NodesInv, [Next]_vars PROVE NodesInv'
    OBVIOUS
  <2>1. ASSUME NEW r \in Routes, RejectDepth(r) PROVE NodesInv'
    <3>1. UNCHANGED <<rib, op>> /\ ret'.status # "ENOMEM"
      BY <2>1 DEF RejectDepth, Return, Answer
    <3> QED BY <3>1, RibStays
  <2>2. ASSUME NEW ip \in Probes, rte_fib_lookup_bulk(ip) PROVE NodesInv'
    <3>1. UNCHANGED <<rib, op>> /\ ret'.status # "ENOMEM"
      BY <2>2 DEF rte_fib_lookup_bulk
    <3> QED BY <3>1, RibStays
  <2>3. CASE UNCHANGED vars
    <3>1. UNCHANGED <<rib, op, ret>>
      BY <2>3 DEF vars
    <3> QED BY <3>1, RibStays
  <2> QED BY <2>1, <2>2, <2>3, NodesAtAdd, NodesAtDelete, NodesAtStep DEF Next
<1>3. NodesInv => RoutesUpToMaxFit
  BY DEF NodesInv
<1> QED BY <1>1, <1>2, <1>3, CreateEstablishesInv, NextKeepsInv, PTL DEF Spec

\* The updates of the table implement the abstract fib: a dictionary of routes
\* in which an update takes effect as it returns and every lookup answers with
\* the most specific route (rte_fib_add, rte_fib_delete, rte_fib_lookup_bulk).
THEOREM TablesImplementFib ==
  ASSUME NoDefaultRoute
  PROVE  Spec => ImplementsFib
BY LookupsAgree, RoutesFit, LookupsCompletePromise, PTL
=============================================================================
