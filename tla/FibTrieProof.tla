---------------------------- MODULE FibTrieProof ----------------------------
(***************************************************************************)
(* FibTrieFolds for every size of address, tbl24 and pool and every        *)
(* sequence of calls, the ones that run out of groups included: the        *)
(* variables keep their types, and no group is linked twice, or linked or  *)
(* walked through while it is in the pool.                                 *)
(*                                                                         *)
(* For every sequence of calls without a default route: the tables agree   *)
(* with the RIB, a step of an update changes answers to what is written    *)
(* only, groups are neither lost nor kept in vain, and the fib implements  *)
(* the dictionary of module Fib.  FibTrieStepsProof carries this over to   *)
(* FibTrie.                                                                *)
(***************************************************************************)
EXTENDS FibTrieFolds, PrefixLemmas, SequenceTheorems

USE DEF tbl24

-----------------------------------------------------------------------------
(* Sizes, indices and places *)

LEMMA Sizes ==
  /\ BYTE_SIZE \in Nat \ {0} /\ IPV6_ADDR_SIZE \in Nat \ {0}
  /\ TBL24_BYTES \in Nat \ {0} /\ TBL24_BYTES < IPV6_ADDR_SIZE
  /\ 2 ^ BYTE_SIZE \in Nat \ {0} /\ 0 \in Slots
  /\ number_tbl8s \in Nat \ {0} /\ MAX_NH \in Nat /\ RSVD_MOD \in Nat \ {0}
  /\ DEF_NH \in Hops /\ 0 \in Hops /\ Hops \subseteq Nat
  /\ Groups \subseteq Hops /\ Groups \subseteq Nat /\ tbl24 \notin Groups
  /\ IPV6_ADDR_SIZE - TBL24_BYTES + 1 \in Nat /\ 1 \in Depths
<1>1. /\ BYTE_SIZE \in Nat \ {0} /\ IPV6_ADDR_SIZE \in Nat \ {0}
      /\ TBL24_BYTES \in 1..(IPV6_ADDR_SIZE - 1)
  BY SizesAssumption, FibTrieAssumption
<1>2. BYTE_SIZE <= BYTE_SIZE * IPV6_ADDR_SIZE
  BY <1>1
<1>3. BYTE_SIZE \in 0..MAX_DEPTH
  BY <1>1, <1>2, DepthsAreNaturals DEF MAX_DEPTH
<1>4. 2 ^ BYTE_SIZE \in Nat \ {0}
  BY <1>3, PowersAssumption
<1> QED
  BY <1>1, <1>4, FibTrieAssumption DEF Hops, Groups, Slots, Depths

\* A byte of an address indexes a group.
LEMMA ByteInSlots ==
  ASSUME NEW ip \in Address, NEW i \in 0..(IPV6_ADDR_SIZE - 1)
  PROVE  Byte(ip, i) \in Slots
<1> DEFINE k == IPV6_ADDR_SIZE - 1 - i
           bits == BYTE_SIZE * k
<1>1. k \in Nat /\ k <= IPV6_ADDR_SIZE
  BY Sizes
<1> HIDE DEF k
<1>2. BYTE_SIZE * k \in Nat /\ BYTE_SIZE * k <= BYTE_SIZE * IPV6_ADDR_SIZE
  BY <1>1, Sizes
<1>3. bits \in 0..MAX_DEPTH
  BY <1>2, DepthsAreNaturals DEF MAX_DEPTH
<1>4. 2 ^ bits \in Nat \ {0}
  BY <1>3, PowersAssumption
<1>5. ip \in Nat
  BY DepthsAreNaturals DEF Address
<1> DEFINE rest == ip \div 2 ^ bits
<1>6. rest \in Int
  <2> HIDE DEF bits
  <2> QED BY <1>4, <1>5
<1>7. Byte(ip, i) = rest % 2 ^ BYTE_SIZE
  BY DEF Byte, k
<1> HIDE DEF rest
<1>8. rest % 2 ^ BYTE_SIZE \in 0..(2 ^ BYTE_SIZE - 1)
  BY <1>6, Sizes, RemainderRange
<1> QED BY <1>7, <1>8 DEF Slots

\* A dividend below a product of two factors has a quotient below the other.
LEMMA QuotientRange ==
  ASSUME NEW n \in Nat \ {0}, NEW m \in Nat \ {0}, NEW a \in 0..(m * n - 1)
  PROVE  a \div n \in 0..(m - 1)
<1> DEFINE d == a \div n
<1>1. d \in Nat /\ n * d <= a
  BY m * n \in Nat
<1> SUFFICES ASSUME d >= m PROVE FALSE
  BY <1>1
<1> HIDE DEF d
<1>2. n * d >= n * m /\ n * m = m * n
  BY <1>1
<1>3. a < m * n /\ m * n \in Nat
  OBVIOUS
<1> QED BY <1>1, <1>2, <1>3

LEMMA IndexInTable ==
  ASSUME NEW ip \in Address, NEW n \in Depths
  PROVE  /\ n = 1 => get_idx(ip, n) \in 0..(2 ^ (BYTE_SIZE * TBL24_BYTES) - 1)
         /\ n # 1 => get_idx(ip, n) \in Slots
<1>1. CASE n = 1
  <2> DEFINE rest == 2 ^ (BYTE_SIZE * (IPV6_ADDR_SIZE - TBL24_BYTES))
             top == 2 ^ (BYTE_SIZE * TBL24_BYTES)
  <2>1. rest \in Nat \ {0} /\ top \in Nat \ {0} /\ ip \in 0..(top * rest - 1)
    <3>1. BYTE_SIZE * TBL24_BYTES \in Nat /\ BYTE_SIZE * TBL24_BYTES <= MAX_DEPTH
      <4>1. BYTE_SIZE * (IPV6_ADDR_SIZE - TBL24_BYTES) \in Nat
        BY Sizes
      <4>2. BYTE_SIZE * TBL24_BYTES + BYTE_SIZE * (IPV6_ADDR_SIZE - TBL24_BYTES) = MAX_DEPTH
        BY Sizes DEF MAX_DEPTH
      <4> QED BY <4>1, <4>2, Sizes
    <3> DEFINE bits == BYTE_SIZE * TBL24_BYTES
    <3>2. bits \in 0..MAX_DEPTH /\ rest = Size(bits)
      <4>1. MAX_DEPTH - bits = BYTE_SIZE * (IPV6_ADDR_SIZE - TBL24_BYTES)
        BY Sizes DEF MAX_DEPTH
      <4> QED BY <3>1, <4>1, DepthsAreNaturals DEF Size
    <3>3. /\ rest \in Nat \ {0} /\ top \in Nat \ {0} /\ 2 ^ MAX_DEPTH = rest * top
      <4>1. /\ Size(bits) \in Nat \ {0} /\ 2 ^ bits \in Nat \ {0}
            /\ 2 ^ MAX_DEPTH = Size(bits) * 2 ^ bits
        <5> HIDE DEF bits
        <5> QED BY <3>2, SizeOfDepth
      <4> QED BY <3>2, <4>1
    <3> HIDE DEF rest, top
    <3>4. rest * top = top * rest
      BY <3>3
    <3> QED BY <3>3, <3>4 DEF Address
  <2> HIDE DEF rest, top
  <2>2. ip \div rest \in 0..(top - 1)
    BY <2>1, QuotientRange
  <2> QED BY <1>1, <2>2 DEF get_idx, rest, top
<1>2. CASE n # 1
  <2>1. TBL24_BYTES + n - 2 \in 0..(IPV6_ADDR_SIZE - 1)
    BY <1>2, Sizes DEF Depths
  <2> QED BY <1>2, <2>1, ByteInSlots DEF get_idx
<1> QED BY <1>1, <1>2

\* The greatest of some naturals below a bound is one of them.
LEMMA MaxIsMember ==
  ASSUME NEW bound \in Nat, NEW S \in SUBSET (0..bound), S # {}
  PROVE  Max(S) \in S /\ \A x \in S : Max(S) >= x
<1>1. \E m \in S : \A k \in S : m >= k
  BY GreatestNatural
<1> QED BY <1>1 DEF Max

LEMMA LastInAddress ==
  ASSUME NEW redge \in Address
  PROVE  LastIn(redge) \in Address
<1>1. redge - 1 \in Int
  BY DepthsAreNaturals DEF Address
<1> QED BY <1>1, DepthsAreNaturals, RemainderRange DEF LastIn, Address

LEMMA CommonRange ==
  ASSUME NEW ip, NEW last
  PROVE  common_bytes(ip, last) \in 0..(IPV6_ADDR_SIZE - 1)
<1> DEFINE S == {n \in 0..(IPV6_ADDR_SIZE - 1) :
                   \A i \in 0..(n - 1) : Byte(ip, i) = Byte(last, i)}
<1>1. 0 \in S
  BY Sizes
<1>2. IPV6_ADDR_SIZE - 1 \in Nat
  BY Sizes
<1>3. S \in SUBSET (0..(IPV6_ADDR_SIZE - 1))
  OBVIOUS
<1>4. common_bytes(ip, last) = Max(S)
  BY DEF common_bytes
<1> HIDE DEF S
<1> QED BY <1>1, <1>2, <1>3, <1>4, MaxIsMember

\* The edges part in a table that an address walks through.
LEMMA RootTableRange ==
  ASSUME NEW ledge, NEW redge
  PROVE  RootTable(ledge, redge) \in Depths
BY CommonRange, Sizes DEF RootTable, Depths

\* So does each edge end.
LEMMA BottomTableRange == BottomTable \in Depths
<1> DEFINE common == common_bytes(op.ledge, LastIn(op.redge))
           first == Max({common, TBL24_BYTES})
           used == {i \in (first + 1)..(IPV6_ADDR_SIZE - 1) : Byte(Edge, i) # Filler}
<1>1. IPV6_ADDR_SIZE - 1 \in Nat /\ TBL24_BYTES \in 0..(IPV6_ADDR_SIZE - 1)
  BY Sizes
<1>2. common \in 0..(IPV6_ADDR_SIZE - 1)
  BY CommonRange
<1> HIDE DEF common
<1>3. first \in {common, TBL24_BYTES} /\ first >= TBL24_BYTES
  <2>1. {common, TBL24_BYTES} \in SUBSET (0..(IPV6_ADDR_SIZE - 1))
    BY <1>1, <1>2
  <2> QED BY <1>1, <2>1, MaxIsMember
<1>4. first \in TBL24_BYTES..(IPV6_ADDR_SIZE - 1)
  BY <1>1, <1>2, <1>3
<1> HIDE DEF first
<1>5. used \cup {first} \in SUBSET (TBL24_BYTES..(IPV6_ADDR_SIZE - 1))
  BY <1>1, <1>4
<1>6. used \cup {first} \in SUBSET (0..(IPV6_ADDR_SIZE - 1))
  BY <1>1, <1>5
<1> HIDE DEF used
<1>7. Max(used \cup {first}) \in TBL24_BYTES..(IPV6_ADDR_SIZE - 1)
  BY <1>1, <1>5, <1>6, MaxIsMember
<1>8. BottomTable = Max(used \cup {first}) - TBL24_BYTES + 2
  BY DEF BottomTable, used, first, common
<1>9. \A m \in TBL24_BYTES..(IPV6_ADDR_SIZE - 1) : m - TBL24_BYTES + 2 \in Depths
  BY Sizes DEF Depths
<1> QED BY <1>7, <1>8, <1>9

-----------------------------------------------------------------------------
(* The inductive invariant *)

Edges == {"ledge", "redge"}

\* How far a call has walked: above the root table before the edges, at it
\* between them, and at it or below while an edge is written.
Progress ==
  /\ op.pc \in {"idle", "gap"} => Level = 1
  /\ op.pc = "root" => Level < Root
  /\ op.pc \in Edges => Level >= Root
  /\ op.pc = "between" => Level = Root
  /\ op.up => op.pc \in Edges /\ Level > Root

\* No table is on the way of a call twice.
NoLoop == \A m, n \in 1..Level : op.path[m] = op.path[n] => m = n

\* A group on the way is linked from the table before it or not yet, and one
\* below the root table from the place of the edge that is written.
LinkedOnTheWay ==
  \A n \in 2..Level : \A p \in Linkers :
    entries[p].val = op.path[n] =>
      /\ p[1] = op.path[n - 1]
      /\ op.pc \in Edges /\ n > Root => p = Place(n - 1)

\* LinkedTaken alone is not inductive: that the group write_edge folds
\* back is not linked from elsewhere rests on how the walk came to it.
Sound == LinkedTaken /\ Progress /\ NoLoop /\ LinkedOnTheWay

-----------------------------------------------------------------------------
(* Its parts *)

RibOK ==
  /\ DOMAIN rib \subseteq Network
  /\ \A p \in DOMAIN rib : rib[p] \in Nat /\ (type = "TRIE" => rib[p] \in Hops)
  /\ rsvd_tbl8s \in 0..(RSVD_MOD - 1)

TablesOK ==
  /\ entries \in [Places -> [ext : BOOLEAN, val : Hops]]
  /\ \A p \in Places : entries[p].ext => entries[p].val \in Groups
  /\ free \in Seq(Groups)

OpOK ==
  /\ op \in Call
  /\ op.pc # "idle" => type = "TRIE" /\ op.call # "none"
  /\ op.pc = "idle" <=> op = Idle
  /\ Level \in Depths
  /\ op.path[1] = tbl24 /\ \A n \in 2..Level : op.path[n] \in Groups

OneLink == \A p, q \in Linkers : entries[p].val = entries[q].val => p = q
PoolDistinct == \A i, j \in 1..Len(free) : free[i] = free[j] => i = j
PoolUnlinked == \A i \in 1..Len(free) : \A p \in Linkers : entries[p].val # free[i]
PoolOffPath == \A i \in 1..Len(free) : \A n \in 2..Level : op.path[n] # free[i]

LinksOK == OneLink /\ NoLoop /\ LinkedOnTheWay
PoolOK == PoolDistinct /\ PoolUnlinked /\ PoolOffPath

IndInv ==
  /\ type \in Types /\ intact \in BOOLEAN
  /\ RibOK /\ TablesOK /\ OpOK /\ Progress /\ LinksOK /\ PoolOK

\* As many groups as there are, and no more, fit into a pool that holds none
\* twice.
LEMMA PoolFits ==
  ASSUME NEW s \in Seq(Groups), \A i, j \in 1..Len(s) : s[i] = s[j] => i = j
  PROVE  Len(s) <= number_tbl8s
<1>1. Len(s) \in Nat /\ s \in [1..Len(s) -> Groups]
  BY LenProperties
<1>2. IsFiniteSet(Groups) /\ Cardinality(Groups) = number_tbl8s
  <2>1. 0 \in Int /\ number_tbl8s - 1 \in Int /\ 0 <= number_tbl8s - 1
    BY Sizes
  <2>2. IsFiniteSet(0..(number_tbl8s - 1))
        /\ Cardinality(0..(number_tbl8s - 1)) = number_tbl8s - 1 - 0 + 1
    BY <2>1, FS_Interval
  <2> QED BY <2>2, Sizes DEF Groups
<1>3. IsFiniteSet(1..Len(s)) /\ Cardinality(1..Len(s)) = Len(s)
  <2>1. 1 \in Int /\ Len(s) \in Int
    BY <1>1
  <2>2. IsFiniteSet(1..Len(s))
        /\ Cardinality(1..Len(s)) = IF 1 > Len(s) THEN 0 ELSE Len(s) - 1 + 1
    BY <2>1, FS_Interval
  <2> QED BY <1>1, <2>2
<1> SUFFICES ASSUME Len(s) > number_tbl8s PROVE FALSE
  BY <1>1, Sizes
<1>4. \E i, j \in 1..Len(s) : i # j /\ s[i] = s[j]
  BY <1>1, <1>2, <1>3, Sizes, FS_PigeonHole
<1> QED BY <1>4

LEMMA InvariantParts == IndInv => TypeOK /\ LinkedTaken /\ Sound
<1> SUFFICES ASSUME IndInv PROVE TypeOK /\ LinkedTaken /\ Sound
  OBVIOUS
<1>1. TypeOK
  <2>1. Len(free) <= number_tbl8s
    BY PoolFits DEF IndInv, TablesOK, PoolOK, PoolDistinct
  <2> QED BY <2>1 DEF IndInv, TypeOK, RibOK, TablesOK, OpOK, Level
<1>2. LinkedTaken
  BY DEF IndInv, LinksOK, PoolOK, OneLink, PoolDistinct, PoolUnlinked, PoolOffPath,
         LinkedTaken, OnPath, Level
<1> QED BY <1>1, <1>2 DEF IndInv, LinksOK, Sound

\* What every step of a call uses.
LEMMA Walking ==
  ASSUME IndInv
  PROVE  /\ op.path \in Seq(Groups \cup {tbl24})
         /\ Level \in Nat \ {0} /\ Level \in Depths /\ Root \in Depths
         /\ Root \in Nat \ {0}
         /\ \A n \in 1..Level : Place(n) \in Places
         /\ op.path[Level] \in Groups \cup {tbl24}
         /\ \A n \in 2..Level : op.path[n] \in Groups /\ op.path[n] # tbl24
         /\ op.path[1] = tbl24
<1>1. op \in Call /\ Level \in Depths /\ op.path[1] = tbl24
      /\ \A n \in 2..Level : op.path[n] \in Groups
  BY DEF IndInv, OpOK
<1>2. op.path \in Seq(Groups \cup {tbl24}) /\ op.ledge \in Address /\ op.redge \in Address
  BY <1>1 DEF Call
<1>3. Edge \in Address
  BY <1>2, LastInAddress DEF Edge
<1>4. Level \in Nat \ {0} /\ \A n \in 1..Level : n \in Depths
  BY <1>1, Sizes DEF Depths
<1>5. Root \in Depths /\ Root \in Nat \ {0}
  <2>1. Root \in Depths
    BY RootTableRange DEF Root
  <2> QED BY <2>1, Sizes DEF Depths
<1>6. ASSUME NEW n \in 1..Level PROVE Place(n) \in Places
  <2>1. n \in Depths
    BY <1>4
  <2>2. CASE n = 1
    BY <1>1, <1>3, <2>1, <2>2, IndexInTable DEF Place, Places
  <2>3. CASE n # 1
    <3>1. op.path[n] \in Groups
      BY <1>1, <1>4, <2>3
    <3>2. get_idx(Edge, n) \in Slots
      BY <1>3, <2>1, <2>3, IndexInTable
    <3> QED BY <3>1, <3>2 DEF Place, Places
  <2> QED BY <2>2, <2>3
<1>7. op.path[Level] \in Groups \cup {tbl24}
  BY <1>1, <1>4
<1>8. \A n \in 2..Level : op.path[n] # tbl24
  BY <1>1, Sizes
<1> QED BY <1>1, <1>2, <1>4, <1>5, <1>6, <1>7, <1>8

-----------------------------------------------------------------------------
(* Parts of a step *)

\* A step that makes no link, and goes back on the way of the call or stays.
LinksDropped == \A p \in Places : entries'[p].ext => entries'[p] = entries[p]
GoesBack ==
  /\ Level' \in 1..Level
  /\ \A n \in 1..Level' : op'.path[n] = op.path[n]
  /\ \A n \in 2..Level' : op'.pc \in Edges /\ n > Root' =>
       op.pc \in Edges /\ n > Root /\ Place(n - 1)' = Place(n - 1)

LEMMA LinksKept ==
  ASSUME IndInv, LinksDropped, GoesBack
  PROVE  LinksOK'
<1>1. Level \in Nat \ {0} /\ Level' \in Nat \ {0} /\ Level' <= Level
  BY Walking DEF GoesBack
<1>2. \A p \in Linkers' : p \in Linkers /\ entries'[p] = entries[p]
  BY DEF LinksDropped, Linkers
<1>3. OneLink'
  BY <1>2 DEF OneLink, IndInv, LinksOK
<1>4. NoLoop'
  BY <1>1 DEF NoLoop, IndInv, LinksOK, GoesBack
<1>5. LinkedOnTheWay'
  <2> SUFFICES ASSUME NEW n \in 2..Level', NEW p \in Linkers',
                      entries'[p].val = op'.path[n]
               PROVE  /\ p[1] = op'.path[n - 1]
                      /\ op'.pc \in Edges /\ n > Root' => p = Place(n - 1)'
    BY DEF LinkedOnTheWay
  <2>1. n \in 2..Level /\ n \in 1..Level' /\ n - 1 \in 1..Level'
    BY <1>1
  <2>2. p \in Linkers /\ entries[p].val = op.path[n]
    BY <1>2, <2>1 DEF GoesBack
  <2>3. p[1] = op.path[n - 1] /\ (op.pc \in Edges /\ n > Root => p = Place(n - 1))
    BY <2>1, <2>2 DEF LinkedOnTheWay, IndInv, LinksOK
  <2> QED BY <2>1, <2>3 DEF GoesBack
<1> QED BY <1>3, <1>4, <1>5 DEF LinksOK

LEMMA PoolKept ==
  ASSUME IndInv, LinksDropped, GoesBack, free' = free
  PROVE  PoolOK'
<1>1. Level \in Nat \ {0} /\ Level' \in Nat \ {0} /\ Level' <= Level
  BY Walking DEF GoesBack
<1>2. PoolDistinct'
  BY DEF IndInv, PoolOK, PoolDistinct
<1>3. PoolUnlinked'
  BY DEF IndInv, PoolOK, PoolUnlinked, LinksDropped, Linkers
<1>4. PoolOffPath'
  BY <1>1 DEF IndInv, PoolOK, PoolOffPath, GoesBack
<1> QED BY <1>2, <1>3, <1>4 DEF PoolOK

\* A group that nothing links and the call has left goes back to the pool.
LEMMA PoolPut ==
  ASSUME IndInv, NEW g \in Groups, LinksDropped, GoesBack, free' = tbl8_put(g),
         \A i \in 1..Len(free) : free[i] # g,
         \A p \in Linkers' : entries'[p].val # g,
         \A n \in 2..Level' : op'.path[n] # g
  PROVE  free' \in Seq(Groups) /\ PoolOK'
<1>1. Level \in Nat \ {0} /\ Level' \in Nat \ {0} /\ Level' <= Level
  BY Walking DEF GoesBack
<1>2. free \in Seq(Groups) /\ <<g>> \in Seq(Groups) /\ Len(<<g>>) = 1 /\ <<g>>[1] = g
  BY DEF IndInv, TablesOK
<1>3. Len(free) \in Nat
  BY <1>2, LenProperties
<1>4. /\ free' \in Seq(Groups) /\ Len(free') = 1 + Len(free)
      /\ \A i \in 1..(1 + Len(free)) :
           free'[i] = IF i <= 1 THEN <<g>>[i] ELSE free[i - 1]
  BY <1>2, ConcatProperties DEF tbl8_put
<1>5. /\ free'[1] = g
      /\ \A i \in 2..Len(free') : i - 1 \in 1..Len(free) /\ free'[i] = free[i - 1]
  BY <1>2, <1>3, <1>4
<1>6. \A i \in 1..Len(free') : i = 1 \/ i \in 2..Len(free')
  BY <1>3, <1>4
<1>7. PoolDistinct'
  <2> SUFFICES ASSUME NEW i \in 1..Len(free'), NEW j \in 1..Len(free'), free'[i] = free'[j]
               PROVE  i = j
    BY DEF PoolDistinct
  <2>1. CASE i = 1 \/ j = 1
    BY <1>5, <1>6, <2>1
  <2>2. CASE i # 1 /\ j # 1
    <3>1. i - 1 \in 1..Len(free) /\ j - 1 \in 1..Len(free) /\ free[i - 1] = free[j - 1]
      BY <1>5, <1>6, <2>2
    <3>2. i - 1 = j - 1
      BY <3>1 DEF IndInv, PoolOK, PoolDistinct
    <3> QED BY <1>3, <1>4, <3>2
  <2> QED BY <2>1, <2>2
<1>8. PoolUnlinked'
  <2> SUFFICES ASSUME NEW i \in 1..Len(free'), NEW p \in Linkers'
               PROVE  entries'[p].val # free'[i]
    BY DEF PoolUnlinked
  <2>1. p \in Linkers /\ entries'[p] = entries[p]
    BY DEF LinksDropped, Linkers
  <2> QED BY <1>5, <1>6, <2>1 DEF IndInv, PoolOK, PoolUnlinked
<1>9. PoolOffPath'
  <2> SUFFICES ASSUME NEW i \in 1..Len(free'), NEW n \in 2..Level'
               PROVE  op'.path[n] # free'[i]
    BY DEF PoolOffPath
  <2>1. n \in 2..Level /\ op'.path[n] = op.path[n]
    BY <1>1 DEF GoesBack
  <2> QED BY <1>5, <1>6, <2>1 DEF IndInv, PoolOK, PoolOffPath
<1> QED BY <1>4, <1>7, <1>8, <1>9 DEF PoolOK

LEMMA SameRibOK ==
  ASSUME RibOK, UNCHANGED <<type, rib, rsvd_tbl8s>>
  PROVE  RibOK'
BY DEF RibOK

\* What remains to show of a step of a call.
LEMMA StepKeepsInv ==
  ASSUME IndInv, op.pc # "idle", UNCHANGED Local, intact' \in BOOLEAN,
         op' \in Call, op'.pc # "idle", op'.call = op.call, Level' \in Depths,
         op'.path[1] = tbl24, \A n \in 2..Level' : op'.path[n] \in Groups,
         TablesOK', Progress', LinksOK', PoolOK'
  PROVE  IndInv'
<1>1. op' # Idle
  BY DEF Idle
<1>2. OpOK'
  BY <1>1 DEF IndInv, OpOK, Local, Level
<1>3. RibOK'
  BY SameRibOK DEF IndInv, Local
<1> QED BY <1>2, <1>3 DEF IndInv, Local

\* A step that goes back stays among the tables.
LEMMA BackOnPath ==
  ASSUME IndInv, GoesBack
  PROVE  /\ Level' \in Depths /\ op'.path[1] = tbl24
         /\ \A n \in 2..Level' : op'.path[n] \in Groups
<1>1. Level \in Nat \ {0} /\ Level \in Depths /\ Level' \in 1..Level
  BY Walking DEF GoesBack
<1>2. Level' \in Depths
  BY <1>1, Sizes DEF Depths
<1>3. 1 \in 1..Level' /\ \A n \in 2..Level' : n \in 1..Level' /\ n \in 2..Level
  BY <1>1
<1> QED BY <1>2, <1>3, Walking DEF GoesBack

-----------------------------------------------------------------------------
(* The calls *)

LEMMA IdleOK ==
  Idle \in Call /\ Idle.pc = "idle" /\ Idle.path = <<tbl24>> /\ Idle.up = FALSE
<1>1. 0 \in Address /\ 0 \in 0..MAX_DEPTH /\ 0 \in Hops
  BY DepthsAreNaturals, Sizes DEF Address
<1>2. <<tbl24>> \in Seq(Groups \cup {tbl24})
  OBVIOUS
<1> QED BY <1>1, <1>2 DEF Idle, Call, Network

\* A call that has not started to walk, or gives up, is at tbl24.
LEMMA AtTop ==
  ASSUME IndInv, op'.path = <<tbl24>>
  PROVE  GoesBack /\ Level' = 1
<1>1. Level' = 1 /\ op'.path[1] = tbl24
  BY DEF Level
<1> QED BY <1>1, Walking DEF GoesBack

THEOREM CreateEstablishesInv == rte_fib6_create => IndInv
<1> SUFFICES ASSUME rte_fib6_create PROVE IndInv
  OBVIOUS
<1>1. op = Idle /\ entries = [p \in Places |-> Leaf(IF p[1] = tbl24 THEN DEF_NH ELSE 0)]
      /\ free = [i \in 1..number_tbl8s |-> i - 1]
  BY DEF rte_fib6_create, trie_create
<1>2. /\ entries \in [Places -> [ext : BOOLEAN, val : Hops]]
      /\ \A p \in Places : ~entries[p].ext
  BY <1>1, Sizes DEF Leaf
<1>3. free \in Seq(Groups) /\ Len(free) = number_tbl8s
      /\ \A i \in 1..number_tbl8s : free[i] = i - 1
  <2>1. \A i \in 1..number_tbl8s : i - 1 \in Groups
    BY Sizes DEF Groups
  <2> QED BY <1>1, <2>1, Sizes
<1>4. Level = 1 /\ op.path[1] = tbl24 /\ op.up = FALSE /\ op.pc = "idle"
  BY <1>1, IdleOK DEF Level
<1>5. DOMAIN rib = {}
  BY DEF rte_fib6_create, NoRules
<1>6. RibOK
  BY <1>5, Sizes DEF RibOK, rte_fib6_create, trie_create
<1>7. TablesOK
  BY <1>2, <1>3 DEF TablesOK
<1>8. OpOK /\ Progress
  BY <1>1, <1>4, IdleOK, Sizes DEF OpOK, Progress, Edges
<1>9. LinksOK
  BY <1>2, <1>4 DEF LinksOK, OneLink, NoLoop, LinkedOnTheWay, Linkers
<1>10. PoolOK
  BY <1>2, <1>3, <1>4, Sizes DEF PoolOK, PoolDistinct, PoolUnlinked, PoolOffPath, Linkers
<1> QED BY <1>6, <1>7, <1>8, <1>9, <1>10 DEF IndInv, rte_fib6_create

\* Calls that touch neither tables nor the locals.
LEMMA NoWriteKeepsInv ==
  ASSUME IndInv, UNCHANGED <<type, tables, op>>, intact' \in BOOLEAN, RibOK'
  PROVE  IndInv'
<1>1. TablesOK' /\ OpOK' /\ Progress'
  BY DEF IndInv, tables, TablesOK, OpOK, Progress, Level, Root
<1>2. LinksOK'
  BY DEF IndInv, tables, LinksOK, OneLink, NoLoop, LinkedOnTheWay, Linkers, Level, Root,
         Place, Edge
<1>3. PoolOK'
  BY DEF IndInv, tables, PoolOK, PoolDistinct, PoolUnlinked, PoolOffPath, Linkers, Level
<1> QED BY <1>1, <1>2, <1>3 DEF IndInv

LEMMA ReturnKeepsInv ==
  ASSUME IndInv, NEW status, Return(status), RibOK'
  PROVE  IndInv'
BY NoWriteKeepsInv DEF Return, IndInv

\* The tables and links of a call that starts, ends or fails.
LEMMA TablesKept ==
  ASSUME IndInv, UNCHANGED tables, GoesBack
  PROVE  TablesOK' /\ LinksOK' /\ PoolOK'
<1>1. LinksDropped /\ free' = free
  BY DEF LinksDropped, tables
<1>2. TablesOK'
  BY DEF IndInv, tables, TablesOK
<1> QED BY <1>1, <1>2, LinksKept, PoolKept

LEMMA ModifyKeepsInv ==
  ASSUME IndInv, type = "TRIE", NEW key \in Network, NEW hop \in Hops,
         NEW call \in {"add", "change", "delete"}, NEW diff \in Int,
         modify_dp(call, key, hop, diff), RibOK'
  PROVE  IndInv'
<1>1. Nearest(rib, key) \in SUBSET Network
  BY NearestAreRoutes DEF IndInv, RibOK
<1>2. key.ip \in Address
  BY DEF Network
<1>3. /\ op' \in Call /\ op'.pc = "gap" /\ op'.call = call
      /\ op'.path = <<tbl24>> /\ op'.up = FALSE
  BY <1>1, <1>2, IdleOK DEF modify_dp, Call, Idle
<1>4. op' # Idle
  BY <1>3, IdleOK
<1>5. GoesBack /\ Level' = 1
  BY <1>3, AtTop
<1>6. OpOK'
  BY <1>3, <1>4, <1>5, Sizes DEF modify_dp, OpOK
<1>7. Progress'
  BY <1>3, <1>5 DEF Progress, Edges
<1>8. TablesOK' /\ LinksOK' /\ PoolOK'
  BY <1>5, TablesKept DEF modify_dp
<1> QED BY <1>6, <1>7, <1>8 DEF IndInv, modify_dp

LEMMA WithRuleOK ==
  ASSUME RibOK, NEW key \in Network, NEW hop \in Nat,
         type = "TRIE" => hop \in Hops,
         rib' = WithRule(rib, key, hop), type' = type,
         rsvd_tbl8s' \in 0..(RSVD_MOD - 1)
  PROVE  RibOK'
BY DEF WithRule, RibOK

LEMMA WithoutRulesOK ==
  ASSUME RibOK, NEW keys, rib' = WithoutRules(rib, keys), type' = type,
         rsvd_tbl8s' \in 0..(RSVD_MOD - 1)
  PROVE  RibOK'
BY DEF WithoutRules, RibOK

LEMMA RemovedOK ==
  ASSUME RibOK, NEW key, NEW diff \in Int, Removed(key, diff), type' = type
  PROVE  RibOK'
<1>1. rsvd_tbl8s \in Int /\ rsvd_tbl8s - diff \in Int
  BY Sizes DEF RibOK
<1>2. (rsvd_tbl8s - diff) % RSVD_MOD \in 0..(RSVD_MOD - 1)
  BY <1>1, Sizes, RemainderRange
<1> QED BY <1>2, WithoutRulesOK DEF Removed

LEMMA RouteTypes ==
  ASSUME NEW r \in Routes, r.depth <= MAX_DEPTH
  PROVE  Masked(r) \in Network /\ r.depth \in 0..MAX_DEPTH
<1>1. r.ip \in Address /\ r.depth \in 0..MAX_DEPTH
  BY FibTrieAssumption, DepthsAreNaturals
<1> QED BY <1>1, MaskedNetwork

\* The groups counted for a route are an integer.
LEMMA DiffType ==
  ASSUME RibOK, NEW r \in Routes, r.depth <= MAX_DEPTH
  PROVE  depth_diff(r) \in Int
<1> DEFINE depths == {p.depth : p \in Matching(rib, r.ip)} \cup {Tbl24Depth}
           parent_depth == Max(depths)
<1>1. \A d \in Nat : AlignCeil(d) \in Int
  BY Sizes DEF AlignCeil, AlignFloor
<1>2. Tbl24Depth \in 0..MAX_DEPTH
  <2>1. BYTE_SIZE * TBL24_BYTES \in Nat
        /\ BYTE_SIZE * TBL24_BYTES <= BYTE_SIZE * IPV6_ADDR_SIZE
    BY Sizes
  <2> QED BY <2>1, DepthsAreNaturals DEF Tbl24Depth, MAX_DEPTH
<1>3. depths \in SUBSET (0..MAX_DEPTH) /\ depths # {}
  BY <1>2 DEF Matching, RibOK, Network
<1>4. parent_depth \in Nat
  <2> HIDE DEF depths
  <2>1. MAX_DEPTH \in Nat
    BY DepthsAreNaturals
  <2>2. Max(depths) \in depths
    BY <1>3, <2>1, MaxIsMember
  <2>3. Max(depths) \in 0..MAX_DEPTH
    BY <1>3, <2>2
  <2>4. \A d \in 0..MAX_DEPTH : d \in Nat
    BY <2>1
  <2> QED BY <2>3, <2>4
<1>5. r.depth \in Nat
  BY RouteTypes
<1> HIDE DEF parent_depth
<1>6. AlignCeil(r.depth) - AlignCeil(parent_depth) \in Int
  BY <1>1, <1>4, <1>5
<1>7. (AlignCeil(r.depth) - AlignCeil(parent_depth)) \div BYTE_SIZE \in Int
  BY <1>6, Sizes
<1> QED BY <1>7 DEF depth_diff, parent_depth

LEMMA AddKeepsInv ==
  ASSUME IndInv, NEW r \in Routes, NEW hop \in NextHops, rte_fib6_add(r, hop)
  PROVE  IndInv'
<1> DEFINE key == Masked(r)
<1>1. RibOK /\ r.depth <= MAX_DEPTH
  BY DEF IndInv, rte_fib6_add, dummy_add, AddSame, Change, AddRefused, Add, Called
<1>2. key \in Network /\ hop \in Nat /\ depth_diff(r) \in Int
  BY <1>1, RouteTypes, DiffType, FibTrieAssumption
<1>3. hop <= MAX_NH => hop \in Hops
  BY <1>2, Sizes DEF Hops
<1>4. rsvd_tbl8s \in 0..(RSVD_MOD - 1)
  BY <1>1 DEF RibOK
<1>5. CASE dummy_add(r, hop)
  <2>1. CASE NoNode(r)
    <3>1. UNCHANGED <<type, rib, rsvd_tbl8s>> /\ Return("ENOMEM")
      BY <2>1 DEF NoNode, Return
    <3> QED BY <1>1, <3>1, SameRibOK, ReturnKeepsInv
  <2>2. CASE ~NoNode(r)
    <3>1. /\ rib' = WithRule(rib, key, hop) /\ Return("ok") /\ type = "DUMMY"
          /\ rsvd_tbl8s' = rsvd_tbl8s /\ type' = type
      BY <1>5, <2>2 DEF dummy_add, Called, Return
    <3>2. RibOK'
      BY <1>1, <1>2, <1>4, <3>1, WithRuleOK
    <3> QED BY <3>1, <3>2, ReturnKeepsInv
  <2> QED BY <2>1, <2>2
<1>6. CASE AddSame(r, hop)
  <2>1. UNCHANGED <<type, rib, rsvd_tbl8s, tables, op>> /\ intact' \in BOOLEAN
    BY <1>6 DEF AddSame, IndInv
  <2> QED BY <1>1, <2>1, SameRibOK, NoWriteKeepsInv
<1>7. CASE AddRefused(r, hop)
  <2>1. UNCHANGED <<type, rib, rsvd_tbl8s>> /\ \E status : Return(status)
    BY <1>7 DEF AddRefused, NoNode, Return
  <2> QED BY <1>1, <2>1, SameRibOK, ReturnKeepsInv
<1>8. CASE Change(r, hop)
  <2>1. /\ modify_dp("change", key, hop, 0)
        /\ UNCHANGED <<type, rib, rsvd_tbl8s>>
        /\ type = "TRIE" /\ hop \in Hops
    BY <1>3, <1>8 DEF Change, Called, modify_dp
  <2> QED BY <1>1, <1>2, <2>1, SameRibOK, ModifyKeepsInv
<1>9. CASE Add(r, hop)
  <2>1. /\ rib' = WithRule(rib, key, hop) /\ type = "TRIE" /\ hop \in Hops
        /\ type' = type /\ rsvd_tbl8s' = rsvd_tbl8s
    BY <1>3, <1>9 DEF Add, Called, Return, modify_dp
  <2>2. RibOK'
    BY <1>1, <1>2, <1>4, <2>1, WithRuleOK
  <2>3. CASE Return("ok")
    BY <2>2, <2>3, ReturnKeepsInv
  <2>4. CASE modify_dp("add", key, hop, depth_diff(r))
    BY <1>2, <2>1, <2>2, <2>4, ModifyKeepsInv
  <2> QED BY <1>9, <2>3, <2>4 DEF Add
<1> QED BY <1>5, <1>6, <1>7, <1>8, <1>9 DEF rte_fib6_add

LEMMA DeleteKeepsInv ==
  ASSUME IndInv, NEW r \in Routes, rte_fib6_delete(r)
  PROVE  IndInv'
<1> DEFINE key == Masked(r)
<1>1. RibOK /\ r.depth <= MAX_DEPTH
  BY DEF IndInv, rte_fib6_delete, dummy_delete, DeleteAbsent, Delete, Called
<1>2. key \in Network /\ depth_diff(r) \in Int
  BY <1>1, RouteTypes, DiffType
<1>3. CASE dummy_delete(r)
  <2>1. /\ rib' = WithoutRules(rib, {key}) /\ rsvd_tbl8s' = rsvd_tbl8s
        /\ \E status : Return(status)
    BY <1>3 DEF dummy_delete
  <2>2. RibOK'
    BY <1>1, <2>1, WithoutRulesOK DEF RibOK, Return
  <2> QED BY <2>1, <2>2, ReturnKeepsInv
<1>4. CASE DeleteAbsent(r)
  <2>1. UNCHANGED <<type, rib, rsvd_tbl8s>> /\ Return("ENOENT")
    BY <1>4 DEF DeleteAbsent, Return
  <2> QED BY <1>1, <2>1, SameRibOK, ReturnKeepsInv
<1>5. CASE Delete(r) /\ SameAsAround(key, rib[key])
  <2>1. Return("ok") /\ Removed(key, depth_diff(r)) /\ type' = type
    BY <1>5 DEF Delete, Return
  <2> QED BY <1>1, <1>2, <2>1, RemovedOK, ReturnKeepsInv
<1>6. CASE Delete(r) /\ ~SameAsAround(key, rib[key])
  <2>1. /\ modify_dp("delete", key, ParentHop(rib, key), depth_diff(r))
        /\ UNCHANGED <<type, rib, rsvd_tbl8s>> /\ type = "TRIE"
    BY <1>6 DEF Delete, Called, modify_dp
  <2>2. ParentHop(rib, key) \in Hops
    BY <1>1, <1>2, <2>1, ParentHopIsSome, Sizes DEF RibOK
  <2> QED BY <1>1, <1>2, <2>1, <2>2, SameRibOK, ModifyKeepsInv
<1> QED BY <1>3, <1>4, <1>5, <1>6 DEF rte_fib6_delete

-----------------------------------------------------------------------------
(* The gaps *)

LEMMA GapKeepsInv ==
  ASSUME IndInv, NextGap \/ LastGap
  PROVE  IndInv'
<1>1. /\ op \in Call /\ op.key \in Network /\ op.todo \in SUBSET Network
      /\ op.pc = "gap" /\ op.up = FALSE /\ Level = 1 /\ op.path[1] = tbl24
  <2>1. op \in Call /\ op.pc = "gap"
    BY DEF IndInv, OpOK, NextGap, LastGap
  <2>2. op.up = FALSE
    BY <2>1 DEF IndInv, Progress, Edges, Call
  <2> QED BY <2>1, <2>2 DEF IndInv, OpOK, Progress, Call
<1>2. \A ledge, redge : RootTable(ledge, redge) \in Depths
  BY RootTableRange
<1>3. /\ op' \in Call /\ op'.pc # "idle" /\ op'.call = op.call
      /\ op'.path = op.path /\ op'.up = FALSE
      /\ \/ op'.pc = "gap"
         \/ op'.pc = "ledge" /\ Root' = 1
         \/ op'.pc = "root" /\ Root' # 1
  <2>1. ASSUME NEW redge \in Address, NEW last \in BOOLEAN,
               op' = Install(op.ledge, redge, last)
        PROVE  /\ op' \in Call /\ op'.pc # "idle" /\ op'.call = op.call
               /\ op'.path = op.path /\ op'.up = FALSE
               /\ \/ op'.pc = "ledge" /\ Root' = 1
                  \/ op'.pc = "root" /\ Root' # 1
    <3> DEFINE root == RootTable(op.ledge, redge)
    <3>1. op' = [op EXCEPT !.pc = IF root = 1 THEN "ledge" ELSE "root",
                           !.redge = redge, !.last = last]
      BY <2>1 DEF Install
    <3> HIDE DEF root
    <3>2. op'.ledge = op.ledge /\ op'.redge = redge
      BY <1>1, <3>1 DEF Call
    <3>3. Root' = root
      BY <3>2 DEF Root, root
    <3> QED BY <1>1, <2>1, <3>1, <3>3 DEF Call
  <2>2. CASE NextGap
    <3> DEFINE q == First(op.todo)
    <3>1. q \in Network /\ op.todo # {} /\ op.todo \ {q} \in SUBSET Network
      BY <1>1, <2>2, FirstIsMember DEF NextGap
    <3>2. get_nxt_net(q) \in Address /\ q.ip \in Address
      BY <3>1, EndAddress DEF get_nxt_net, Network
    <3>3. \/ op' = [op EXCEPT !.ledge = get_nxt_net(q), !.todo = After(q)]
          \/ op' = Install(op.ledge, q.ip, FALSE)
      BY <2>2 DEF NextGap
    <3> HIDE DEF q
    <3>4. CASE op' = [op EXCEPT !.ledge = get_nxt_net(q), !.todo = After(q)]
      BY <1>1, <3>1, <3>2, <3>4 DEF After, Call
    <3>5. CASE op' = Install(op.ledge, q.ip, FALSE)
      BY <2>1, <3>2, <3>5
    <3> QED BY <3>3, <3>4, <3>5
  <2>3. CASE LastGap
    <3> DEFINE end == get_nxt_net(op.key)
    <3>1. end \in Address
      BY <1>1, EndAddress DEF get_nxt_net
    <3>2. op' = [op EXCEPT !.last = TRUE] \/ op' = Install(op.ledge, end, TRUE)
      BY <2>3 DEF LastGap
    <3> HIDE DEF end
    <3>3. CASE op' = [op EXCEPT !.last = TRUE]
      BY <1>1, <3>3 DEF Call
    <3>4. CASE op' = Install(op.ledge, end, TRUE)
      BY <2>1, <3>1, <3>4
    <3> QED BY <3>2, <3>3, <3>4
  <2> QED BY <2>2, <2>3
<1>4. GoesBack /\ Level' = 1
  <2>1. Level' = Level
    BY <1>3 DEF Level
  <2> QED BY <1>1, <1>3, <2>1 DEF GoesBack
<1>5. Root' \in Nat \ {0}
  BY RootTableRange, Sizes DEF Root, Depths
<1>6. Progress'
  BY <1>3, <1>4, <1>5 DEF Progress, Edges
<1>7. TablesOK' /\ LinksOK' /\ PoolOK'
  BY <1>4, TablesKept DEF NextGap, LastGap
<1>8. /\ Level' \in Depths /\ op'.path[1] = tbl24
      /\ \A n \in 2..Level' : op'.path[n] \in Groups
  BY <1>4, BackOnPath
<1>9. UNCHANGED Local /\ intact' \in BOOLEAN
  BY DEF NextGap, LastGap, IndInv
<1> QED BY <1>1, <1>3, <1>6, <1>7, <1>8, <1>9, StepKeepsInv

-----------------------------------------------------------------------------
(* Down *)

\* The way of a call that enters a group.
LEMMA EnterPath ==
  ASSUME IndInv, Descending, NEW g \in Groups, Enter(g)
  PROVE  /\ op' \in Call /\ op'.pc # "idle" /\ op'.call = op.call /\ op.pc # "idle"
         /\ Level' = Level + 1 /\ Level' \in Depths /\ Root' = Root
         /\ \A n \in 1..Level : op'.path[n] = op.path[n]
         /\ op'.path[Level'] = g
         /\ op'.pc \in Edges =>
              \/ op.pc \in Edges /\ \A n \in 1..Level : Place(n)' = Place(n)
              \/ op.pc = "root" /\ Level' = Root
         /\ Progress'
<1>1. /\ op \in Call /\ op.path \in Seq(Groups \cup {tbl24})
      /\ Level \in Nat \ {0} /\ Level \in Depths /\ Root \in Depths /\ Root \in Nat
  BY Walking DEF IndInv, OpOK
<1> DEFINE path == Append(op.path, g)
           pc == IF op.pc = "root" /\ Len(path) = Root THEN "ledge" ELSE op.pc
<1>2. /\ path \in Seq(Groups \cup {tbl24}) /\ Len(path) = Level + 1
      /\ \A n \in 1..Level : path[n] = op.path[n]
      /\ path[Level + 1] = g
  BY <1>1, AppendProperties DEF Level
<1>3. op' = [op EXCEPT !.path = path, !.pc = pc]
  BY DEF Enter
<1>4. op.pc \in {"root", "ledge", "redge"} /\ op.up = FALSE
  BY <1>1 DEF Descending, IndInv, Progress, Edges, Call
<1>5. pc \in {"root", "ledge", "redge"} /\ (pc # op.pc => op.pc = "root" /\ Level + 1 = Root)
  BY <1>2, <1>4
<1> HIDE DEF path, pc
<1>6. /\ op' \in Call /\ op'.pc = pc /\ op'.call = op.call /\ op'.path = path
      /\ op'.ledge = op.ledge /\ op'.redge = op.redge /\ op'.up = FALSE
  BY <1>1, <1>2, <1>3, <1>4, <1>5 DEF Call
<1>7. Level' = Level + 1 /\ Root' = Root
  BY <1>2, <1>6 DEF Level, Root
<1>8. op.pc = "root" => Level < Root
  BY DEF IndInv, Progress
<1>9. Level' \in Depths
  <2>1. CASE op.pc = "root"
    BY <1>1, <1>7, <1>8, <2>1, Sizes DEF Depths
  <2>2. CASE op.pc # "root"
    <3>1. Level < BottomTable
      BY <2>2 DEF Descending
    <3> QED BY <1>1, <1>7, <3>1, BottomTableRange, Sizes DEF Depths
  <2> QED BY <2>1, <2>2
<1>10. pc = "root" => Level + 1 < Root
  <2>1. pc = "root" => op.pc = "root" /\ Level + 1 # Root
    BY <1>2, <1>4 DEF pc
  <2> QED BY <1>1, <1>8, <2>1
<1>11. op.pc \in Edges => Level >= Root
  BY DEF IndInv, Progress
<1>12. Progress'
  BY <1>1, <1>4, <1>5, <1>6, <1>7, <1>10, <1>11 DEF Progress, Edges
<1>13. op'.pc = op.pc => \A n \in 1..Level : Place(n)' = Place(n)
  BY <1>2, <1>6 DEF Place, Edge
<1>14. op'.pc \in Edges =>
         \/ op.pc \in Edges /\ \A n \in 1..Level : Place(n)' = Place(n)
         \/ op.pc = "root" /\ Level' = Root
  BY <1>5, <1>6, <1>7, <1>13 DEF Edges
<1> QED BY <1>2, <1>4, <1>5, <1>6, <1>7, <1>9, <1>12, <1>14

\* A group that is entered is linked from the place it is entered from, or
\* not linked, and has not been on the way.
LEMMA LinksEntered ==
  ASSUME IndInv, Descending, NEW g \in Groups, Enter(g),
         \A n \in 2..Level : op.path[n] # g,
         \A p \in Linkers' : \/ p \in Linkers /\ entries'[p] = entries[p]
                             \/ entries'[p].val = g,
         \A p \in Linkers' : entries'[p].val = g => p = Here
  PROVE  LinksOK'
<1>1. /\ Level \in Nat \ {0} /\ op.path[1] = tbl24
      /\ Level' = Level + 1 /\ Root' = Root /\ Root \in Nat
      /\ \A n \in 1..Level : op'.path[n] = op.path[n]
      /\ op'.path[Level'] = g
  BY Walking, EnterPath
<1>2. OneLink'
  BY DEF IndInv, LinksOK, OneLink
<1>3. \A n \in 1..Level : op.path[n] # g
  BY <1>1, Sizes
<1>4. \A n \in 1..Level' : n \in 1..Level \/ n = Level'
  BY <1>1
<1>5. NoLoop'
  BY <1>1, <1>3, <1>4 DEF IndInv, LinksOK, NoLoop
<1>6. op'.pc \in Edges =>
        \/ op.pc \in Edges /\ \A n \in 1..Level : Place(n)' = Place(n)
        \/ Level' = Root
  BY EnterPath
<1>7. LinkedOnTheWay'
  <2> SUFFICES ASSUME NEW n \in 2..Level', NEW p \in Linkers',
                      entries'[p].val = op'.path[n]
               PROVE  /\ p[1] = op'.path[n - 1]
                      /\ op'.pc \in Edges /\ n > Root' => p = Place(n - 1)'
    BY DEF LinkedOnTheWay
  <2>1. n - 1 \in 1..Level /\ op'.path[n - 1] = op.path[n - 1]
    BY <1>1
  <2>2. CASE n = Level'
    <3>1. p = Here /\ n - 1 = Level
      BY <1>1, <2>2
    <3>2. p[1] = op.path[n - 1]
      BY <3>1 DEF Here, Place
    <3>3. op'.pc \in Edges /\ n > Root' => p = Place(n - 1)'
      BY <1>1, <1>6, <2>1, <2>2, <3>1 DEF Here
    <3> QED BY <2>1, <3>2, <3>3
  <2>3. CASE n # Level'
    <3>1. n \in 2..Level /\ op'.path[n] = op.path[n] /\ op.path[n] # g
      BY <1>1, <1>3, <2>3
    <3>2. p \in Linkers /\ entries[p].val = op.path[n]
      BY <3>1
    <3>3. p[1] = op.path[n - 1] /\ (op.pc \in Edges /\ n > Root => p = Place(n - 1))
      BY <3>1, <3>2 DEF LinkedOnTheWay, IndInv, LinksOK
    <3>4. op'.pc \in Edges /\ n > Root' => p = Place(n - 1)'
      BY <1>1, <1>6, <2>1, <3>1, <3>3
    <3> QED BY <2>1, <3>3, <3>4
  <2> QED BY <2>2, <2>3
<1> QED BY <1>2, <1>5, <1>7 DEF LinksOK

\* The way of a call that enters a group ends in it.
LEMMA EnteredOnPath ==
  ASSUME IndInv, Descending, NEW g \in Groups, Enter(g)
  PROVE  op'.path[1] = tbl24 /\ \A n \in 2..Level' : op'.path[n] \in Groups
<1>1. Level \in Nat \ {0} /\ Level' = Level + 1
  BY Walking, EnterPath
<1>2. 1 \in 1..Level /\ \A n \in 2..Level' : n \in 2..Level \/ n = Level'
  BY <1>1
<1>3. \A n \in 2..Level : n \in 1..Level
  BY <1>1
<1> QED BY <1>2, <1>3, Walking, EnterPath

LEMMA FollowKeepsInv ==
  ASSUME IndInv, Follow
  PROVE  IndInv'
<1> DEFINE g == entries[Here].val
<1>1. /\ Here \in Places /\ Level \in Nat \ {0} /\ Level \in 1..Level
      /\ Descending /\ entries[Here].ext /\ Enter(g)
  BY Walking DEF Here, Follow
<1>2. g \in Groups /\ Here \in Linkers
  BY <1>1 DEF IndInv, TablesOK, Linkers
<1>3. \A n \in 2..Level : op.path[n] # g
  <2> SUFFICES ASSUME NEW n \in 2..Level, op.path[n] = g PROVE FALSE
    OBVIOUS
  <2>1. op.path[Level] = op.path[n - 1]
    BY <1>2 DEF IndInv, LinksOK, LinkedOnTheWay, Here, Place
  <2>2. n - 1 \in 1..Level
    BY <1>1
  <2>3. Level = n - 1
    BY <1>1, <2>1, <2>2 DEF IndInv, LinksOK, NoLoop
  <2> QED BY <1>1, <2>3
<1>4. UNCHANGED tables /\ UNCHANGED Local /\ intact' = intact
  BY DEF Follow
<1>5. Linkers' = Linkers
  BY <1>4 DEF Linkers, tables
<1>6. \A p \in Linkers' : entries'[p].val = g => p = Here
  BY <1>2, <1>4, <1>5 DEF IndInv, LinksOK, OneLink, tables
<1>7. LinksOK'
  <2>1. \A p \in Linkers' : p \in Linkers /\ entries'[p] = entries[p]
    BY <1>4, <1>5 DEF tables
  <2> QED BY <1>1, <1>2, <1>3, <1>6, <2>1, LinksEntered
<1>8. PoolOK'
  <2>1. PoolDistinct' /\ PoolUnlinked'
    BY <1>4, <1>5 DEF IndInv, PoolOK, PoolDistinct, PoolUnlinked, tables
  <2>2. \A i \in 1..Len(free) : free[i] # g
    BY <1>2 DEF IndInv, PoolOK, PoolUnlinked
  <2>3. \A n \in 2..Level' : op'.path[n] = g \/ (n \in 2..Level /\ op'.path[n] = op.path[n])
    BY <1>1, <1>2, EnterPath
  <2>4. PoolOffPath'
    BY <1>4, <2>2, <2>3 DEF IndInv, PoolOK, PoolOffPath, tables
  <2> QED BY <2>1, <2>4 DEF PoolOK
<1>9. TablesOK'
  BY <1>4 DEF IndInv, TablesOK, tables
<1> QED BY <1>1, <1>2, <1>4, <1>7, <1>8, <1>9, EnterPath, EnteredOnPath,
          StepKeepsInv DEF IndInv

\* Taking a group from the pool, to be linked or walked through.
LEMMA PoolTaken ==
  ASSUME IndInv, free # <<>>, free' = Tail(free),
         \A p \in Linkers' : \/ p \in Linkers /\ entries'[p] = entries[p]
                             \/ entries'[p].val = Head(free),
         \A n \in 2..Level' : \/ n \in 2..Level /\ op'.path[n] = op.path[n]
                              \/ op'.path[n] = Head(free)
  PROVE  free' \in Seq(Groups) /\ PoolOK'
<1>1. free \in Seq(Groups) /\ Len(free) \in Nat
  BY LenProperties DEF IndInv, TablesOK
<1>2. /\ free' \in Seq(Groups) /\ Len(free') = Len(free) - 1
      /\ \A i \in 1..Len(free') : free'[i] = free[i + 1]
  BY <1>1, HeadTailProperties
<1>3. Len(free) # 0 /\ 1 \in 1..Len(free) /\ Head(free) = free[1]
  BY <1>1, EmptySeq
<1>4. \A i \in 1..Len(free') :
        i + 1 \in 1..Len(free) /\ i + 1 # 1 /\ free'[i] = free[i + 1]
  BY <1>1, <1>2
<1>5. \A i \in 1..Len(free') : free'[i] # Head(free)
  BY <1>3, <1>4 DEF IndInv, PoolOK, PoolDistinct
<1>6. PoolDistinct'
  <2> SUFFICES ASSUME NEW i \in 1..Len(free'), NEW j \in 1..Len(free'), free'[i] = free'[j]
               PROVE  i = j
    BY DEF PoolDistinct
  <2>1. i + 1 = j + 1
    BY <1>4 DEF IndInv, PoolOK, PoolDistinct
  <2> QED BY <1>1, <1>2, <2>1
<1>7. PoolUnlinked'
  BY <1>4, <1>5 DEF IndInv, PoolOK, PoolUnlinked
<1>8. PoolOffPath'
  BY <1>4, <1>5 DEF IndInv, PoolOK, PoolOffPath
<1> QED BY <1>2, <1>6, <1>7, <1>8 DEF PoolOK

LEMMA AllocKeepsInv ==
  ASSUME IndInv, tbl8_alloc
  PROVE  IndInv'
<1> DEFINE g == Head(free)
           filled == Written({g} \X Slots, Initial(entries[Here]))
<1>1. /\ Here \in Places /\ Level \in Nat \ {0}
      /\ Descending /\ ~entries[Here].ext /\ free # <<>>
      /\ entries' = IF op.pc = "root" THEN [filled EXCEPT ![Here] = Link(g)] ELSE filled
      /\ free' = Tail(free) /\ Enter(g)
      /\ UNCHANGED Local /\ intact' = intact
  BY Walking DEF Here, tbl8_alloc
<1>2. /\ entries \in [Places -> [ext : BOOLEAN, val : Hops]]
      /\ \A p \in Places : entries[p].ext => entries[p].val \in Groups
      /\ free \in Seq(Groups)
  BY DEF IndInv, TablesOK
<1>3. g \in Groups /\ 1 \in 1..Len(free) /\ g = free[1]
  BY <1>1, <1>2, HeadTailProperties, EmptySeq
<1>4. /\ \A n \in 2..Level : op.path[n] # g
      /\ \A p \in Linkers : entries[p].val # g
  BY <1>3 DEF IndInv, PoolOK, PoolOffPath, PoolUnlinked
<1>5. /\ filled \in [Places -> [ext : BOOLEAN, val : Hops]]
      /\ \A p \in Places : filled[p] = entries[p] \/ ~filled[p].ext
  BY <1>1, <1>2 DEF Written, Initial
<1>6. Link(g) \in [ext : BOOLEAN, val : Hops] /\ Link(g).ext /\ Link(g).val = g
  BY <1>3, Sizes DEF Link
<1> HIDE DEF filled, g
<1>7. /\ entries' \in [Places -> [ext : BOOLEAN, val : Hops]]
      /\ \A p \in Places : \/ entries'[p] = entries[p]
                           \/ ~entries'[p].ext
                           \/ p = Here /\ entries'[p] = Link(g)
  BY <1>1, <1>5, <1>6
<1>8. \A p \in Linkers' : \/ p \in Linkers /\ entries'[p] = entries[p]
                          \/ p = Here /\ entries'[p].val = g
  BY <1>6, <1>7 DEF Linkers
<1>9. TablesOK'
  <2>1. \A p \in Places : entries'[p].ext => entries'[p].val \in Groups
    BY <1>2, <1>3, <1>6, <1>7
  <2>2. free' \in Seq(Groups)
    BY <1>1, <1>2, HeadTailProperties
  <2> QED BY <1>7, <2>1, <2>2 DEF TablesOK
<1>10. LinksOK'
  <2>1. \A p \in Linkers' : entries'[p].val = g => p = Here
    BY <1>4, <1>8
  <2> QED BY <1>1, <1>3, <1>4, <1>8, <2>1, LinksEntered
<1>11. PoolOK'
  <2>1. \A n \in 2..Level' : \/ n \in 2..Level /\ op'.path[n] = op.path[n]
                             \/ op'.path[n] = g
    BY SMTT(30), <1>1, <1>3, EnterPath
  <2> QED BY <1>1, <1>8, <2>1, PoolTaken DEF g
<1>12. intact' \in BOOLEAN
  BY <1>1 DEF IndInv
<1> QED BY <1>1, <1>3, <1>9, <1>10, <1>11, <1>12, EnterPath, EnteredOnPath, StepKeepsInv

LEMMA OutOfGroupsKeepsInv ==
  ASSUME IndInv, OutOfGroups
  PROVE  IndInv'
<1>1. op \in Call /\ op.pc \in {"root", "ledge", "redge"} /\ op.up = FALSE
  BY DEF OutOfGroups, Descending, IndInv, OpOK, Progress, Edges, Call
<1>2. /\ op' \in Call /\ op'.pc = "failed" /\ op'.call = op.call
      /\ op'.path = op.path /\ op'.up = FALSE
  BY <1>1 DEF OutOfGroups, Call
<1>3. Level' = Level
  BY <1>2 DEF Level
<1>4. GoesBack
  BY <1>2, <1>3, Walking DEF GoesBack, Edges
<1>5. TablesOK' /\ LinksOK' /\ PoolOK'
  BY <1>4, TablesKept DEF OutOfGroups
<1>6. Progress'
  BY <1>2 DEF Progress, Edges
<1>7. UNCHANGED Local /\ intact' \in BOOLEAN
  BY DEF OutOfGroups
<1> QED BY <1>1, <1>2, <1>4, <1>5, <1>6, <1>7, BackOnPath, StepKeepsInv

-----------------------------------------------------------------------------
(* Up *)

\* The way of a call that goes on writing at a table at or below the root.
LEMMA AscendPath ==
  ASSUME IndInv, op.pc \in Edges, NEW level \in 1..Level, level >= Root, FoldAscend(level)
  PROVE  /\ op' \in Call /\ op'.pc # "idle" /\ op'.call = op.call
         /\ Level' = level /\ GoesBack /\ Progress'
<1>1. /\ op \in Call /\ op.path \in Seq(Groups \cup {tbl24})
      /\ Level \in Nat \ {0} /\ Root \in Nat
  BY Walking DEF IndInv, OpOK
<1> DEFINE path == SubSeq(op.path, 1, level)
           pc == IF level > Root THEN op.pc
                 ELSE IF op.pc = "ledge" THEN "between" ELSE "recycle"
<1>2. /\ path \in Seq(Groups \cup {tbl24}) /\ Len(path) = level
      /\ \A n \in 1..level : path[n] = op.path[n]
  <2>1. \A n \in 1..level : op.path[n] \in Groups \cup {tbl24}
    BY <1>1, ElementOfSeq DEF Level
  <2>2. 1 \in Int /\ level \in Int /\ 1 <= level
    BY <1>1
  <2> QED BY <2>1, <2>2, SubSeqProperties
<1>3. op' = [op EXCEPT !.path = path, !.up = level > Root, !.pc = pc]
  BY DEF FoldAscend
<1>4. /\ pc \in {"ledge", "redge", "between", "recycle"}
      /\ pc \in Edges => pc = op.pc /\ level > Root
      /\ level > Root => pc \in Edges
      /\ pc = "between" => level = Root
  BY <1>1 DEF Edges
<1>5. (level > Root) \in BOOLEAN
  OBVIOUS
<1> HIDE DEF path, pc
<1>6. /\ op' \in Call /\ op'.pc = pc /\ op'.call = op.call /\ op'.path = path
      /\ op'.ledge = op.ledge /\ op'.redge = op.redge /\ op'.up = (level > Root)
  BY <1>1, <1>2, <1>3, <1>4, <1>5 DEF Call
<1>7. Level' = level /\ Root' = Root
  BY <1>2, <1>6 DEF Level, Root
<1>8. op'.pc = op.pc => \A n \in 1..level : Place(n)' = Place(n)
  BY <1>2, <1>6 DEF Place, Edge
<1>9. GoesBack
  <2>1. \A n \in 2..level : n - 1 \in 1..level
    BY <1>1
  <2> QED BY <1>2, <1>4, <1>6, <1>7, <1>8, <2>1 DEF GoesBack
<1>10. Progress'
  BY <1>1, <1>4, <1>6, <1>7 DEF Progress, Edges
<1> QED BY <1>4, <1>6, <1>7, <1>9, <1>10

\* Writing a next hop over entries drops links only.
LEMMA WrittenLeaves ==
  ASSUME IndInv, NEW places
  PROVE  /\ Written(places, Leaf(op.hop)) \in [Places -> [ext : BOOLEAN, val : Hops]]
         /\ \A p \in Places : \/ Written(places, Leaf(op.hop))[p] = entries[p]
                              \/ ~Written(places, Leaf(op.hop))[p].ext
<1>1. Leaf(op.hop) \in [ext : BOOLEAN, val : Hops] /\ ~Leaf(op.hop).ext
  BY DEF IndInv, OpOK, Call, Leaf
<1>2. entries \in [Places -> [ext : BOOLEAN, val : Hops]]
  BY DEF IndInv, TablesOK
<1> QED BY <1>1, <1>2 DEF Written

\* The types of the tables after a step that makes no link.
LEMMA DroppedType ==
  ASSUME IndInv, entries' \in [Places -> [ext : BOOLEAN, val : Hops]],
         \A p \in Places : entries'[p] = entries[p] \/ ~entries'[p].ext,
         free' \in Seq(Groups)
  PROVE  TablesOK' /\ LinksDropped
BY DEF IndInv, TablesOK, LinksDropped

LEMMA WriteBottomKeepsInv ==
  ASSUME IndInv, FoldBottom
  PROVE  IndInv'
<1>1. op \in Call /\ op.pc \in Edges /\ Level \in Nat \ {0} /\ Level >= Root /\ Root \in Nat
  BY Walking DEF FoldBottom, IndInv, OpOK, Edges, Progress
<1>2. TablesOK' /\ LinksDropped /\ free' = free
  <2>1. entries' = Written({Here}, Leaf(op.hop)) /\ free' = free /\ free \in Seq(Groups)
    BY DEF FoldBottom, IndInv, TablesOK
  <2> QED BY <2>1, WrittenLeaves, DroppedType
<1>3. /\ op' \in Call /\ op'.pc # "idle" /\ op'.call = op.call
      /\ GoesBack /\ Progress'
  <2>1. CASE Level > Root
    <3>1. op' = [op EXCEPT !.up = TRUE]
      BY <2>1 DEF FoldBottom
    <3>2. /\ op' \in Call /\ op'.pc = op.pc /\ op'.call = op.call /\ op'.path = op.path
          /\ op'.ledge = op.ledge /\ op'.redge = op.redge
      BY <1>1, <3>1 DEF Call
    <3>3. Level' = Level /\ Root' = Root
      BY <3>2 DEF Level, Root
    <3>4. \A n : Place(n)' = Place(n)
      BY <3>2 DEF Place, Edge
    <3>5. GoesBack
      BY <1>1, <3>2, <3>3, <3>4 DEF GoesBack
    <3>6. Progress'
      BY <1>1, <2>1, <3>2, <3>3 DEF Progress, Edges
    <3> QED BY <1>1, <3>2, <3>5, <3>6 DEF Edges
  <2>2. CASE ~(Level > Root)
    <3>1. FoldAscend(Level) /\ Level \in 1..Level
      BY <1>1, <2>2 DEF FoldBottom
    <3> QED BY <1>1, <3>1, AscendPath
  <2> QED BY <2>1, <2>2
<1>4. LinksOK' /\ PoolOK'
  BY <1>2, <1>3, LinksKept, PoolKept
<1>5. op.pc # "idle" /\ UNCHANGED Local /\ intact' \in BOOLEAN
  BY <1>1 DEF FoldBottom, Edges, IndInv
<1> QED BY <1>2, <1>3, <1>4, <1>5, BackOnPath, StepKeepsInv

\* What tbl8_recycle does to the tables.
LEMMA FoldedType ==
  ASSUME NEW table \in [Places -> [ext : BOOLEAN, val : Hops]],
         NEW g \in Groups, NEW place, Recyclable(table, g)
  PROVE  /\ Folded(table, place, g) \in [Places -> [ext : BOOLEAN, val : Hops]]
         /\ \A p \in Places : \/ Folded(table, place, g)[p] = table[p] /\ p # place
                              \/ ~Folded(table, place, g)[p].ext
<1>1. <<g, 0>> \in Places
  BY Sizes DEF Places
<1>2. table[<<g, 0>>] \in [ext : BOOLEAN, val : Hops] /\ ~table[<<g, 0>>].ext
  BY <1>1 DEF Recyclable, Uniform
<1>3. Leaf(0) \in [ext : BOOLEAN, val : Hops] /\ ~Leaf(0).ext
  BY Sizes DEF Leaf
<1> QED BY <1>2, <1>3 DEF Folded

LEMMA WriteRestKeepsInv ==
  ASSUME IndInv, FoldRest
  PROVE  IndInv'
<1> DEFINE g == op.path[Level]
           above == Place(Level - 1)
           filled == Written({g} \X Beside, Leaf(op.hop))
<1>1. /\ op \in Call /\ op.pc \in Edges /\ op.up
      /\ Level \in Nat \ {0} /\ Level > Root /\ Root \in Nat \ {0}
  BY Walking DEF FoldRest, IndInv, OpOK, Edges, Progress
<1>2. Level \in 2..Level /\ Level - 1 \in 1..Level /\ Level - 1 >= Root
  BY <1>1
<1>3. g \in Groups /\ above \in Places
  BY <1>2, Walking
<1>4. /\ op' \in Call /\ op'.pc # "idle" /\ op'.call = op.call
      /\ Level' = Level - 1 /\ GoesBack /\ Progress'
  BY <1>1, <1>2, AscendPath DEF FoldRest
<1>5. /\ filled \in [Places -> [ext : BOOLEAN, val : Hops]]
      /\ \A p \in Places : filled[p] = entries[p] \/ ~filled[p].ext
  BY WrittenLeaves
<1>6. /\ \A i \in 1..Len(free) : free[i] # g
      /\ \A p \in Linkers : entries[p].val = g => p = above
      /\ \A n \in 1..(Level - 1) : op.path[n] # g
  <2>1. \A i \in 1..Len(free) : free[i] # g
    BY <1>2 DEF IndInv, PoolOK, PoolOffPath
  <2>2. \A p \in Linkers : entries[p].val = g => p = above
    BY <1>1, <1>2 DEF IndInv, LinksOK, LinkedOnTheWay
  <2>3. \A n \in 1..(Level - 1) : n \in 1..Level /\ Level \in 1..Level /\ n # Level
    BY <1>1
  <2>4. \A n \in 1..(Level - 1) : op.path[n] # g
    BY <2>3 DEF IndInv, LinksOK, NoLoop
  <2> QED BY <2>1, <2>2, <2>4
<1>7. free \in Seq(Groups)
  BY DEF IndInv, TablesOK
<1>8. TablesOK' /\ LinksOK' /\ PoolOK'
  <2>1. CASE Recyclable(filled, g)
    <3>1. entries' = Folded(filled, above, g) /\ free' = tbl8_put(g)
      BY <2>1 DEF FoldRest
    <3> HIDE DEF g, above, filled
    <3>2. /\ entries' \in [Places -> [ext : BOOLEAN, val : Hops]]
          /\ \A p \in Places : \/ entries'[p] = filled[p] /\ p # above
                               \/ ~entries'[p].ext
      BY <1>3, <1>5, <2>1, <3>1, FoldedType
    <3>3. \A p \in Places : entries'[p].ext => entries'[p] = entries[p] /\ p # above
      BY <1>5, <3>2
    <3>4. LinksDropped
      BY <3>3 DEF LinksDropped
    <3>5. \A p \in Linkers' : entries'[p].val # g
      BY <1>6, <3>3 DEF Linkers
    <3>6. \A n \in 2..Level' : op'.path[n] # g
      <4>1. \A n \in 2..Level' : n \in 1..Level' /\ n \in 1..(Level - 1)
        BY <1>1, <1>4
      <4> QED BY <1>6, <4>1, <1>4 DEF GoesBack
    <3>7. free' \in Seq(Groups) /\ PoolOK'
      BY <1>3, <1>4, <1>6, <3>1, <3>4, <3>5, <3>6, PoolPut
    <3>8. \A p \in Places : entries'[p] = entries[p] \/ ~entries'[p].ext
      BY <3>3
    <3> QED BY <1>4, <3>2, <3>4, <3>7, <3>8, DroppedType, LinksKept
  <2>2. CASE ~Recyclable(filled, g)
    <3>1. entries' = [filled EXCEPT ![above] = Link(g)] /\ free' = free
      BY <2>2 DEF FoldRest
    <3>2. Link(g) \in [ext : BOOLEAN, val : Hops] /\ Link(g).ext /\ Link(g).val = g
      BY <1>3, Sizes DEF Link
    <3> HIDE DEF g, above, filled
    <3>3. /\ entries' \in [Places -> [ext : BOOLEAN, val : Hops]]
          /\ entries'[above] = Link(g)
          /\ \A p \in Places : p # above => entries'[p] = filled[p]
      BY <1>3, <1>5, <3>1, <3>2
    <3>4. \A p \in Linkers' :
            \/ /\ p # above /\ p \in Linkers
               /\ entries'[p] = entries[p] /\ entries[p].val # g
            \/ p = above /\ entries'[p].val = g
      BY <1>5, <1>6, <3>2, <3>3 DEF Linkers
    <3>5. TablesOK'
      <4>1. \A p \in Places : entries'[p].ext => entries'[p].val \in Groups
        BY <1>3, <3>4 DEF IndInv, TablesOK, Linkers
      <4> QED BY <1>7, <3>1, <3>3, <4>1 DEF TablesOK
    <3>6. OneLink'
      BY <3>4 DEF OneLink, IndInv, LinksOK
    <3>7. NoLoop'
      <4>1. \A n \in 1..Level' : n \in 1..Level /\ op'.path[n] = op.path[n]
        BY <1>1, <1>4 DEF GoesBack
      <4> QED BY <4>1 DEF NoLoop, IndInv, LinksOK
    <3>8. LinkedOnTheWay'
      <4> SUFFICES ASSUME NEW n \in 2..Level', NEW p \in Linkers',
                          entries'[p].val = op'.path[n]
                   PROVE  /\ p[1] = op'.path[n - 1]
                          /\ op'.pc \in Edges /\ n > Root' => p = Place(n - 1)'
        BY DEF LinkedOnTheWay
      <4>1. n \in 2..Level /\ n \in 1..(Level - 1) /\ n \in 1..Level' /\ n - 1 \in 1..Level'
        BY <1>1, <1>4
      <4>2. op'.path[n] = op.path[n] /\ op'.path[n - 1] = op.path[n - 1] /\ op.path[n] # g
        BY <1>4, <1>6, <4>1 DEF GoesBack
      <4>3. p \in Linkers /\ entries[p].val = op.path[n]
        BY <3>4, <4>2
      <4>4. p[1] = op.path[n - 1] /\ (op.pc \in Edges /\ n > Root => p = Place(n - 1))
        BY <4>1, <4>3 DEF LinkedOnTheWay, IndInv, LinksOK
      <4> QED BY <1>4, <4>2, <4>4 DEF GoesBack
    <3>9. PoolOK'
      <4>1. PoolDistinct'
        BY <3>1 DEF IndInv, PoolOK, PoolDistinct
      <4>2. PoolUnlinked'
        BY <1>6, <3>1, <3>4 DEF IndInv, PoolOK, PoolUnlinked
      <4>3. \A n \in 2..Level' : n \in 2..Level /\ op'.path[n] = op.path[n]
        BY <1>1, <1>4 DEF GoesBack
      <4>4. PoolOffPath'
        BY <3>1, <4>3 DEF IndInv, PoolOK, PoolOffPath
      <4> QED BY <4>1, <4>2, <4>4 DEF PoolOK
    <3> QED BY <3>5, <3>6, <3>7, <3>8, <3>9 DEF LinksOK
  <2> QED BY <2>1, <2>2
<1>9. op.pc # "idle" /\ UNCHANGED Local /\ intact' \in BOOLEAN
  BY <1>1 DEF FoldRest, Edges, IndInv
<1> QED BY <1>4, <1>8, <1>9, BackOnPath, StepKeepsInv

LEMMA WriteBetweenKeepsInv ==
  ASSUME IndInv, WriteBetween
  PROVE  IndInv'
<1>1. /\ op \in Call /\ op.pc = "between" /\ op.up = FALSE
      /\ Level = Root /\ Level \in Nat \ {0}
  BY Walking DEF WriteBetween, IndInv, OpOK, Progress, Edges, Call
<1>2. /\ op' \in Call /\ op'.pc = "redge" /\ op'.call = op.call /\ op'.path = op.path
      /\ op'.ledge = op.ledge /\ op'.redge = op.redge /\ op'.up = FALSE
  BY <1>1 DEF WriteBetween, Call
<1>3. Level' = Level /\ Root' = Root
  BY <1>2 DEF Level, Root
<1>4. GoesBack /\ Progress'
  BY <1>1, <1>2, <1>3 DEF GoesBack, Progress, Edges
<1>5. TablesOK' /\ LinksDropped /\ free' = free
  <2>1. /\ free' = free /\ free \in Seq(Groups)
        /\ \E places : entries' = Written(places, Leaf(op.hop))
    BY DEF WriteBetween, IndInv, TablesOK
  <2> QED BY <2>1, WrittenLeaves, DroppedType
<1>6. LinksOK' /\ PoolOK'
  BY <1>4, <1>5, LinksKept, PoolKept
<1>7. UNCHANGED Local /\ intact' \in BOOLEAN
  BY DEF WriteBetween, IndInv
<1> QED BY <1>1, <1>2, <1>4, <1>5, <1>6, <1>7, BackOnPath, StepKeepsInv

LEMMA RecycleRootKeepsInv ==
  ASSUME IndInv, RecycleRoot
  PROVE  IndInv'
<1> DEFINE g == entries[Here].val
<1>1. /\ op \in Call /\ op.pc = "recycle" /\ op.up = FALSE
      /\ Level \in Nat \ {0} /\ Here \in Places /\ op.redge \in Address
      /\ op.path \in Seq(Groups \cup {tbl24})
  BY Walking DEF RecycleRoot, IndInv, OpOK, Progress, Edges, Call, Here
<1>2. /\ op' \in Call /\ op'.pc # "idle" /\ op'.call = op.call
      /\ GoesBack /\ Progress'
  <2>1. CASE Level > 1
    <3>1. op' = [op EXCEPT !.path = SubSeq(op.path, 1, Level - 1)]
      BY <2>1 DEF RecycleRoot, Front, Level
    <3>2. /\ SubSeq(op.path, 1, Level - 1) \in Seq(Groups \cup {tbl24})
          /\ Len(SubSeq(op.path, 1, Level - 1)) = Level - 1
          /\ \A n \in 1..(Level - 1) : SubSeq(op.path, 1, Level - 1)[n] = op.path[n]
      <4>1. \A n \in 1..(Level - 1) : op.path[n] \in Groups \cup {tbl24}
        BY <1>1, ElementOfSeq DEF Level
      <4>2. 1 \in Int /\ Level - 1 \in Int /\ 1 <= Level - 1
        BY <1>1, <2>1
      <4>3. Level - 1 - 1 + 1 = Level - 1
        BY <1>1
      <4> QED BY <4>1, <4>2, <4>3, SubSeqProperties
    <3>3. /\ op' \in Call /\ op'.pc = "recycle" /\ op'.call = op.call /\ op'.up = FALSE
          /\ op'.path = SubSeq(op.path, 1, Level - 1)
      BY <1>1, <3>1, <3>2 DEF Call
    <3>4. Level' = Level - 1
      BY <3>2, <3>3 DEF Level
    <3>5. GoesBack
      BY <1>1, <2>1, <3>2, <3>3, <3>4 DEF GoesBack, Edges
    <3>6. Progress'
      BY <3>3 DEF Progress, Edges
    <3> QED BY <3>3, <3>5, <3>6
  <2>2. CASE ~(Level > 1)
    <3>1. op' = [op EXCEPT !.pc = "gap", !.ledge = op.redge]
      BY <2>2 DEF RecycleRoot
    <3>2. /\ op' \in Call /\ op'.pc = "gap" /\ op'.call = op.call /\ op'.up = FALSE
          /\ op'.path = op.path
      BY <1>1, <3>1 DEF Call
    <3>3. Level' = Level
      BY <3>2 DEF Level
    <3>4. Level = 1
      BY <1>1, <2>2
    <3>5. GoesBack /\ Progress'
      BY <3>2, <3>3, <3>4 DEF GoesBack, Progress, Edges
    <3> QED BY <3>2, <3>5
  <2> QED BY <2>1, <2>2
<1>3. TablesOK' /\ LinksOK' /\ PoolOK'
  <2>1. CASE UNCHANGED tables
    BY <1>2, <2>1, TablesKept
  <2>2. CASE ~UNCHANGED tables
    <3>1. /\ entries[Here].ext /\ Recyclable(entries, g)
          /\ entries' = Folded(entries, Here, g) /\ free' = tbl8_put(g)
      BY <2>2 DEF RecycleRoot
    <3>2. g \in Groups /\ Here \in Linkers
      BY <1>1, <3>1 DEF IndInv, TablesOK, Linkers
    <3>3. \A p \in Linkers : entries[p].val = g => p = Here
      BY <3>2 DEF IndInv, LinksOK, OneLink
    <3>4. \A n \in 2..Level : op.path[n] # g
      <4> SUFFICES ASSUME NEW n \in 2..Level, op.path[n] = g PROVE FALSE
        OBVIOUS
      <4>1. op.path[Level] = op.path[n - 1]
        BY <3>2 DEF IndInv, LinksOK, LinkedOnTheWay, Here, Place
      <4>2. n - 1 \in 1..Level /\ Level \in 1..Level
        BY <1>1
      <4>3. Level = n - 1
        BY <4>1, <4>2 DEF IndInv, LinksOK, NoLoop
      <4> QED BY <1>1, <4>3
    <3>5. \A i \in 1..Len(free) : free[i] # g
      BY <3>2 DEF IndInv, PoolOK, PoolUnlinked
    <3> HIDE DEF g
    <3>6. entries \in [Places -> [ext : BOOLEAN, val : Hops]]
      BY DEF IndInv, TablesOK
    <3>7. /\ entries' \in [Places -> [ext : BOOLEAN, val : Hops]]
          /\ \A p \in Places : \/ entries'[p] = entries[p] /\ p # Here
                               \/ ~entries'[p].ext
      BY <3>1, <3>2, <3>6, FoldedType
    <3>8. LinksDropped
      BY <3>7 DEF LinksDropped
    <3>9. \A p \in Linkers' : entries'[p].val # g
      BY <3>3, <3>7 DEF Linkers
    <3>10. \A n \in 2..Level' : op'.path[n] # g
      <4>1. \A n \in 2..Level' : n \in 2..Level /\ n \in 1..Level'
        BY <1>1, <1>2 DEF GoesBack
      <4> QED BY <1>2, <3>4, <4>1 DEF GoesBack
    <3>11. free' \in Seq(Groups) /\ PoolOK'
      BY <1>2, <3>1, <3>2, <3>5, <3>8, <3>9, <3>10, PoolPut
    <3>12. \A p \in Places : entries'[p] = entries[p] \/ ~entries'[p].ext
      BY <3>7
    <3> QED BY <1>2, <3>7, <3>8, <3>11, <3>12, DroppedType, LinksKept
  <2> QED BY <2>1, <2>2
<1>4. UNCHANGED Local /\ intact' \in BOOLEAN
  BY DEF RecycleRoot, IndInv
<1> QED BY <1>1, <1>2, <1>3, <1>4, BackOnPath, StepKeepsInv

-----------------------------------------------------------------------------
(* The end of a call, and the theorems *)

LEMMA ReturnsKeepInv ==
  ASSUME IndInv, Succeed \/ Fail
  PROVE  IndInv'
<1>1. /\ RibOK /\ op \in Call /\ op.key \in Network /\ op.hop \in Hops /\ op.hop \in Nat
      /\ op.diff \in Int
  BY Sizes DEF IndInv, OpOK, Call
<1>2. type' = type /\ op' = Idle /\ UNCHANGED tables /\ intact' = intact
  BY DEF Succeed, Fail
<1>3. GoesBack /\ Level' = 1 /\ op'.path = <<tbl24>> /\ op'.pc = "idle" /\ op'.up = FALSE
  BY <1>2, AtTop, IdleOK
<1>4. TablesOK' /\ LinksOK' /\ PoolOK'
  BY <1>2, <1>3, TablesKept
<1>5. OpOK' /\ Progress'
  BY <1>2, <1>3, IdleOK, Sizes DEF OpOK, Progress, Edges
<1>6. rsvd_tbl8s \in 0..(RSVD_MOD - 1) /\ (rsvd_tbl8s + op.diff) % RSVD_MOD \in 0..(RSVD_MOD - 1)
  <2>1. rsvd_tbl8s \in 0..(RSVD_MOD - 1)
    BY <1>1 DEF RibOK
  <2>2. rsvd_tbl8s + op.diff \in Int
    BY <1>1, <2>1, Sizes
  <2> QED BY <2>1, <2>2, Sizes, RemainderRange
<1>7. RibOK'
  <2>1. CASE Succeed /\ op.call = "add"
    <3>1. UNCHANGED <<type, rib>> /\ rsvd_tbl8s' \in 0..(RSVD_MOD - 1)
      BY <1>2, <1>6, <2>1 DEF Succeed
    <3> QED BY <1>1, <3>1 DEF RibOK
  <2>2. CASE Succeed /\ op.call = "change"
    <3>1. rib' = WithRule(rib, op.key, op.hop) /\ rsvd_tbl8s' = rsvd_tbl8s
      BY <2>2 DEF Succeed
    <3> QED BY <1>1, <1>2, <1>6, <3>1, WithRuleOK
  <2>3. CASE Succeed /\ op.call = "delete"
    <3>1. Removed(op.key, op.diff)
      BY <2>3 DEF Succeed
    <3> QED BY <1>1, <1>2, <3>1, RemovedOK
  <2>4. CASE Fail
    <3>1. /\ rib' = rib \/ rib' = WithoutRules(rib, {op.key})
          /\ rsvd_tbl8s' = rsvd_tbl8s
      BY <2>4 DEF Fail
    <3> QED BY <1>1, <1>2, <1>6, <3>1, SameRibOK, WithoutRulesOK
  <2> QED BY <2>1, <2>2, <2>3, <2>4 DEF Succeed
<1> QED BY <1>2, <1>4, <1>5, <1>7 DEF IndInv

\* Every call, every step of an update and every lookup keeps the invariant.
THEOREM NextKeepsInv == IndInv /\ [FoldNext]_vars => IndInv'
<1> SUFFICES ASSUME IndInv, [FoldNext]_vars PROVE IndInv'
  OBVIOUS
<1>1. ASSUME NEW r \in Routes, RejectDepth(r) PROVE IndInv'
  <2>1. UNCHANGED <<type, rib, rsvd_tbl8s>> /\ Return("EINVAL")
    BY <1>1 DEF RejectDepth, Return
  <2>2. RibOK'
    BY <2>1, SameRibOK DEF IndInv
  <2> QED BY <2>1, <2>2, ReturnKeepsInv
<1>2. ASSUME NEW r \in Routes, NEW hop \in NextHops, rte_fib6_add(r, hop) PROVE IndInv'
  BY <1>2, AddKeepsInv
<1>3. ASSUME NEW r \in Routes, rte_fib6_delete(r) PROVE IndInv'
  BY <1>3, DeleteKeepsInv
<1>4. CASE (\E ip \in Probes : rte_fib6_lookup_bulk(ip)) \/ UNCHANGED vars
  <2>1. UNCHANGED <<type, rib, tables, rsvd_tbl8s, op, intact>>
    BY <1>4 DEF rte_fib6_lookup_bulk, vars
  <2>2. RibOK'
    BY <2>1, SameRibOK DEF IndInv
  <2> QED BY <2>1, <2>2, NoWriteKeepsInv DEF IndInv
<1>5. CASE FoldStep
  BY <1>5, GapKeepsInv, FollowKeepsInv, AllocKeepsInv, OutOfGroupsKeepsInv,
     WriteBottomKeepsInv, WriteRestKeepsInv, WriteBetweenKeepsInv,
     RecycleRootKeepsInv, ReturnsKeepInv DEF FoldStep
<1> QED BY <1>1, <1>2, <1>3, <1>4, <1>5 DEF FoldNext

\* Every index of a walk lies in its table, links lead to groups that exist,
\* next hops fit their width, and tbl8_put never steps before the start of the
\* pool (install_to_dp, write_edge, recycle_root_path).
THEOREM TypeCorrect == FoldSpec => []TypeOK
<1> QED BY InvariantParts, CreateEstablishesInv, NextKeepsInv, PTL DEF FoldSpec

\* The pool holds no group that an entry links or the running update has
\* taken, none twice, and no two entries share one, also after updates that
\* have run out of groups in the middle (tbl8_get, tbl8_put, write_edge).
THEOREM GroupsNeverShared == FoldSpec => []LinkedTaken
<1> QED BY InvariantParts, CreateEstablishesInv, NextKeepsInv, PTL DEF FoldSpec

\* write_edge folds a group back only where its edge has walked through the
\* one entry that links it: the walk meets no table twice, and goes along
\* links of the tables above.
THEOREM WalksAreLinked == FoldSpec => []Sound
<1> QED BY InvariantParts, CreateEstablishesInv, NextKeepsInv, PTL DEF FoldSpec

-----------------------------------------------------------------------------
(* The dictionary of module Fib *)

\* What a running update has done to the RIB, and that it fails only where the
\* promise is given up.
UpdateOK ==
  /\ IsDictionary(rib)
  /\ op.call = "add" => op.key \in DOMAIN rib /\ rib[op.key] = op.hop
  /\ op.call = "delete" => op.key \in DOMAIN rib
  /\ op.pc = "failed" => ~intact

RefinementInv == IndInv /\ UpdateOK

\* The routes and the update that module Fib sees.
Seen == IF op.call = "add" THEN WithoutRules(rib, {op.key}) ELSE rib
Running ==
  IF op.pc = "idle"
  THEN [call |-> "none", key |-> [ip |-> 0, depth |-> 0], hop |-> MISS]
  ELSE IF op.call = "delete"
  THEN [call |-> "delete", key |-> op.key, hop |-> MISS]
  ELSE [call |-> "add", key |-> op.key, hop |-> op.hop]

Kept == UNCHANGED <<Seen, Running, intact, ret>>

LEMMA SameWords ==
  /\ \A status : Promise!Answer(status) = Answer(status)
  /\ \A r : Promise!Masked(r) = Masked(r)
  /\ \A R, keys : Promise!WithoutRules(R, keys) = WithoutRules(R, keys)
  /\ \A R, key, hop : Promise!WithRule(R, key, hop) = WithRule(R, key, hop)
  /\ \A R, ip : Promise!RibHop(R, ip) = RibHop(R, ip)
  /\ Promise!NoRules = NoRules /\ Promise!Address = Address
  /\ Promise!MISS = MISS /\ Promise!MAX_DEPTH = MAX_DEPTH
  /\ \A S : Promise!Cardinality(S) = Cardinality(S)
BY DEF Promise!Answer, Answer, Promise!Masked, Masked, Promise!ip6_mask_addr, ip6_mask_addr,
       Promise!MAX_DEPTH, MAX_DEPTH, Promise!WithoutRules, WithoutRules, Promise!WithRule,
       WithRule, Promise!RibHop, RibHop, Promise!LongestMatch, LongestMatch,
       Promise!Matching, Matching, Promise!NoRules, NoRules, Promise!Address, Address,
       Promise!MISS, MISS, Promise!Cardinality, Cardinality,
       Promise!IsFiniteSet, IsFiniteSet

LEMMA ShownAsKept == Kept => UNCHANGED Promise!vars
BY SameWords DEF Kept, Seen, Running, Promise!vars, WithoutRules, Promise!WithoutRules

LEMMA UpdatesNamed ==
  ASSUME NEW r \in Routes, r.depth <= MAX_DEPTH
  PROVE  /\ Promise!Deleting(Masked(r)) \in Promise!Updates
         /\ \A hop \in NextHops : Promise!Adding(Masked(r), hop) \in Promise!Updates
<1>1. r \in Promise!Valid /\ Promise!Masked(r) = Masked(r)
  BY SameWords DEF Promise!Valid
<1> QED BY <1>1 DEF Promise!Updates

LEMMA IdleShown ==
  /\ op = Idle => Seen = rib /\ Running = Promise!NoUpdate
  /\ op' = Idle => Seen' = rib' /\ Running' = Promise!NoUpdate
BY SameWords DEF Seen, Running, Idle, Promise!NoUpdate

\* Where no call runs, one is done at once, refused, or begins.
LEMMA Commits ==
  ASSUME op = Idle, op' = Idle, intact' = intact, ret' = Answer("ok"),
         NEW u \in Promise!Updates,
         u.call = "delete" => u.key \in DOMAIN rib,
         rib' = IF u.call = "add" THEN WithRule(rib, u.key, u.hop)
                                  ELSE WithoutRules(rib, {u.key})
  PROVE  Promise!Next
<1>1. /\ Seen = rib /\ Running = Promise!NoUpdate
      /\ Seen' = rib' /\ Running' = Promise!NoUpdate
  BY IdleShown
<1>2. Promise!Commit(u)
  BY <1>1, SameWords DEF Promise!Commit, Promise!Effect, Seen, Running
<1> QED BY <1>1, <1>2 DEF Promise!Next, Promise!Promised, Seen, Running

LEMMA Refuses ==
  ASSUME op = Idle, op' = Idle, intact' = intact, rib' = rib, NEW u \in Promise!Updates,
         \/ u.call = "add" /\ ~(u.hop <= MAX_NH) /\ ret' = Answer("EINVAL")
         \/ u.call = "add" /\ u.key \notin DOMAIN rib /\ ret' = Answer("ENOSPC")
         \/ /\ u.call = "add"
            /\ Cardinality(DOMAIN rib) >= MAX_ROUTES
            /\ ret' = Answer("ENOMEM")
         \/ u.call = "delete" /\ u.key \notin DOMAIN rib /\ ret' = Answer("ENOENT")
  PROVE  Promise!Next
<1>1. /\ Seen = rib /\ Running = Promise!NoUpdate
      /\ Seen' = rib' /\ Running' = Promise!NoUpdate
  BY IdleShown
<1>2. Promise!Refuse(u)
  BY <1>1, SameWords DEF Promise!Refuse, Promise!Fits, Seen, Running
<1> QED BY <1>1, <1>2 DEF Promise!Next, Promise!Promised, Seen, Running

LEMMA Begins ==
  ASSUME op = Idle, intact' = intact, ret' = Answer("pending"), NEW u \in Promise!Updates,
         u.call = "delete" => u.key \in DOMAIN rib, Running' = u, Seen' = rib
  PROVE  Promise!Next
<1>1. Seen = rib /\ Running = Promise!NoUpdate
  BY IdleShown
<1>2. Promise!Begin(u)
  BY <1>1, SameWords DEF Promise!Begin, Seen, Running
<1> QED BY <1>1, <1>2 DEF Promise!Next, Promise!Promised, Seen, Running

\* No route is refused for lack of nodes below the number the RIB is made for.
NodesSuffice == ret.status = "ENOMEM" => Cardinality(DOMAIN rib) >= MAX_ROUTES

\* How a call that writes looks from outside once it has begun.
LEMMA ModifyShown ==
  ASSUME NEW call, NEW key, NEW hop, NEW diff, modify_dp(call, key, hop, diff),
         call \in {"add", "change", "delete"}
  PROVE  /\ op'.pc = "gap" /\ op'.call = call /\ op'.key = key /\ op'.hop = hop
         /\ Running' = IF call = "delete" THEN Promise!Deleting(key)
                                          ELSE Promise!Adding(key, hop)
         /\ Seen' = IF call = "add" THEN WithoutRules(rib', {key}) ELSE rib'
         /\ ret' = Answer("pending") /\ intact' = intact
<1>1. op'.pc = "gap" /\ op'.call = call /\ op'.key = key /\ op'.hop = hop
  BY DEF modify_dp, Idle
<1> QED BY <1>1, SameWords DEF modify_dp, Running, Seen, Promise!Deleting, Promise!Adding

LEMMA AddRefines ==
  ASSUME RefinementInv, NEW r \in Routes, NEW hop \in NextHops, rte_fib6_add(r, hop)
  PROVE  /\ UpdateOK'
         /\ Promise!Next \/ NoNode(r)
         /\ NodesSuffice' => Promise!Next
<1> DEFINE key == Masked(r)
           u == Promise!Adding(key, hop)
<1>1. r.depth <= MAX_DEPTH /\ op = Idle /\ intact \in BOOLEAN
  BY DEF RefinementInv, IndInv, OpOK, rte_fib6_add, dummy_add, AddSame,
                   Change, AddRefused, Add, Called, NoNode, Return, modify_dp
<1>2. u \in Promise!Updates /\ u.call = "add" /\ u.key = key /\ u.hop = hop
  BY <1>1, UpdatesNamed DEF Promise!Adding
<1>3. IsDictionary(rib) /\ Idle.call = "none" /\ Idle.pc = "idle"
  BY DEF RefinementInv, UpdateOK, Idle
<1> HIDE DEF key, u
<1>4. ASSUME op' = Idle, IsDictionary(rib') PROVE UpdateOK'
  BY <1>3, <1>4 DEF UpdateOK
<1>5. CASE NoNode(r)
  <2>1. rib' = rib /\ op' = Idle /\ ret' = Answer("ENOMEM") /\ intact' = intact
    BY <1>1, <1>5 DEF NoNode, Return
  <2>2. ASSUME NodesSuffice' PROVE Promise!Next
    <3>1. Cardinality(DOMAIN rib) >= MAX_ROUTES
      BY <2>1, <2>2 DEF NodesSuffice, Answer
    <3> QED BY <1>1, <1>2, <2>1, <3>1, Refuses
  <2> QED BY <1>3, <1>4, <1>5, <2>1, <2>2
<1>6. CASE dummy_add(r, hop) /\ ~NoNode(r)
  <2>1. rib' = WithRule(rib, key, hop) /\ op' = Idle /\ ret' = Answer("ok")
        /\ intact' = intact
    BY <1>1, <1>6 DEF dummy_add, Return, key
  <2>2. IsDictionary(rib')
    BY <2>1, DictionaryKept
  <2> QED BY <1>1, <1>2, <1>4, <2>1, <2>2, Commits
<1>7. CASE AddSame(r, hop) /\ rib[key] = hop
  <2>1. /\ rib' = rib /\ op' = Idle /\ ret' = Answer("ok") /\ key \in DOMAIN rib
    BY <1>1, <1>7 DEF AddSame, key
  <2>2. WithRule(rib, key, hop) = rib
    BY <1>3, <1>7, <2>1, PutBack
  <2>3. intact' = intact
    <3>1. intact' = (intact /\ rib[key] = hop)
      BY <1>7 DEF AddSame, key
    <3> QED BY <1>1, <1>7, <3>1, Zenon
  <2> QED BY <1>1, <1>2, <1>3, <1>4, <2>1, <2>2, <2>3, Commits
<1>8. CASE AddSame(r, hop) /\ rib[key] # hop
  <2>1. rib' = rib /\ op' = Idle /\ ~intact'
    BY <1>1, <1>8 DEF AddSame, key
  <2> QED BY <1>3, <1>4, <2>1 DEF Promise!Next
<1>9. CASE AddRefused(r, hop) /\ ~NoNode(r)
  <2>1. rib' = rib /\ op' = Idle /\ key \notin DOMAIN rib /\ intact' = intact
    BY <1>1, <1>9 DEF AddRefused, Return, key
  <2>2. \/ ret' = Answer("ENOSPC")
        \/ ret' = Answer("EINVAL") /\ ~(hop <= MAX_NH)
    <3>1. hop > MAX_NH => ~(hop <= MAX_NH)
      BY Sizes, FibTrieAssumption
    <3> QED BY <1>9, <3>1 DEF AddRefused, Return
  <2> QED BY <1>1, <1>2, <1>3, <1>4, <2>1, <2>2, Refuses
<1>10. CASE Change(r, hop)
  <2>1. modify_dp("change", key, hop, 0) /\ rib' = rib /\ key \in DOMAIN rib
    BY <1>10 DEF Change, key
  <2>2. /\ op'.pc = "gap" /\ op'.call = "change" /\ Running' = u /\ Seen' = rib
        /\ ret' = Answer("pending") /\ intact' = intact
    <3>1. "change" \in {"add", "change", "delete"} /\ "change" \notin {"delete", "add"}
      OBVIOUS
    <3>2. /\ op'.pc = "gap" /\ op'.call = "change"
          /\ Running' = IF "change" = "delete" THEN Promise!Deleting(key)
                                               ELSE Promise!Adding(key, hop)
          /\ Seen' = IF "change" = "add" THEN WithoutRules(rib', {key}) ELSE rib'
          /\ ret' = Answer("pending") /\ intact' = intact
      BY <2>1, <3>1, ModifyShown
    <3> QED BY <2>1, <3>1, <3>2 DEF u
  <2>3. UpdateOK'
    BY <1>3, <2>1, <2>2 DEF UpdateOK
  <2> QED BY <1>1, <1>2, <2>2, <2>3, Begins
<1>11. CASE Add(r, hop)
  <2>1. rib' = WithRule(rib, key, hop) /\ key \notin DOMAIN rib
    BY <1>11 DEF Add, key
  <2>2. IsDictionary(rib') /\ key \in DOMAIN rib' /\ rib'[key] = hop
    <3>1. IsDictionary(rib')
      BY <2>1, DictionaryKept
    <3>2. key \in DOMAIN rib' /\ rib'[key] = hop
      BY <2>1 DEF WithRule
    <3> QED BY <3>1, <3>2
  <2>3. CASE Return("ok")
    <3>1. op' = Idle /\ ret' = Answer("ok") /\ intact' = intact
      BY <1>1, <2>3 DEF Return
    <3> QED BY <1>1, <1>2, <1>4, <2>1, <2>2, <3>1, Commits
  <2>4. CASE modify_dp("add", key, hop, depth_diff(r))
    <3>1. /\ op'.pc = "gap" /\ op'.call = "add" /\ op'.key = key /\ op'.hop = hop
          /\ Running' = u /\ Seen' = WithoutRules(rib', {key}) /\ ret' = Answer("pending")
          /\ intact' = intact
      BY <2>4, ModifyShown DEF u
    <3>2. Seen' = rib
      BY <1>3, <2>1, <3>1, TakenOutAgain
    <3>3. UpdateOK'
      BY <2>2, <3>1 DEF UpdateOK
    <3> QED BY <1>1, <1>2, <3>1, <3>2, <3>3, Begins
  <2> QED BY <1>11, <2>3, <2>4 DEF Add, key
<1> QED BY <1>5, <1>6, <1>7, <1>8, <1>9, <1>10, <1>11 DEF rte_fib6_add

LEMMA DeleteRefines ==
  ASSUME RefinementInv, NEW r \in Routes, rte_fib6_delete(r)
  PROVE  UpdateOK' /\ Promise!Next
<1> DEFINE key == Masked(r)
           u == Promise!Deleting(key)
<1>1. r.depth <= MAX_DEPTH /\ op = Idle /\ intact' = intact
  BY DEF RefinementInv, IndInv, OpOK, rte_fib6_delete, dummy_delete, DeleteAbsent,
                   Delete, Called, Return, modify_dp
<1>2. u \in Promise!Updates /\ u.call = "delete" /\ u.key = key
  BY <1>1, UpdatesNamed DEF Promise!Deleting
<1>3. IsDictionary(rib) /\ Idle.call = "none" /\ Idle.pc = "idle"
  BY DEF RefinementInv, UpdateOK, Idle
<1> HIDE DEF key, u
<1>4. ASSUME op' = Idle, rib' = rib, key \notin DOMAIN rib, ret' = Answer("ENOENT")
      PROVE  UpdateOK' /\ Promise!Next
  <2>1. UpdateOK'
    BY <1>3, <1>4 DEF UpdateOK
  <2> QED BY <1>1, <1>2, <1>4, <2>1, Refuses
<1>5. ASSUME op' = Idle, rib' = WithoutRules(rib, {key}), key \in DOMAIN rib,
             ret' = Answer("ok")
      PROVE  UpdateOK' /\ Promise!Next
  <2>1. UpdateOK'
    BY <1>3, <1>5, DictionaryKept DEF UpdateOK
  <2> QED BY <1>1, <1>2, <1>5, <2>1, Commits
<1>6. CASE dummy_delete(r)
  <2>1. op' = Idle /\ rib' = WithoutRules(rib, {key})
    BY <1>1, <1>6 DEF dummy_delete, Return, key
  <2>2. CASE key \in DOMAIN rib
    <3>1. ret' = Answer("ok")
      BY <1>6, <2>2 DEF dummy_delete, Return, key
    <3> QED BY <1>5, <2>1, <2>2, <3>1
  <2>3. CASE key \notin DOMAIN rib
    <3>1. ret' = Answer("ENOENT")
      BY <1>6, <2>3 DEF dummy_delete, Return, key
    <3>2. rib' = rib
      BY <1>3, <2>1, <2>3 DEF WithoutRules, IsDictionary
    <3> QED BY <1>4, <2>1, <2>3, <3>1, <3>2
  <2> QED BY <2>2, <2>3
<1>7. CASE DeleteAbsent(r)
  BY <1>1, <1>4, <1>7 DEF DeleteAbsent, Return, key
<1>8. CASE Delete(r) /\ SameAsAround(key, rib[key])
  BY <1>1, <1>5, <1>8 DEF Delete, Return, Removed, key
<1>9. CASE Delete(r) /\ ~SameAsAround(key, rib[key])
  <2>1. modify_dp("delete", key, ParentHop(rib, key), depth_diff(r)) /\ rib' = rib
        /\ key \in DOMAIN rib
    BY <1>9 DEF Delete, key
  <2>2. /\ op'.pc = "gap" /\ op'.call = "delete" /\ op'.key = key /\ Running' = u
        /\ Seen' = rib /\ ret' = Answer("pending")
    BY <2>1, ModifyShown DEF u
  <2>3. UpdateOK'
    BY <1>3, <2>1, <2>2 DEF UpdateOK
  <2> QED BY <1>1, <1>2, <2>1, <2>2, <2>3, Begins
<1> QED BY <1>6, <1>7, <1>8, <1>9 DEF rte_fib6_delete

\* The steps of an update show nothing until it returns, or fails.
LEMMA StepRefines ==
  ASSUME RefinementInv, FoldStep
  PROVE  UpdateOK' /\ [Promise!Next]_(Promise!vars)
<1>1. op \in Call /\ UpdateOK /\ op.pc # "idle" /\ op.call \in {"add", "change", "delete"}
  BY DEF RefinementInv, IndInv, OpOK, Call, FoldStep, NextGap, LastGap, Follow, tbl8_alloc,
         Descending, FoldBottom, FoldRest, WriteBetween, RecycleRoot, OutOfGroups,
         Succeed, Fail
<1>2. Idle.call = "none" /\ Idle.pc = "idle"
  BY DEF Idle
<1>3. CASE \/ NextGap \/ LastGap \/ Follow \/ tbl8_alloc \/ FoldBottom
           \/ FoldRest \/ WriteBetween \/ RecycleRoot
  <2> USE <1>1
  <2>1. /\ op'.pc \notin {"idle", "failed"}
        /\ op'.call = op.call /\ op'.key = op.key /\ op'.hop = op.hop
    <3>1. CASE NextGap
      BY <3>1 DEF NextGap, Install, Call
    <3>2. CASE LastGap
      BY <3>2 DEF LastGap, Install, Call
    <3>3. CASE Follow \/ tbl8_alloc
      <4>1. PICK g : Enter(g) /\ Descending
        BY <3>3 DEF Follow, tbl8_alloc
      <4> QED BY <4>1 DEF Enter, Descending, Call
    <3>4. ASSUME NEW level, FoldAscend(level), op.pc \in {"ledge", "redge"}
          PROVE  /\ op'.pc \notin {"idle", "failed"}
                 /\ op'.call = op.call /\ op'.key = op.key /\ op'.hop = op.hop
      BY <3>4 DEF FoldAscend, Call
    <3>5. CASE FoldBottom
      <4>1. op.pc \in {"ledge", "redge"}
        BY <3>5 DEF FoldBottom
      <4>2. CASE FoldAscend(Level)
        BY <3>4, <4>1, <4>2
      <4>3. CASE op' = [op EXCEPT !.up = TRUE]
        BY <4>1, <4>3 DEF Call
      <4> QED BY <3>5, <4>2, <4>3 DEF FoldBottom
    <3>6. CASE FoldRest
      <4>1. op.pc \in {"ledge", "redge"} /\ FoldAscend(Level - 1)
        BY <3>6 DEF FoldRest
      <4> QED BY <3>4, <4>1
    <3>7. CASE WriteBetween
      BY <3>7 DEF WriteBetween, Call
    <3>8. CASE RecycleRoot
      BY <3>8 DEF RecycleRoot, Call
    <3> QED BY <1>3, <3>1, <3>2, <3>3, <3>5, <3>6, <3>7, <3>8
  <2>2. rib' = rib /\ ret' = ret /\ intact' = intact
    BY <1>3 DEF NextGap, LastGap, Follow, tbl8_alloc, FoldBottom, FoldRest, WriteBetween,
                RecycleRoot, Local
  <2>3. Kept
    BY <1>1, <2>1, <2>2 DEF Kept, Seen, Running
  <2>4. UpdateOK'
    BY <1>1, <2>1, <2>2 DEF UpdateOK
  <2> QED BY <2>3, <2>4, ShownAsKept
<1>4. CASE OutOfGroups
  <2>1. op'.call = op.call /\ op'.key = op.key /\ op'.hop = op.hop /\ rib' = rib
        /\ intact' = FALSE
    BY <1>1, <1>4 DEF OutOfGroups, Call, Local
  <2> QED BY <1>1, <2>1 DEF UpdateOK, Promise!Next
<1>5. CASE Fail
  <2>1. ~intact' /\ op' = Idle
    BY <1>1, <1>5 DEF Fail, UpdateOK
  <2>2. IsDictionary(rib')
    BY <1>1, <1>5, DictionaryKept DEF Fail, UpdateOK
  <2> QED BY <1>2, <2>1, <2>2 DEF UpdateOK, Promise!Next
<1>6. CASE Succeed
  <2> DEFINE u == Running
             after == IF op.call = "delete" THEN WithoutRules(rib, {op.key})
                                            ELSE WithRule(Seen, op.key, op.hop)
  <2>1. op' = Idle /\ ret' = Answer("ok") /\ intact' = intact
    BY <1>6 DEF Succeed
  <2>2. rib' = after
    <3>1. CASE op.call = "add"
      BY <1>1, <1>6, <3>1, PutBack DEF Succeed, Seen, UpdateOK
    <3>2. CASE op.call # "add"
      BY <1>1, <1>6, <3>2 DEF Succeed, Seen, Removed
    <3> QED BY <3>1, <3>2
  <2>3. UpdateOK'
    BY <1>2, <2>1, <2>2, DictionaryKept DEF UpdateOK
  <2>4. Seen' = rib' /\ Running' = Promise!NoUpdate
    BY <2>1, IdleShown
  <2>5. /\ u.call = IF op.call = "delete" THEN "delete" ELSE "add"
        /\ u.key = op.key
        /\ op.call # "delete" => u.hop = op.hop
    BY <1>1 DEF Running
  <2>6. u # Promise!NoUpdate
    <3>1. Promise!NoUpdate.call = "none"
      BY DEF Promise!NoUpdate
    <3> QED BY <2>5, <3>1
  <2>7. op.call = "delete" => op.key \in DOMAIN Seen /\ Seen = rib
    BY <1>1 DEF UpdateOK, Seen
  <2> HIDE DEF u
  <2>8. after = IF u.call = "add" THEN WithRule(Seen, u.key, u.hop)
                                  ELSE WithoutRules(Seen, {u.key})
    BY <1>1, <2>5, <2>7
  <2> HIDE DEF after
  <2>9. Promise!Commit(u)
    BY <1>1, <2>1, <2>2, <2>4, <2>5, <2>7, <2>8, SameWords
    DEF Promise!Commit, Promise!Effect, Seen, Running
  <2> QED BY <2>1, <2>3, <2>6, <2>9 DEF u, Promise!Next, Promise!Promised, Running
<1> QED BY <1>3, <1>4, <1>5, <1>6 DEF FoldStep

LEMMA LookupRefines ==
  ASSUME RefinementInv, NEW ip \in Probes, rte_fib6_lookup_bulk(ip)
  PROVE  UpdateOK' /\ (LookupAgrees => Promise!Next)
<1>1. op = Idle /\ ip \in Address
  BY FibTrieAssumption DEF RefinementInv, IndInv, OpOK, rte_fib6_lookup_bulk
<1>2. op' = op /\ rib' = rib /\ intact' = intact
      /\ ret' = [status |-> "ok", ip |-> ip, hop |-> LookupHop(ip)]
  BY DEF rte_fib6_lookup_bulk
<1>3. UpdateOK'
  BY <1>2 DEF RefinementInv, UpdateOK
<1>4. ASSUME LookupAgrees, intact PROVE Promise!Next
  <2>1. /\ Seen = rib /\ Running = Promise!NoUpdate
        /\ Seen' = rib' /\ Running' = Promise!NoUpdate
    BY <1>1, <1>2, IdleShown
  <2>2. LookupHop(ip) = RibHop(Seen, ip)
    BY <1>1, <1>4, <2>1 DEF LookupAgrees, Idle
  <2>3. Promise!Lookup(ip)
    BY <1>2, <2>1, <2>2, SameWords DEF Promise!Lookup, Seen, Running
  <2> QED BY <1>1, <1>2, <1>4, <2>1, <2>3, SameWords
          DEF Promise!Next, Promise!Promised, Seen, Running
<1>5. ~intact => Promise!Next
  BY <1>2 DEF Promise!Next
<1> QED BY <1>3, <1>4, <1>5

LEMMA CreateRefines == rte_fib6_create => RefinementInv /\ Promise!Init
<1> SUFFICES ASSUME rte_fib6_create PROVE RefinementInv /\ Promise!Init
  OBVIOUS
<1>1. op = Idle /\ rib = NoRules /\ intact = TRUE /\ ret = Answer("ok")
  BY DEF rte_fib6_create
<1>2. UpdateOK
  BY <1>1 DEF UpdateOK, IsDictionary, NoRules, Idle
<1>3. Promise!Init
  BY <1>1, IdleShown, SameWords DEF Promise!Init, Seen, Running
<1> QED BY <1>2, <1>3, CreateEstablishesInv DEF RefinementInv

Lookups == \E ip \in Probes : rte_fib6_lookup_bulk(ip)
NodesLack == \E r \in Routes : NoNode(r)

LEMMA NextRefines ==
  RefinementInv /\ [FoldNext]_vars =>
    /\ RefinementInv'
    /\ [Lookups \/ NodesLack \/ Promise!Next]_(Promise!vars)
    /\ LookupAgrees /\ NodesSuffice' => [Promise!Next]_(Promise!vars)
<1> SUFFICES ASSUME RefinementInv, [FoldNext]_vars
             PROVE  /\ UpdateOK'
                    /\ [Lookups \/ NodesLack \/ Promise!Next]_(Promise!vars)
                    /\ LookupAgrees /\ NodesSuffice' => [Promise!Next]_(Promise!vars)
  BY NextKeepsInv DEF RefinementInv
<1>1. ASSUME NEW r \in Routes, RejectDepth(r) PROVE UpdateOK' /\ Promise!Next
  <2>1. /\ r.depth > MAX_DEPTH /\ op = Idle /\ op' = Idle /\ rib' = rib
        /\ intact' = intact /\ ret' = Answer("EINVAL")
    BY <1>1 DEF RejectDepth, Return, RefinementInv, IndInv, OpOK
  <2>2. /\ Seen = rib /\ Running = Promise!NoUpdate
        /\ Seen' = rib' /\ Running' = Promise!NoUpdate
    BY <2>1, IdleShown
  <2>3. Promise!RejectDepth
    BY <2>1, <2>2, SameWords DEF Promise!RejectDepth, Seen, Running
  <2>4. UpdateOK'
    BY <2>1 DEF RefinementInv, UpdateOK, Idle
  <2> QED BY <2>1, <2>2, <2>3, <2>4 DEF Promise!Next, Promise!Promised, Seen, Running
<1>2. ASSUME NEW r \in Routes, NEW hop \in NextHops, rte_fib6_add(r, hop)
      PROVE  /\ UpdateOK'
             /\ NodesLack \/ Promise!Next
             /\ NodesSuffice' => Promise!Next
  BY <1>2, AddRefines DEF NodesLack
<1>3. ASSUME NEW r \in Routes, rte_fib6_delete(r) PROVE UpdateOK' /\ Promise!Next
  BY <1>3, DeleteRefines
<1>4. CASE Lookups
  BY <1>4, LookupRefines DEF Lookups
<1>5. CASE FoldStep
  BY <1>5, StepRefines
<1>6. CASE UNCHANGED vars
  <2>1. UpdateOK' /\ Kept
    BY <1>6 DEF vars, RefinementInv, UpdateOK, Kept, Seen, Running
  <2> QED BY <2>1, ShownAsKept
<1> QED BY <1>1, <1>2, <1>3, <1>4, <1>5, <1>6 DEF FoldNext, Lookups

\* Every call but a lookup, and but an insertion refused for lack of nodes, is
\* one of the promised dictionary: an update takes effect as it returns, a
\* failed one not at all, and the RIB is what the routes should be.
THEOREM UpdatesImplementFib ==
  FoldSpec => Promise!Init /\ [][Lookups \/ NodesLack \/ Promise!Next]_(Promise!vars)
BY CreateRefines, NextRefines, PTL DEF FoldSpec

\* What is missing are two invariants: that tables and RIB agree between calls
\* and that the RIB has nodes for the routes it was created for.
THEOREM LookupsCompletePromise ==
  FoldSpec /\ []LookupAgrees /\ []NodesSuffice => ImplementsFib
BY CreateRefines, NextRefines, PTL DEF FoldSpec, ImplementsFib, Promise!Spec

-----------------------------------------------------------------------------
(***************************************************************************)
(* The tables agree with the RIB.                                          *)
(*                                                                         *)
(* The argument is about the tables as they will be linked (Joined): on    *)
(* the way down an edge write_edge takes groups that it links on the way   *)
(* back only.  These tables give each address under the route, outside its *)
(* longer routes, the new next hop if it is among those that are done, and *)
(* the old one otherwise (Expected); lookups in the tables as they are see *)
(* the same, but for what lies behind a group that is not linked yet,      *)
(* where they see the old next hop (SeenOK).                               *)
(***************************************************************************)

HIDE DEF tbl24

-----------------------------------------------------------------------------
(* Leading bytes *)

\* The number that the first `bytes' bytes of an address spell.
Leading(ip, bytes) == ip \div Size(BYTE_SIZE * bytes)

LEMMA BytesOfAddress ==
  ASSUME NEW n \in 0..IPV6_ADDR_SIZE
  PROVE  /\ BYTE_SIZE * n \in 0..MAX_DEPTH
         /\ Size(BYTE_SIZE * n) \in Nat \ {0}
         /\ n = 0 => Size(BYTE_SIZE * n) = 2 ^ MAX_DEPTH
         /\ n = IPV6_ADDR_SIZE => Size(BYTE_SIZE * n) = 1
         /\ n < IPV6_ADDR_SIZE =>
              Size(BYTE_SIZE * n) = 2 ^ BYTE_SIZE * Size(BYTE_SIZE * (n + 1))
<1>1. BYTE_SIZE \in Nat \ {0} /\ IPV6_ADDR_SIZE \in Nat \ {0} /\ MAX_DEPTH \in Nat
  BY Sizes, DepthsAreNaturals
<1>2. \A m \in 0..IPV6_ADDR_SIZE : BYTE_SIZE * m \in 0..MAX_DEPTH
  <2> TAKE m \in 0..IPV6_ADDR_SIZE
  <2>1. BYTE_SIZE * (IPV6_ADDR_SIZE - m) \in Nat /\ BYTE_SIZE * m \in Nat
    BY <1>1
  <2>2. BYTE_SIZE * (IPV6_ADDR_SIZE - m) = MAX_DEPTH - BYTE_SIZE * m
    BY <1>1 DEF MAX_DEPTH
  <2> QED BY <1>1, <2>1, <2>2
<1>3. BYTE_SIZE * n \in 0..MAX_DEPTH
  BY <1>2
<1>4. Size(BYTE_SIZE * n) \in Nat \ {0}
  <2> DEFINE bits == BYTE_SIZE * n
  <2>1. bits \in 0..MAX_DEPTH
    BY <1>3
  <2> HIDE DEF bits
  <2>2. Size(bits) \in Nat \ {0}
    BY <2>1, SizeOfDepth
  <2> QED BY <2>2 DEF bits
<1>5. n = 0 => Size(BYTE_SIZE * n) = 2 ^ MAX_DEPTH
  <2>1. BYTE_SIZE * 0 = 0 /\ MAX_DEPTH - 0 = MAX_DEPTH
    BY <1>1
  <2> QED BY <2>1 DEF Size
<1>6. n = IPV6_ADDR_SIZE => Size(BYTE_SIZE * n) = 1
  <2>1. MAX_DEPTH - BYTE_SIZE * IPV6_ADDR_SIZE = 0
    BY <1>1 DEF MAX_DEPTH
  <2> QED BY <2>1, PowersAssumption DEF Size
<1>7. ASSUME n < IPV6_ADDR_SIZE
      PROVE  Size(BYTE_SIZE * n) = 2 ^ BYTE_SIZE * Size(BYTE_SIZE * (n + 1))
  <2> DEFINE d == BYTE_SIZE * n
             e == BYTE_SIZE * (n + 1)
  <2>0. n + 1 \in 0..IPV6_ADDR_SIZE
    BY <1>1, <1>7
  <2>1. d \in 0..MAX_DEPTH /\ e \in 0..MAX_DEPTH
    BY <1>2, <2>0
  <2>2. e = d + BYTE_SIZE
    BY <1>1
  <2> HIDE DEF d, e
  <2>3. d <= e /\ e - d = BYTE_SIZE
    BY <1>1, <2>1, <2>2
  <2>4. Size(d) = Size(e) * 2 ^ BYTE_SIZE
    BY <2>1, <2>3, SizesDivide
  <2>5. Size(e) \in Nat /\ 2 ^ BYTE_SIZE \in Nat
    BY <2>1, SizeOfDepth, Sizes
  <2>6. \A a, b \in Nat : a * b = b * a
    OBVIOUS
  <2>7. Size(d) = 2 ^ BYTE_SIZE * Size(e)
    BY <2>4, <2>5, <2>6
  <2> QED BY <2>7 DEF d, e
<1> QED BY <1>3, <1>4, <1>5, <1>6, <1>7

LEMMA LeadingIs ==
  ASSUME NEW ip \in Address, NEW n \in 0..IPV6_ADDR_SIZE
  PROVE  /\ Leading(ip, n) \in Nat
         /\ Size(BYTE_SIZE * n) * Leading(ip, n) <= ip
         /\ ip < Size(BYTE_SIZE * n) * Leading(ip, n) + Size(BYTE_SIZE * n)
<1> DEFINE size == Size(BYTE_SIZE * n)
<1>1. size \in Nat \ {0} /\ ip \in Nat
  BY BytesOfAddress, DepthsAreNaturals DEF Address
<1> HIDE DEF size
<1>2. /\ ip \div size \in Nat /\ size * (ip \div size) <= ip
      /\ ip < size * (ip \div size) + size
  BY <1>1, RoundedDown
<1> QED BY <1>2 DEF Leading, size

LEMMA LeadingFrom ==
  ASSUME NEW ip \in Address, NEW n \in 0..IPV6_ADDR_SIZE, NEW k \in Int,
         Size(BYTE_SIZE * n) * k <= ip, ip < Size(BYTE_SIZE * n) * k + Size(BYTE_SIZE * n)
  PROVE  Leading(ip, n) = k
<1> DEFINE size == Size(BYTE_SIZE * n)
<1>1. size \in Nat \ {0} /\ ip \in Nat /\ size * k <= ip /\ ip < size * k + size
  BY BytesOfAddress, DepthsAreNaturals DEF Address
<1> HIDE DEF size
<1>2. ip \div size = k
  BY <1>1, RoundedDownIs
<1> QED BY <1>2 DEF Leading, size

\* One more byte.
LEMMA LeadingStep ==
  ASSUME NEW ip \in Address, NEW n \in 0..(IPV6_ADDR_SIZE - 1)
  PROVE  /\ Byte(ip, n) \in Slots
         /\ Leading(ip, n + 1) = 2 ^ BYTE_SIZE * Leading(ip, n) + Byte(ip, n)
<1> DEFINE M == 2 ^ BYTE_SIZE
           S == Size(BYTE_SIZE * (n + 1))
           L == Leading(ip, n + 1)
           k == L \div M
           r == L % M
<1>1. n \in 0..IPV6_ADDR_SIZE /\ n + 1 \in 0..IPV6_ADDR_SIZE /\ n < IPV6_ADDR_SIZE
  BY Sizes
<1>2. /\ M \in Nat \ {0} /\ S \in Nat \ {0} /\ L \in Nat /\ ip \in Nat
      /\ S * L <= ip /\ ip < S * L + S /\ Size(BYTE_SIZE * n) = M * S
  <2>1. M \in Nat \ {0} /\ ip \in Nat
    BY Sizes, DepthsAreNaturals DEF Address
  <2>2. S \in Nat \ {0} /\ Size(BYTE_SIZE * n) = M * S
    BY <1>1, BytesOfAddress
  <2>3. L \in Nat /\ S * L <= ip /\ ip < S * L + S
    BY <1>1, LeadingIs
  <2> QED BY <2>1, <2>2, <2>3
<1>3. Byte(ip, n) = r
  <2>1. BYTE_SIZE * (IPV6_ADDR_SIZE - 1 - n) = MAX_DEPTH - BYTE_SIZE * (n + 1)
    BY Sizes DEF MAX_DEPTH
  <2> QED BY <2>1 DEF Byte, Leading, Size
<1> HIDE DEF M, S, L
<1>4. k \in Nat /\ r \in 0..(M - 1) /\ L = M * k + r
  BY <1>2
<1> HIDE DEF k, r
<1>5. S * L = (M * S) * k + S * r
  BY <1>2, <1>4
<1>6. 0 <= S * r /\ S * r + S <= S * M /\ S * M = M * S /\ S * r \in Nat
  <2>1. S * r + S <= S * M
    BY <1>2, <1>4, MultiplesApart
  <2> QED BY <1>2, <1>4, <2>1
<1>7. (M * S) * k \in Nat /\ M * S \in Nat
  BY <1>2, <1>4
<1>8. (M * S) * k <= ip /\ ip < (M * S) * k + (M * S)
  BY <1>2, <1>5, <1>6, <1>7
<1>9. Leading(ip, n) = k
  BY <1>1, <1>2, <1>4, <1>8, LeadingFrom
<1> QED BY <1>3, <1>4, <1>9 DEF M, L, Slots

LEMMA LeadingEnds ==
  ASSUME NEW ip \in Address
  PROVE  Leading(ip, 0) = 0 /\ Leading(ip, IPV6_ADDR_SIZE) = ip
<1>1. 0 \in 0..IPV6_ADDR_SIZE /\ IPV6_ADDR_SIZE \in 0..IPV6_ADDR_SIZE
  BY Sizes
<1>2. /\ Size(BYTE_SIZE * 0) = 2 ^ MAX_DEPTH /\ Size(BYTE_SIZE * IPV6_ADDR_SIZE) = 1
      /\ 2 ^ MAX_DEPTH \in Nat /\ ip \in 0..(2 ^ MAX_DEPTH - 1)
  BY <1>1, BytesOfAddress, DepthsAreNaturals DEF Address
<1> DEFINE all == 2 ^ MAX_DEPTH
<1>3. all \in Nat /\ ip \in 0..(all - 1)
  BY <1>2
<1> HIDE DEF all
<1>4. all * 0 <= ip /\ ip < all * 0 + all /\ 1 * ip <= ip /\ ip < 1 * ip + 1 /\ ip \in Int
  BY <1>3
<1>5. Leading(ip, 0) = 0
  BY <1>1, <1>2, <1>4, LeadingFrom DEF all
<1>6. Leading(ip, IPV6_ADDR_SIZE) = ip
  BY <1>1, <1>2, <1>4, LeadingFrom
<1> QED BY <1>5, <1>6

\* A quotient and a remainder are compared in this order.
LEMMA DigitsCompared ==
  ASSUME NEW M \in Nat, NEW x \in Int, NEW y \in Int, NEW r \in 0..(M - 1),
         NEW s \in 0..(M - 1)
  PROVE  /\ M * x + r <= M * y + s => x <= y
         /\ M * x + r = M * y + s => x = y /\ r = s
         /\ x <= y /\ r <= s => M * x + r <= M * y + s
<1>1. x < y => M * x + M <= M * y
  BY MultiplesApart
<1>2. y < x => M * y + M <= M * x
  BY MultiplesApart
<1>3. M * x \in Int /\ M * y \in Int
  OBVIOUS
<1> QED BY <1>1, <1>2, <1>3

\* Addresses whose leading bytes are in order have shorter heads in order.
LEMMA LeadingOrder ==
  ASSUME NEW a \in Address, NEW b \in Address, NEW n \in 0..IPV6_ADDR_SIZE, NEW m \in 0..n
  PROVE  /\ Leading(a, n) <= Leading(b, n) => Leading(a, m) <= Leading(b, m)
         /\ Leading(a, n) = Leading(b, n) => Leading(a, m) = Leading(b, m)
         /\ Leading(a, n) = Leading(b, n) => \A i \in m..(n - 1) : Byte(a, i) = Byte(b, i)
<1>1. \A j \in 0..n : Leading(a, j) \in Nat /\ Leading(b, j) \in Nat
  BY LeadingIs, Sizes
<1>2. ASSUME NEW j \in 0..(n - 1)
      PROVE  /\ Leading(a, j + 1) <= Leading(b, j + 1) => Leading(a, j) <= Leading(b, j)
             /\ Leading(a, j + 1) = Leading(b, j + 1) =>
                  Leading(a, j) = Leading(b, j) /\ Byte(a, j) = Byte(b, j)
  <2>1. j \in 0..(IPV6_ADDR_SIZE - 1) /\ j \in 0..n
    BY Sizes
  <2>2. /\ Leading(a, j + 1) = 2 ^ BYTE_SIZE * Leading(a, j) + Byte(a, j)
        /\ Leading(b, j + 1) = 2 ^ BYTE_SIZE * Leading(b, j) + Byte(b, j)
        /\ Byte(a, j) \in 0..(2 ^ BYTE_SIZE - 1) /\ Byte(b, j) \in 0..(2 ^ BYTE_SIZE - 1)
        /\ Leading(a, j) \in Int /\ Leading(b, j) \in Int /\ 2 ^ BYTE_SIZE \in Nat
    BY <1>1, <2>1, LeadingStep, Sizes DEF Slots
  <2> DEFINE M == 2 ^ BYTE_SIZE
             x == Leading(a, j)
             y == Leading(b, j)
             r == Byte(a, j)
             s == Byte(b, j)
  <2>3. /\ Leading(a, j + 1) = M * x + r /\ Leading(b, j + 1) = M * y + s
        /\ r \in 0..(M - 1) /\ s \in 0..(M - 1) /\ x \in Int /\ y \in Int /\ M \in Nat
    BY <2>2
  <2> HIDE DEF M, x, y, r, s
  <2>4. /\ M * x + r <= M * y + s => x <= y
        /\ M * x + r = M * y + s => x = y /\ r = s
    BY <2>3, DigitsCompared
  <2>5. /\ Leading(a, j + 1) <= Leading(b, j + 1) => x <= y
        /\ Leading(a, j + 1) = Leading(b, j + 1) => x = y /\ r = s
    BY <2>3, <2>4
  <2> QED BY <2>5 DEF x, y, r, s
<1>3. ASSUME Leading(a, n) <= Leading(b, n) PROVE \A j \in 0..n : Leading(a, j) <= Leading(b, j)
  <2> DEFINE Wrong == {j \in 0..n : ~(Leading(a, j) <= Leading(b, j))}
  <2> SUFFICES ASSUME Wrong # {} PROVE FALSE
    OBVIOUS
  <2>1. PICK j \in Wrong : \A k \in Wrong : k <= j
    <3>1. Wrong \in SUBSET (0..n) /\ n \in Nat
      OBVIOUS
    <3> HIDE DEF Wrong
    <3> QED BY <3>1, GreatestNatural
  <2>2. j \in 0..(n - 1) /\ j + 1 \notin Wrong
    BY <1>3, <2>1
  <2>3. Leading(a, j + 1) <= Leading(b, j + 1)
    BY <2>2
  <2> QED BY <1>2, <2>1, <2>2, <2>3
<1>4. ASSUME Leading(a, n) = Leading(b, n) PROVE \A j \in 0..n : Leading(a, j) = Leading(b, j)
  <2> DEFINE Wrong == {j \in 0..n : Leading(a, j) # Leading(b, j)}
  <2> SUFFICES ASSUME Wrong # {} PROVE FALSE
    OBVIOUS
  <2>1. PICK j \in Wrong : \A k \in Wrong : k <= j
    <3>1. Wrong \in SUBSET (0..n) /\ n \in Nat
      OBVIOUS
    <3> HIDE DEF Wrong
    <3> QED BY <3>1, GreatestNatural
  <2>2. j \in 0..(n - 1) /\ j + 1 \notin Wrong
    BY <1>4, <2>1
  <2>3. Leading(a, j + 1) = Leading(b, j + 1)
    BY <2>2
  <2> QED BY <1>2, <2>1, <2>2, <2>3
<1>5. ASSUME Leading(a, n) = Leading(b, n), NEW i \in m..(n - 1) PROVE Byte(a, i) = Byte(b, i)
  <2>1. i \in 0..(n - 1) /\ i + 1 \in 0..n
    OBVIOUS
  <2> QED BY <1>2, <1>4, <1>5, <2>1
<1> QED BY <1>3, <1>4, <1>5

\* Addresses whose first bytes are the same have the same head.
LEMMA BytesAlike ==
  ASSUME NEW a \in Address, NEW b \in Address, NEW n \in 0..IPV6_ADDR_SIZE,
         \A i \in 0..(n - 1) : Byte(a, i) = Byte(b, i)
  PROVE  Leading(a, n) = Leading(b, n)
<1> DEFINE Wrong == {j \in 0..n : Leading(a, j) # Leading(b, j)}
<1> SUFFICES ASSUME Wrong # {} PROVE FALSE
  OBVIOUS
<1>1. PICK j \in Wrong : \A k \in Wrong : j <= k
  <2>1. Wrong \in SUBSET Nat
    OBVIOUS
  <2> HIDE DEF Wrong
  <2> QED BY <2>1, LeastNatural
<1>2. j # 0
  BY LeadingEnds, <1>1
<1>3. j - 1 \in 0..(n - 1) /\ j - 1 \notin Wrong
  BY <1>1, <1>2
<1>4. Leading(a, j - 1) = Leading(b, j - 1) /\ Byte(a, j - 1) = Byte(b, j - 1)
  BY <1>3
<1>5. j - 1 \in 0..(IPV6_ADDR_SIZE - 1) /\ (j - 1) + 1 = j
  BY <1>3, Sizes
<1>6. Leading(a, j) = Leading(b, j)
  BY <1>4, <1>5, LeadingStep
<1> QED BY <1>1, <1>6

\* Behind its first bytes, an address of nothing but the least bytes is the
\* first one with them, and one of nothing but the greatest bytes the last.
LEMMA LeastAlike ==
  ASSUME NEW a \in Address, NEW b \in Address, NEW n \in 0..IPV6_ADDR_SIZE,
         Leading(a, n) = Leading(b, n)
  PROVE  /\ (\A i \in n..(IPV6_ADDR_SIZE - 1) : Byte(a, i) = 0) => a <= b
         /\ (\A i \in n..(IPV6_ADDR_SIZE - 1) : Byte(b, i) = 2 ^ BYTE_SIZE - 1) => a <= b
<1> SUFFICES ASSUME \/ \A i \in n..(IPV6_ADDR_SIZE - 1) : Byte(a, i) = 0
                    \/ \A i \in n..(IPV6_ADDR_SIZE - 1) : Byte(b, i) = 2 ^ BYTE_SIZE - 1
             PROVE  a <= b
  OBVIOUS
<1> DEFINE Wrong == {j \in n..IPV6_ADDR_SIZE : ~(Leading(a, j) <= Leading(b, j))}
<1>1. Wrong = {}
  <2> SUFFICES ASSUME Wrong # {} PROVE FALSE
    OBVIOUS
  <2>1. PICK j \in Wrong : \A k \in Wrong : j <= k
    <3>1. Wrong \in SUBSET Nat
      BY Sizes
    <3> HIDE DEF Wrong
    <3> QED BY <3>1, LeastNatural
  <2>2. j # n
    <3>1. Leading(a, n) \in Nat
      BY LeadingIs
    <3> QED BY <2>1, <3>1
  <2> DEFINE i == j - 1
  <2>3. i \in n..(IPV6_ADDR_SIZE - 1) /\ i \notin Wrong /\ i + 1 = j
    BY <2>1, <2>2, Sizes
  <2>4. Leading(a, i) <= Leading(b, i)
    BY <2>3, Sizes
  <2> HIDE DEF i
  <2>5. i \in 0..(IPV6_ADDR_SIZE - 1) /\ i \in 0..IPV6_ADDR_SIZE
    BY <2>3, Sizes
  <2>6. /\ Leading(a, i + 1) = 2 ^ BYTE_SIZE * Leading(a, i) + Byte(a, i)
        /\ Leading(b, i + 1) = 2 ^ BYTE_SIZE * Leading(b, i) + Byte(b, i)
        /\ Byte(a, i) \in 0..(2 ^ BYTE_SIZE - 1) /\ Byte(b, i) \in 0..(2 ^ BYTE_SIZE - 1)
        /\ Leading(a, i) \in Int /\ Leading(b, i) \in Int /\ 2 ^ BYTE_SIZE \in Nat
    BY <2>5, LeadingStep, LeadingIs, Sizes DEF Slots
  <2>7. Byte(a, i) <= Byte(b, i)
    BY <2>3, <2>6
  <2>8. Leading(a, i + 1) <= Leading(b, i + 1)
    BY <2>4, <2>6, <2>7, DigitsCompared
  <2> QED BY <2>1, <2>3, <2>8
<1>2. IPV6_ADDR_SIZE \in n..IPV6_ADDR_SIZE
  BY Sizes
<1>3. Leading(a, IPV6_ADDR_SIZE) <= Leading(b, IPV6_ADDR_SIZE)
  BY <1>1, <1>2
<1> QED BY <1>3, LeadingEnds

\* Every byte follows the first bytes of an address.
LEMMA EveryByte ==
  ASSUME NEW a \in Address, NEW n \in 0..(IPV6_ADDR_SIZE - 1), NEW s \in Slots
  PROVE  \E b \in Address : Leading(b, n) = Leading(a, n) /\ Byte(b, n) = s
<1> DEFINE M == 2 ^ BYTE_SIZE
           S == Size(BYTE_SIZE * (n + 1))
           L == Leading(a, n)
           d == BYTE_SIZE * n
           b == S * (M * L + s)
<1>1. n \in 0..IPV6_ADDR_SIZE /\ n + 1 \in 0..IPV6_ADDR_SIZE /\ n < IPV6_ADDR_SIZE
  BY Sizes
<1>2. /\ M \in Nat \ {0} /\ S \in Nat \ {0} /\ L \in Nat /\ s \in 0..(M - 1)
      /\ Size(d) = M * S /\ d \in 0..MAX_DEPTH
      /\ Size(d) * L <= a /\ a < Size(d) * L + Size(d)
  <2>1. M \in Nat \ {0} /\ s \in 0..(M - 1)
    BY Sizes DEF Slots
  <2>2. S \in Nat \ {0} /\ Size(d) = M * S /\ d \in 0..MAX_DEPTH
    BY <1>1, BytesOfAddress
  <2>3. L \in Nat /\ Size(d) * L <= a /\ a < Size(d) * L + Size(d)
    BY <1>1, LeadingIs
  <2> QED BY <2>1, <2>2, <2>3
<1>3. Size(d) * L + Size(d) <= 2 ^ MAX_DEPTH
  <2> HIDE DEF d, L
  <2>1. ip6_mask_addr(a, d) = Size(d) * L
    BY <1>2, MaskFrom
  <2> DEFINE base == ip6_mask_addr(a, d)
  <2>2. base \in Address /\ ip6_mask_addr(base, d) = base
    BY <1>2, MaskAddress, MaskOfMask
  <2> HIDE DEF base
  <2>3. base + Size(d) <= 2 ^ MAX_DEPTH
    BY <1>2, <2>2, MaskedSpan
  <2> QED BY <2>1, <2>3 DEF base
<1> HIDE DEF M, S, L, d
<1>4. M * L + s \in Nat /\ (M * L + s) + 1 <= M * L + M
  BY <1>2
<1>5. b \in Nat /\ b + S <= (M * S) * L + (M * S) /\ (M * S) * L <= b
  <2> DEFINE k == M * L + s
             top == M * L + M
  <2>1. k \in Nat /\ top \in Nat /\ k < top
    BY <1>2, <1>4
  <2>2. S * top = (M * S) * L + (M * S)
    BY <1>2
  <2>3. b = (M * S) * L + S * s /\ S * s \in Nat /\ (M * S) * L \in Nat
    BY <1>2
  <2> HIDE DEF k, top
  <2>4. S * k + S <= S * top
    BY <1>2, <2>1, MultiplesApart
  <2> QED BY <2>2, <2>3, <2>4 DEF k
<1>6. b \in Address /\ S * (M * L + s) <= b /\ b < S * (M * L + s) + S
  <2>1. M * S \in Nat /\ (M * S) * L \in Nat /\ 2 ^ MAX_DEPTH \in Nat
    BY <1>2, DepthsAreNaturals
  <2>2. (M * S) * L + M * S <= 2 ^ MAX_DEPTH
    BY <1>2, <1>3
  <2> QED BY <1>2, <1>5, <2>1, <2>2 DEF Address
<1> HIDE DEF b
<1>7. Leading(b, n + 1) = M * L + s
  BY <1>1, <1>4, <1>6, LeadingFrom DEF S
<1>8. /\ Leading(b, n + 1) = M * Leading(b, n) + Byte(b, n) /\ Byte(b, n) \in 0..(M - 1)
      /\ Leading(b, n) \in Int
  BY <1>1, <1>6, LeadingStep, LeadingIs DEF M, Slots
<1>9. Leading(b, n) = L /\ Byte(b, n) = s
  BY SMTT(30), <1>2, <1>7, <1>8, DigitsCompared
<1> QED BY <1>6, <1>9 DEF L

-----------------------------------------------------------------------------
(* What the tables stand for *)

\* The table of the last byte.
Deepest == IPV6_ADDR_SIZE - TBL24_BYTES + 1

\* The bytes that have been used when the table with the number n is left.
Lead(ip, n) == Leading(ip, TBL24_BYTES + n - 1)

LEMMA TableBytes ==
  ASSUME NEW n \in Depths
  PROVE  /\ n \in 1..Deepest /\ Deepest \in Depths /\ 1 \in Depths /\ Deepest \in Nat
         /\ TBL24_BYTES + n - 1 \in 1..IPV6_ADDR_SIZE
         /\ TBL24_BYTES + Deepest - 1 = IPV6_ADDR_SIZE
         /\ n # 1 => n - 1 \in Depths /\ TBL24_BYTES + n - 2 \in 1..(IPV6_ADDR_SIZE - 1)
         /\ n # Deepest => n + 1 \in Depths
BY Sizes DEF Depths, Deepest

LEMMA LeadOfTable ==
  ASSUME NEW ip \in Address, NEW n \in Depths
  PROVE  /\ Lead(ip, n) \in Nat /\ Lead(ip, Deepest) = ip
         /\ n = 1 => get_idx(ip, n) = Lead(ip, n)
         /\ n # 1 => /\ get_idx(ip, n) \in Slots /\ get_idx(ip, n) \in 0..(2 ^ BYTE_SIZE - 1)
                     /\ Lead(ip, n) = 2 ^ BYTE_SIZE * Lead(ip, n - 1) + get_idx(ip, n)
<1>1. /\ TBL24_BYTES + n - 1 \in 0..IPV6_ADDR_SIZE /\ TBL24_BYTES + Deepest - 1 = IPV6_ADDR_SIZE
      /\ n \in Nat
  BY TableBytes, Sizes
<1>2. Lead(ip, n) \in Nat /\ Lead(ip, Deepest) = ip
  BY <1>1, LeadingIs, LeadingEnds DEF Lead
<1>3. ASSUME n = 1 PROVE get_idx(ip, n) = Lead(ip, n)
  <2>1. TBL24_BYTES + n - 1 = TBL24_BYTES
    BY <1>3, Sizes
  <2>2. BYTE_SIZE * (IPV6_ADDR_SIZE - TBL24_BYTES) = MAX_DEPTH - BYTE_SIZE * TBL24_BYTES
    BY Sizes DEF MAX_DEPTH
  <2> QED BY <1>3, <2>1, <2>2 DEF get_idx, Lead, Leading, Size
<1>4. ASSUME n # 1
      PROVE  /\ get_idx(ip, n) \in Slots /\ get_idx(ip, n) \in 0..(2 ^ BYTE_SIZE - 1)
             /\ Lead(ip, n) = 2 ^ BYTE_SIZE * Lead(ip, n - 1) + get_idx(ip, n)
  <2> DEFINE i == TBL24_BYTES + n - 2
  <2>1. /\ i \in 0..(IPV6_ADDR_SIZE - 1) /\ i + 1 = TBL24_BYTES + n - 1
        /\ TBL24_BYTES + (n - 1) - 1 = i
    BY <1>1, <1>4, TableBytes, Sizes
  <2>2. get_idx(ip, n) = Byte(ip, i)
    BY <1>4 DEF get_idx
  <2> HIDE DEF i
  <2>3. Byte(ip, i) \in Slots /\ Leading(ip, i + 1) = 2 ^ BYTE_SIZE * Leading(ip, i) + Byte(ip, i)
    BY <2>1, LeadingStep
  <2> QED BY <2>1, <2>2, <2>3 DEF Lead, Slots
<1> QED BY <1>2, <1>3, <1>4

LEMMA LeadOrder ==
  ASSUME NEW a \in Address, NEW b \in Address, NEW n \in Depths, NEW m \in 1..n
  PROVE  /\ m \in Depths
         /\ Lead(a, n) <= Lead(b, n) => Lead(a, m) <= Lead(b, m)
         /\ Lead(a, n) = Lead(b, n) => Lead(a, m) = Lead(b, m) /\ get_idx(a, m) = get_idx(b, m)
         /\ a <= b => Lead(a, n) <= Lead(b, n)
<1>1. /\ n \in 1..Deepest /\ Deepest \in Depths /\ Deepest \in Nat
      /\ TBL24_BYTES + n - 1 \in 0..IPV6_ADDR_SIZE
      /\ TBL24_BYTES + m - 1 \in 0..(TBL24_BYTES + n - 1)
      /\ TBL24_BYTES + Deepest - 1 \in 0..IPV6_ADDR_SIZE
      /\ TBL24_BYTES + n - 1 \in 0..(TBL24_BYTES + Deepest - 1)
      /\ m \in Depths
  BY TableBytes, Sizes DEF Depths, Deepest
<1>2. /\ Lead(a, n) <= Lead(b, n) => Lead(a, m) <= Lead(b, m)
      /\ Lead(a, n) = Lead(b, n) => Lead(a, m) = Lead(b, m)
  BY <1>1, LeadingOrder DEF Lead
<1>3. Lead(a, Deepest) <= Lead(b, Deepest) => Lead(a, n) <= Lead(b, n)
  BY <1>1, LeadingOrder DEF Lead
<1>4. Lead(a, Deepest) = a /\ Lead(b, Deepest) = b
  BY LeadOfTable
<1>5. ASSUME Lead(a, n) = Lead(b, n) PROVE get_idx(a, m) = get_idx(b, m)
  <2>1. CASE m = 1
    BY <1>1, <1>2, <1>5, <2>1, LeadOfTable
  <2>2. CASE m # 1
    <3> DEFINE i == TBL24_BYTES + m - 2
    <3>1. i \in i..((TBL24_BYTES + n - 1) - 1) /\ i \in 0..(TBL24_BYTES + n - 1)
      BY <1>1, <2>2, Sizes
    <3>2. get_idx(a, m) = Byte(a, i) /\ get_idx(b, m) = Byte(b, i)
      BY <2>2 DEF get_idx
    <3> HIDE DEF i
    <3>3. Byte(a, i) = Byte(b, i)
      BY <1>1, <1>5, <3>1, LeadingOrder DEF Lead
    <3> QED BY <3>2, <3>3
  <2> QED BY <2>1, <2>2
<1> QED BY <1>1, <1>2, <1>3, <1>4, <1>5

\* Addresses that meet in a group part there by their slots.
LEMMA LeadsAlike ==
  ASSUME NEW a \in Address, NEW b \in Address, NEW n \in Depths, n # 1,
         Lead(a, n - 1) = Lead(b, n - 1)
  PROVE  /\ Lead(a, n) = Lead(b, n) <=> get_idx(a, n) = get_idx(b, n)
         /\ Lead(a, n) < Lead(b, n) <=> get_idx(a, n) < get_idx(b, n)
<1> DEFINE M == 2 ^ BYTE_SIZE
           x == Lead(a, n - 1)
           r == get_idx(a, n)
           s == get_idx(b, n)
<1>1. n - 1 \in Depths
  BY TableBytes
<1>2. /\ M \in Nat /\ x \in Nat /\ r \in 0..(M - 1) /\ s \in 0..(M - 1)
      /\ Lead(a, n) = M * x + r /\ Lead(b, n) = M * x + s
  BY <1>1, LeadOfTable, Sizes
<1> HIDE DEF M, x, r, s
<1>3. M * x \in Int
  BY <1>2
<1>4. (Lead(a, n) = Lead(b, n) <=> r = s) /\ (Lead(a, n) < Lead(b, n) <=> r < s)
  BY <1>2, <1>3
<1> QED BY <1>4 DEF r, s

\* Every slot of a group is the one of some address.
LEMMA EverySlot ==
  ASSUME NEW a \in Address, NEW n \in Depths, n # 1, NEW s \in Slots
  PROVE  \E b \in Address : Lead(b, n - 1) = Lead(a, n - 1) /\ get_idx(b, n) = s
<1> DEFINE i == TBL24_BYTES + n - 2
<1>1. i \in 0..(IPV6_ADDR_SIZE - 1) /\ TBL24_BYTES + (n - 1) - 1 = i
  BY TableBytes, Sizes DEF Depths
<1>2. \A b : get_idx(b, n) = Byte(b, i) /\ Lead(b, n - 1) = Leading(b, i)
  BY <1>1 DEF get_idx, Lead
<1> HIDE DEF i
<1> QED BY <1>1, <1>2, EveryByte

\* The edges have the tables above the root table in common and part there.
LEMMA RootParts ==
  ASSUME NEW a \in Address, NEW redge \in Address, a <= LastIn(redge)
  PROVE  LET root == RootTable(a, redge)
         IN  /\ root \in Depths
             /\ root # 1 => Lead(a, root - 1) = Lead(LastIn(redge), root - 1)
             /\ root # Deepest => Lead(a, root) < Lead(LastIn(redge), root)
             /\ Lead(a, root) <= Lead(LastIn(redge), root)
<1> DEFINE b == LastIn(redge)
           c == common_bytes(a, b)
           S == {n \in 0..(IPV6_ADDR_SIZE - 1) : \A i \in 0..(n - 1) : Byte(a, i) = Byte(b, i)}
           root == RootTable(a, redge)
<1>1. b \in Address /\ a <= b /\ root \in Depths
  BY LastInAddress, RootTableRange
<1>2. root = IF c < TBL24_BYTES THEN 1 ELSE c - TBL24_BYTES + 2
  BY DEF RootTable
<1> HIDE DEF root, b
<1>3. c \in S /\ \A n \in S : c >= n
  <2>1. 0 \in S /\ IPV6_ADDR_SIZE - 1 \in Nat /\ S \in SUBSET (0..(IPV6_ADDR_SIZE - 1))
    BY Sizes
  <2>2. c = Max(S)
    BY DEF common_bytes
  <2> HIDE DEF S, c
  <2> QED BY <2>1, <2>2, MaxIsMember
<1>4. c \in 0..(IPV6_ADDR_SIZE - 1) /\ c \in 0..IPV6_ADDR_SIZE /\ Leading(a, c) = Leading(b, c)
  <2>1. c \in 0..(IPV6_ADDR_SIZE - 1) /\ \A i \in 0..(c - 1) : Byte(a, i) = Byte(b, i)
    BY <1>3
  <2> HIDE DEF c, S
  <2>2. c \in 0..IPV6_ADDR_SIZE
    BY <2>1, Sizes
  <2> QED BY <1>1, <2>1, <2>2, BytesAlike
<1>5. ASSUME c # IPV6_ADDR_SIZE - 1 PROVE Leading(a, c + 1) # Leading(b, c + 1)
  <2>1. c + 1 \in 0..(IPV6_ADDR_SIZE - 1) /\ c + 1 \notin S
    <3> HIDE DEF c, S
    <3>1. c + 1 \in 0..(IPV6_ADDR_SIZE - 1) /\ ~(c >= c + 1)
      BY <1>4, <1>5, Sizes
    <3> QED BY <1>3, <3>1
  <2>2. PICK i \in 0..((c + 1) - 1) : Byte(a, i) # Byte(b, i)
    BY <2>1
  <2>3. c + 1 \in 0..IPV6_ADDR_SIZE /\ 0 \in 0..(c + 1)
    BY <2>1, Sizes
  <2> HIDE DEF c, S
  <2> QED BY <1>1, <2>2, <2>3, LeadingOrder
<1> HIDE DEF c, S
<1>6. Lead(a, root) <= Lead(b, root)
  BY <1>1, LeadOrder, TableBytes
<1>7. ASSUME root # 1 PROVE Lead(a, root - 1) = Lead(b, root - 1)
  <2>1. TBL24_BYTES + (root - 1) - 1 = c
    BY <1>2, <1>4, <1>7, Sizes
  <2> QED BY <1>4, <2>1 DEF Lead
<1>8. ASSUME root # Deepest PROVE Lead(a, root) # Lead(b, root)
  <2>1. c # IPV6_ADDR_SIZE - 1 /\ c + 1 \in 0..IPV6_ADDR_SIZE
    BY <1>2, <1>4, <1>8, Sizes DEF Deepest
  <2>2. /\ TBL24_BYTES + root - 1 \in 0..IPV6_ADDR_SIZE
        /\ c + 1 \in 0..(TBL24_BYTES + root - 1)
    BY <1>2, <1>4, <2>1, Sizes
  <2>3. Lead(a, root) = Lead(b, root) => Leading(a, c + 1) = Leading(b, c + 1)
    BY <1>1, <2>2, LeadingOrder DEF Lead
  <2> QED BY <1>5, <2>1, <2>3
<1>9. Lead(a, root) \in Nat /\ Lead(b, root) \in Nat
  BY <1>1, LeadOfTable
<1> QED BY <1>1, <1>6, <1>7, <1>8, <1>9 DEF root, b

\* Behind the bytes of its bottom table, an edge is the first or the last
\* address with them.
LEMMA BottomEdge ==
  /\ BottomTable \in Depths /\ BottomTable >= Root
  /\ \A i \in (TBL24_BYTES + BottomTable - 1)..(IPV6_ADDR_SIZE - 1) : Byte(Edge, i) = Filler
<1> DEFINE common == common_bytes(op.ledge, LastIn(op.redge))
           first == Max({common, TBL24_BYTES})
           used == {i \in (first + 1)..(IPV6_ADDR_SIZE - 1) : Byte(Edge, i) # Filler}
           top == Max(used \cup {first})
<1>1. common \in 0..(IPV6_ADDR_SIZE - 1) /\ TBL24_BYTES \in 0..(IPV6_ADDR_SIZE - 1)
      /\ IPV6_ADDR_SIZE - 1 \in Nat
  BY CommonRange, Sizes
<1>2. Root = IF common < TBL24_BYTES THEN 1 ELSE common - TBL24_BYTES + 2
  BY DEF Root, RootTable
<1> HIDE DEF common
<1>3. first \in {common, TBL24_BYTES} /\ first >= TBL24_BYTES /\ first >= common
  <2>1. {common, TBL24_BYTES} \in SUBSET (0..(IPV6_ADDR_SIZE - 1))
    BY <1>1
  <2> QED BY <1>1, <2>1, MaxIsMember
<1>4. BottomTable = top - TBL24_BYTES + 2
  BY DEF BottomTable, common
<1>5. \A i : i \in used <=> i \in (first + 1)..(IPV6_ADDR_SIZE - 1) /\ Byte(Edge, i) # Filler
  OBVIOUS
<1> HIDE DEF first, used
<1>6. top \in used \cup {first} /\ \A i \in used \cup {first} : top >= i
  <2>1. used \cup {first} \in SUBSET (0..(IPV6_ADDR_SIZE - 1))
    BY <1>1, <1>3, <1>5
  <2> DEFINE both == used \cup {first}
  <2>2. both \in SUBSET (0..(IPV6_ADDR_SIZE - 1)) /\ both # {}
    BY <2>1
  <2> HIDE DEF both
  <2>3. Max(both) \in both /\ \A i \in both : Max(both) >= i
    BY <1>1, <2>2, MaxIsMember
  <2> QED BY <2>3 DEF both
<1> HIDE DEF top
<1>7. top \in 0..(IPV6_ADDR_SIZE - 1) /\ top >= first
  BY <1>1, <1>3, <1>5, <1>6
<1>8. BottomTable >= Root
  BY <1>1, <1>2, <1>3, <1>4, <1>7
<1>9. ASSUME NEW i \in (TBL24_BYTES + BottomTable - 1)..(IPV6_ADDR_SIZE - 1)
      PROVE  Byte(Edge, i) = Filler
  <2>1. i > top /\ i \in (first + 1)..(IPV6_ADDR_SIZE - 1)
    BY <1>1, <1>3, <1>4, <1>7
  <2> QED BY <1>5, <1>6, <1>7, <2>1
<1> QED BY <1>8, <1>9, BottomTableRange

-----------------------------------------------------------------------------
(* The way of a lookup through tables *)

IsTables(E) ==
  /\ E \in [Places -> [ext : BOOLEAN, val : Hops]]
  /\ \A p \in Places : E[p].ext => E[p].val \in Groups

\* Where a lookup goes from the place p with table n.
Behind(E, p, ip, n) == IF E[p].ext THEN <<E[p].val, get_idx(ip, n)>> ELSE p

\* The places it comes by; it stays where a next hop is.
PathIn(E, ip) ==
  LET place[n \in Depths] ==
        IF n = 1 THEN <<tbl24, get_idx(ip, 1)>> ELSE Behind(E, place[n - 1], ip, n)
  IN  place

HopIn(E, ip) == E[PathIn(E, ip)[Deepest]].val

\* It uses the table with the number n.
Reaches(E, ip, n) == n = 1 \/ E[PathIn(E, ip)[n - 1]].ext

LEMMA PlaceParts ==
  ASSUME NEW p \in Places
  PROVE  /\ p = <<p[1], p[2]>>
         /\ p[1] = tbl24 \/ (p[1] \in Groups /\ p[2] \in Slots)
         /\ p[1] \in Groups => p[2] \in Slots
BY Sizes DEF Places

LEMMA BehindIsPlace ==
  ASSUME NEW E, IsTables(E), NEW p \in Places, NEW ip \in Address, NEW n \in Depths, n # 1
  PROVE  Behind(E, p, ip, n) \in Places
<1>1. get_idx(ip, n) \in Slots
  BY IndexInTable
<1> QED BY <1>1 DEF IsTables, Behind, Places

LEMMA PathUnfolds ==
  ASSUME NEW E, IsTables(E), NEW ip \in Address
  PROVE  /\ PathIn(E, ip) \in [Depths -> Places]
         /\ PathIn(E, ip)[1] = <<tbl24, get_idx(ip, 1)>>
         /\ \A n \in Depths \ {1} : PathIn(E, ip)[n] = Behind(E, PathIn(E, ip)[n - 1], ip, n)
<1> DEFINE top == <<tbl24, get_idx(ip, 1)>>
           step == [n \in (1 + 1)..Deepest |-> [p \in Places |-> Behind(E, p, ip, n)]]
<1>1. Deepest \in Nat /\ 1 <= Deepest /\ Depths = 1..Deepest /\ 1 \in Nat
  BY Sizes DEF Depths, Deepest
<1>2. top \in Places
  BY <1>1, IndexInTable DEF Places
<1>3. step \in Steps(1, Deepest, Places)
  <2>1. \A n \in (1 + 1)..Deepest : \A p \in Places : Behind(E, p, ip, n) \in Places
    BY <1>1, BehindIsPlace
  <2> QED BY <2>1 DEF Steps
<1>4. PICK f : Computed(f, 1, Deepest, Places, top, step)
  <2> HIDE DEF top, step
  <2> QED BY <1>1, <1>2, <1>3, RecursiveFunction
<1>5. f \in [Depths -> Places] /\ f[1] = top
  BY <1>1, <1>4 DEF Computed
<1>6. \A n \in Depths \ {1} : f[n] = Behind(E, f[n - 1], ip, n)
  <2> TAKE n \in Depths \ {1}
  <2>1. n \in (1 + 1)..Deepest /\ n - 1 \in Depths
    BY <1>1
  <2>2. f[n] = step[n][f[n - 1]]
    BY <1>4, <2>1 DEF Computed
  <2> QED BY <1>5, <2>1, <2>2
<1> DEFINE Unfolded(t) ==
             [n \in Depths |-> IF n = 1 THEN <<tbl24, get_idx(ip, 1)>>
                               ELSE Behind(E, t[n - 1], ip, n)]
<1>7. f = Unfolded(f)
  BY <1>5, <1>6
<1>8. PathIn(E, ip) = CHOOSE t : t = Unfolded(t)
  BY DEF PathIn
<1>9. PathIn(E, ip) = Unfolded(PathIn(E, ip))
  <2> HIDE DEF Unfolded
  <2> QED BY <1>7, <1>8
<1> DEFINE w == PathIn(E, ip)
<1>10. w = Unfolded(w)
  BY <1>9
<1> HIDE DEF w
<1>11. w[1] = top /\ \A n \in Depths \ {1} : w[n] = Behind(E, w[n - 1], ip, n)
  BY <1>1, <1>10
<1>12. w \in [Depths -> Places]
  <2>1. w = [n \in Depths |-> w[n]]
    BY <1>10
  <2>2. \A n \in Depths : w[n] \in Places
    <3> DEFINE Wrong == {n \in Depths : w[n] \notin Places}
    <3> SUFFICES ASSUME Wrong # {} PROVE FALSE
      OBVIOUS
    <3>1. PICK n \in Wrong : \A k \in Wrong : n <= k
      <4>1. Wrong \in SUBSET Nat
        BY <1>1
      <4> HIDE DEF Wrong
      <4> QED BY <4>1, LeastNatural
    <3>2. n # 1 /\ n - 1 \in Depths /\ n - 1 \notin Wrong
      BY <1>1, <1>2, <1>11, <3>1
    <3>3. w[n - 1] \in Places /\ w[n] = Behind(E, w[n - 1], ip, n)
      BY <1>11, <3>1, <3>2
    <3> QED BY <3>1, <3>2, <3>3, BehindIsPlace
  <2> QED BY <2>1, <2>2
<1> QED BY <1>11, <1>12 DEF w

\* Walk reads the entries at these places.
LEMMA WalkIs ==
  ASSUME IsTables(entries), NEW ip \in Address, NEW n \in Depths
  PROVE  Walk(ip)[n] = entries[PathIn(entries, ip)[n]]
<1> DEFINE place == PathIn(entries, ip)
           f == [m \in Depths |-> entries[place[m]]]
           Unfolded(t) ==
             [m \in Depths |->
                IF m = 1 THEN entries[<<tbl24, get_idx(ip, 1)>>]
                ELSE LET above == t[m - 1]
                     IN  IF above.ext THEN entries[<<above.val, get_idx(ip, m)>>] ELSE above]
<1>1. /\ place[1] = <<tbl24, get_idx(ip, 1)>>
      /\ \A m \in Depths \ {1} : place[m] = Behind(entries, place[m - 1], ip, m)
  BY PathUnfolds
<1> HIDE DEF place
<1>2. \A m \in Depths : f[m] = IF m = 1 THEN entries[<<tbl24, get_idx(ip, 1)>>]
                               ELSE LET above == f[m - 1]
                                    IN  IF above.ext THEN entries[<<above.val, get_idx(ip, m)>>]
                                        ELSE above
  <2> TAKE m \in Depths
  <2>1. m # 1 => m - 1 \in Depths
    BY TableBytes
  <2> QED BY <1>1, <2>1 DEF Behind
<1>3. f = Unfolded(f)
  <2>1. f = [m \in Depths |-> f[m]]
    OBVIOUS
  <2> HIDE DEF f
  <2> QED BY <1>2, <2>1
<1> DEFINE w == Walk(ip)
<1>4. w = CHOOSE t : t = Unfolded(t)
  BY DEF Walk
<1>5. w = Unfolded(w)
  <2> HIDE DEF Unfolded, w, f
  <2> QED BY <1>3, <1>4
<1>6. \A m \in Depths : w[m] = IF m = 1 THEN entries[<<tbl24, get_idx(ip, 1)>>]
                               ELSE LET above == w[m - 1]
                                    IN  IF above.ext THEN entries[<<above.val, get_idx(ip, m)>>]
                                        ELSE above
  <2> HIDE DEF w
  <2> QED BY <1>5
<1> HIDE DEF w, f
<1>7. \A m \in Depths : w[m] = f[m]
  <2> DEFINE Wrong == {m \in Depths : w[m] # f[m]}
  <2> SUFFICES ASSUME Wrong # {} PROVE FALSE
    OBVIOUS
  <2>1. PICK m \in Wrong : \A k \in Wrong : m <= k
    <3>1. Wrong \in SUBSET Nat
      BY Sizes DEF Depths
    <3> HIDE DEF Wrong
    <3> QED BY <3>1, LeastNatural
  <2>2. m # 1
    BY <1>2, <1>6, <2>1
  <2>3. m - 1 \in Depths /\ ~(m <= m - 1)
    BY <2>1, <2>2, TableBytes DEF Depths
  <2>4. w[m - 1] = f[m - 1]
    BY <2>1, <2>3
  <2>5. m \in Depths /\ w[m] # f[m]
    BY <2>1
  <2> HIDE DEF Wrong
  <2>6. /\ w[m] = LET above == w[m - 1]
                  IN  IF above.ext THEN entries[<<above.val, get_idx(ip, m)>>] ELSE above
        /\ f[m] = LET above == f[m - 1]
                  IN  IF above.ext THEN entries[<<above.val, get_idx(ip, m)>>] ELSE above
    BY <1>2, <1>6, <2>2, <2>5
  <2> QED BY <2>4, <2>5, <2>6
<1> QED BY <1>7 DEF w, f, place

LEMMA TableHopIs ==
  ASSUME IsTables(entries), NEW ip \in Address
  PROVE  TableHop(ip) = HopIn(entries, ip)
<1>1. Deepest \in Depths
  BY Sizes DEF Depths, Deepest
<1> QED BY <1>1, WalkIs DEF TableHop, HopIn, Deepest

LEMMA PathStep ==
  ASSUME NEW E, IsTables(E), NEW ip \in Address, NEW n \in Depths
  PROVE  /\ PathIn(E, ip)[n] \in Places
         /\ n = 1 => PathIn(E, ip)[n] = <<tbl24, get_idx(ip, 1)>>
         /\ n # 1 =>
              LET p == PathIn(E, ip)[n - 1]
              IN  /\ p \in Places
                  /\ E[p].ext => /\ PathIn(E, ip)[n] = <<E[p].val, get_idx(ip, n)>>
                                 /\ E[p].val \in Groups /\ get_idx(ip, n) \in Slots
                  /\ ~E[p].ext => PathIn(E, ip)[n] = p
<1>1. n # 1 => n - 1 \in Depths
  BY TableBytes
<1>2. PathIn(E, ip)[n] \in Places /\ (n # 1 => PathIn(E, ip)[n - 1] \in Places)
  BY <1>1, PathUnfolds
<1> QED BY <1>1, <1>2, PathUnfolds, IndexInTable DEF Behind, IsTables

\* Behind a next hop a lookup stays where it is, and before a link it has come
\* by links.
LEMMA WaysEnd ==
  ASSUME NEW E, IsTables(E), NEW ip \in Address, NEW n \in Depths, NEW m \in Depths, n <= m
  PROVE  /\ ~E[PathIn(E, ip)[n]].ext => PathIn(E, ip)[m] = PathIn(E, ip)[n]
         /\ Reaches(E, ip, m) => Reaches(E, ip, n)
         /\ Reaches(E, ip, m) /\ n < m => E[PathIn(E, ip)[n]].ext
         /\ E[PathIn(E, ip)[m]].ext => Reaches(E, ip, m) /\ E[PathIn(E, ip)[n]].ext
<1> DEFINE w == PathIn(E, ip)
<1>0. /\ Depths = 1..Deepest /\ Deepest \in Nat
  BY Sizes DEF Depths, Deepest
<1>1. \A k \in Depths \ {1} : ~E[w[k - 1]].ext => w[k] = w[k - 1]
  BY PathStep
<1> HIDE DEF w
<1>2. ASSUME NEW k \in Depths, ~E[w[k]].ext
      PROVE  \A j \in Depths : k <= j => w[j] = w[k]
  <2> DEFINE Wrong == {j \in k..Deepest : w[j] # w[k]}
  <2>1. Wrong = {}
    <3> SUFFICES ASSUME Wrong # {} PROVE FALSE
      OBVIOUS
    <3>1. PICK j \in Wrong : \A i \in Wrong : j <= i
      <4>1. Wrong \in SUBSET Nat
        BY <1>0
      <4> HIDE DEF Wrong
      <4> QED BY <4>1, LeastNatural
    <3>2. j # k /\ j \in k..Deepest
      BY <3>1
    <3>3. j - 1 \in k..Deepest /\ ~(j <= j - 1) /\ j \in Depths \ {1}
      BY <1>0, <3>2
    <3>4. w[j - 1] = w[k]
      BY <3>1, <3>3
    <3> QED BY <1>1, <1>2, <3>1, <3>3, <3>4
  <2> QED BY <1>0, <2>1
<1>3. ASSUME NEW k \in Depths, NEW j \in Depths, k <= j, E[w[j]].ext PROVE E[w[k]].ext
  BY <1>2, <1>3
<1>4. ASSUME Reaches(E, ip, m), n < m PROVE E[w[n]].ext
  <2>1. m # 1 /\ m - 1 \in Depths /\ n <= m - 1
    BY <1>0, <1>4
  <2>2. E[w[m - 1]].ext
    BY <1>4, <2>1 DEF Reaches, w
  <2> QED BY <1>3, <2>1, <2>2
<1>5. ASSUME Reaches(E, ip, m) PROVE Reaches(E, ip, n)
  <2>1. CASE n = 1
    BY <2>1 DEF Reaches
  <2>2. CASE n # 1 /\ n = m
    BY <1>5, <2>2
  <2>3. CASE n # 1 /\ n < m
    <3>1. E[w[n]].ext
      BY <1>4, <1>5, <2>3
    <3>2. n - 1 \in Depths /\ n - 1 <= n
      BY <1>0, <2>3
    <3>3. E[w[n - 1]].ext
      BY <1>3, <3>1, <3>2
    <3> QED BY <3>3 DEF Reaches, w
  <2> QED BY <1>0, <2>1, <2>2, <2>3
<1>6. ASSUME E[w[m]].ext PROVE Reaches(E, ip, m) /\ E[w[n]].ext
  <2>1. E[w[n]].ext
    BY <1>3, <1>6
  <2>2. CASE m = 1
    BY <2>1, <2>2 DEF Reaches
  <2>3. CASE m # 1
    <3>1. m - 1 \in Depths /\ m - 1 <= m
      BY <1>0, <2>3
    <3>2. E[w[m - 1]].ext
      BY <1>3, <1>6, <3>1
    <3> QED BY <2>1, <3>2 DEF Reaches, w
  <2> QED BY <2>2, <2>3
<1> QED BY <1>2, <1>4, <1>5, <1>6 DEF w

\* No two entries link the same group.
OneLinkIn(E) == \A p, q \in Places : E[p].ext /\ E[q].ext /\ E[p].val = E[q].val => p = q

\* Lookups with the same leading bytes go the same way, and only they meet.
LEMMA PathsAlike ==
  ASSUME NEW E, IsTables(E), NEW a \in Address, NEW b \in Address, NEW n \in Depths,
         Lead(a, n) = Lead(b, n)
  PROVE  PathIn(E, a)[n] = PathIn(E, b)[n] /\ (Reaches(E, a, n) <=> Reaches(E, b, n))
<1> DEFINE v == PathIn(E, a)
           w == PathIn(E, b)
           Wrong == {j \in 1..n : v[j] # w[j]}
<1>0. n \in Nat /\ 1 <= n /\ \A j \in 1..n : j \in Depths
  BY Sizes DEF Depths
<1>1. Wrong = {}
  <2> SUFFICES ASSUME Wrong # {} PROVE FALSE
    OBVIOUS
  <2>1. PICK j \in Wrong : \A i \in Wrong : j <= i
    <3>1. Wrong \in SUBSET Nat
      OBVIOUS
    <3> HIDE DEF Wrong
    <3> QED BY <3>1, LeastNatural
  <2>2. j \in 1..n /\ j \in Depths /\ v[j] # w[j] /\ get_idx(a, j) = get_idx(b, j)
    BY <1>0, <2>1, LeadOrder
  <2>3. j # 1
    BY <1>0, <2>2, PathUnfolds
  <2>4. j - 1 \in 1..n /\ ~(j <= j - 1)
    BY <1>0, <2>2, <2>3
  <2>5. v[j - 1] = w[j - 1]
    BY <2>1, <2>4
  <2>6. v[j] = Behind(E, v[j - 1], a, j) /\ w[j] = Behind(E, w[j - 1], b, j)
    BY <2>2, <2>3, PathUnfolds
  <2>7. Behind(E, v[j - 1], a, j) = Behind(E, v[j - 1], b, j)
    BY <2>2 DEF Behind
  <2> HIDE DEF v, w
  <2> QED BY <2>2, <2>5, <2>6, <2>7
<1>2. \A j \in 1..n : v[j] = w[j]
  BY <1>1
<1>3. v[n] = w[n] /\ (n # 1 => v[n - 1] = w[n - 1])
  BY <1>0, <1>2
<1> QED BY <1>3 DEF Reaches

LEMMA PathsMeet ==
  ASSUME NEW E, IsTables(E), OneLinkIn(E), NEW a \in Address, NEW b \in Address,
         NEW n \in Depths, NEW m \in Depths, Reaches(E, a, n), Reaches(E, b, m),
         PathIn(E, a)[n] = PathIn(E, b)[m]
  PROVE  n = m /\ Lead(a, n) = Lead(b, m)
<1> DEFINE v == PathIn(E, a)
           w == PathIn(E, b)
           Meet(i, j) == Reaches(E, a, i) /\ Reaches(E, b, j) /\ v[i] = w[j]
           Wrong == {i \in Depths : \E j \in Depths : Meet(i, j) /\ ~(i = j /\ Lead(a, i) = Lead(b, j))}
<1> SUFFICES ASSUME Wrong # {} PROVE FALSE
  OBVIOUS
<1>0. \A i \in Depths : i \in Nat /\ (i # 1 => i - 1 \in Depths)
  BY TableBytes, Sizes DEF Depths
<1>1. PICK i \in Wrong : \A k \in Wrong : i <= k
  <2>1. Wrong \in SUBSET Nat
    BY <1>0
  <2> HIDE DEF Wrong
  <2> QED BY <2>1, LeastNatural
<1>2. PICK j \in Depths : Meet(i, j) /\ ~(i = j /\ Lead(a, i) = Lead(b, j))
  BY <1>1
<1>3. i \in Depths
  BY <1>1
<1>4. \A k \in Depths, k2 \in Depths : k < i /\ Meet(k, k2) => k = k2 /\ Lead(a, k) = Lead(b, k2)
  <2> SUFFICES ASSUME NEW k \in Depths, NEW k2 \in Depths, k < i, Meet(k, k2)
               PROVE  k = k2 /\ Lead(a, k) = Lead(b, k2)
    OBVIOUS
  <2>1. ~(i <= k)
    <3> HIDE DEF Wrong, Meet
    <3>1. i \in Nat /\ k \in Nat
      BY <1>0, <1>3
    <3> QED BY <3>1
  <2>2. k \notin Wrong
    BY <1>1, <2>1
  <2> HIDE DEF Meet
  <2> QED BY <2>2
<1> HIDE DEF Wrong
<1>5. /\ i = 1 => v[i] = <<tbl24, get_idx(a, 1)>>
      /\ j = 1 => w[j] = <<tbl24, get_idx(b, 1)>>
      /\ i # 1 => /\ E[v[i - 1]].ext /\ v[i] = <<E[v[i - 1]].val, get_idx(a, i)>>
                  /\ E[v[i - 1]].val \in Groups /\ v[i - 1] \in Places
      /\ j # 1 => /\ E[w[j - 1]].ext /\ w[j] = <<E[w[j - 1]].val, get_idx(b, j)>>
                  /\ E[w[j - 1]].val \in Groups /\ w[j - 1] \in Places
  BY <1>2, <1>3, PathStep DEF Reaches
<1>6. tbl24 \notin Groups
  BY Sizes
<1>7. v[i] = w[j]
  BY <1>2
<1>8. CASE i = 1 \/ j = 1
  <2>1. i = 1 /\ j = 1
    BY <1>5, <1>6, <1>7, <1>8
  <2>2. get_idx(a, 1) = get_idx(b, 1)
    BY <1>5, <1>7, <2>1
  <2>3. Lead(a, 1) = Lead(b, 1)
    BY <1>3, <2>1, <2>2, LeadOfTable
  <2> QED BY <1>2, <2>1, <2>3
<1>9. CASE i # 1 /\ j # 1
  <2>1. v[i - 1] = w[j - 1] /\ get_idx(a, i) = get_idx(b, j)
    BY <1>5, <1>7, <1>9 DEF OneLinkIn
  <2>2. i - 1 \in Depths /\ j - 1 \in Depths /\ i - 1 < i /\ i - 1 <= i /\ j - 1 <= j
    BY <1>0, <1>3, <1>9
  <2>3. Reaches(E, a, i - 1) /\ Reaches(E, b, j - 1)
    BY <1>2, <1>3, <2>2, WaysEnd
  <2>4. i - 1 = j - 1 /\ Lead(a, i - 1) = Lead(b, j - 1)
    BY <1>4, <2>1, <2>2, <2>3
  <2>5. i = j
    BY <1>0, <1>3, <2>4
  <2>6. Lead(a, i) = Lead(b, i)
    BY <1>3, <1>9, <2>1, <2>4, <2>5, LeadsAlike
  <2> QED BY <1>2, <2>5, <2>6
<1> QED BY <1>8, <1>9

\* Tables with the same links on a way have the same way.
LEMMA SameWay ==
  ASSUME NEW E, NEW F, IsTables(E), IsTables(F), NEW ip \in Address,
         \A n \in Depths : E[PathIn(E, ip)[n]].ext \/ F[PathIn(E, ip)[n]].ext =>
                             F[PathIn(E, ip)[n]] = E[PathIn(E, ip)[n]]
  PROVE  \A n \in Depths : PathIn(F, ip)[n] = PathIn(E, ip)[n]
<1> DEFINE v == PathIn(E, ip)
           w == PathIn(F, ip)
           Wrong == {n \in Depths : w[n] # v[n]}
<1> SUFFICES ASSUME Wrong # {} PROVE FALSE
  OBVIOUS
<1>1. PICK n \in Wrong : \A k \in Wrong : n <= k
  <2>1. Wrong \in SUBSET Nat
    BY Sizes DEF Depths
  <2> HIDE DEF Wrong
  <2> QED BY <2>1, LeastNatural
<1>2. n \in Depths /\ w[n] # v[n]
  BY <1>1
<1>3. n # 1
  BY <1>2, PathStep
<1>4. n - 1 \in Depths /\ ~(n <= n - 1)
  BY <1>2, <1>3, TableBytes DEF Depths
<1>5. w[n - 1] = v[n - 1]
  BY <1>1, <1>4
<1>6. /\ F[w[n - 1]].ext => w[n] = <<F[w[n - 1]].val, get_idx(ip, n)>>
      /\ ~F[w[n - 1]].ext => w[n] = w[n - 1]
      /\ E[v[n - 1]].ext => v[n] = <<E[v[n - 1]].val, get_idx(ip, n)>>
      /\ ~E[v[n - 1]].ext => v[n] = v[n - 1]
  BY <1>2, <1>3, PathStep
<1>7. E[v[n - 1]].ext \/ F[v[n - 1]].ext => F[v[n - 1]] = E[v[n - 1]]
  BY <1>4
<1> HIDE DEF v, w
<1> QED BY <1>2, <1>5, <1>6, <1>7

\* The group g, which only the entry at q links and which holds one next hop,
\* is folded: in F that entry is the next hop.
FoldsTo(E, F, q, g) ==
  /\ q \in Places /\ g \in Groups /\ q[1] # g /\ E[q] = Link(g)
  /\ \A p \in Places : E[p].ext /\ E[p].val = g => p = q
  /\ Uniform(E, g) /\ F[q] = E[<<g, 0>>]
  /\ \A p \in Places : p # q /\ p[1] # g => F[p] = E[p]

LEMMA FoldKeepsWays ==
  ASSUME NEW E, NEW F, IsTables(E), IsTables(F), NEW q, NEW g, FoldsTo(E, F, q, g),
         NEW ip \in Address
  PROVE  \A n \in Depths :
           LET p == PathIn(E, ip)[n]
           IN  /\ PathIn(F, ip)[n] = IF p[1] = g THEN q ELSE p
               /\ p # q => F[PathIn(F, ip)[n]] = E[p]
               /\ p[1] = g => E[p] = E[<<g, 0>>]
<1> DEFINE v == PathIn(E, ip)
           w == PathIn(F, ip)
           Same(n) == w[n] = IF v[n][1] = g THEN q ELSE v[n]
           Wrong == {n \in Depths : ~Same(n)}
<1>1. /\ q \in Places /\ g \in Groups /\ q[1] # g /\ E[q].ext /\ E[q].val = g
      /\ ~E[<<g, 0>>].ext /\ F[q] = E[<<g, 0>>]
      /\ \A p \in Places : E[p].ext /\ E[p].val = g => p = q
      /\ \A p \in Places : p # q /\ p[1] # g => F[p] = E[p]
      /\ tbl24 # g
  BY Sizes DEF FoldsTo, Uniform, Link
<1>2. \A p \in Places : p[1] = g => E[p] = E[<<g, 0>>]
  <2> TAKE p \in Places
  <2> HAVE p[1] = g
  <2>1. p = <<g, p[2]>> /\ p[2] \in Slots
    BY <1>1, PlaceParts
  <2>2. E[<<g, p[2]>>] = E[<<g, 0>>]
    BY <2>1 DEF FoldsTo, Uniform
  <2> QED BY <2>1, <2>2
<1>3. ASSUME NEW n \in Depths PROVE v[n] \in Places
  BY PathStep
<1>4. Wrong = {}
  <2> SUFFICES ASSUME Wrong # {} PROVE FALSE
    OBVIOUS
  <2>1. PICK n \in Wrong : \A k \in Wrong : n <= k
    <3>1. Wrong \in SUBSET Nat
      BY Sizes DEF Depths
    <3> HIDE DEF Wrong
    <3> QED BY <3>1, LeastNatural
  <2>2. n \in Depths /\ ~Same(n)
    BY <2>1
  <2>3. n # 1
    <3>1. n = 1 => v[n] = <<tbl24, get_idx(ip, 1)>> /\ w[n] = <<tbl24, get_idx(ip, 1)>>
      BY <2>2, PathStep
    <3> HIDE DEF v, w
    <3> QED BY <1>1, <2>2, <3>1
  <2>4. n - 1 \in Depths /\ ~(n <= n - 1)
    BY <2>2, <2>3, TableBytes DEF Depths
  <2>5. Same(n - 1)
    BY <2>1, <2>4
  <2> DEFINE p == v[n - 1]
             f == w[n - 1]
  <2>6. /\ F[f].ext => w[n] = <<F[f].val, get_idx(ip, n)>>
        /\ ~F[f].ext => w[n] = f
        /\ E[p].ext => v[n] = <<E[p].val, get_idx(ip, n)>>
        /\ ~E[p].ext => v[n] = p
        /\ p \in Places
    BY <2>2, <2>3, PathStep
  <2>7. f = IF p[1] = g THEN q ELSE p
    BY <2>5
  <2>8. ~(w[n] = IF v[n][1] = g THEN q ELSE v[n])
    BY <2>2
  <2> HIDE DEF p, f, v, w, Same, Wrong
  <2>9. CASE p[1] = g
    BY <1>1, <1>2, <2>6, <2>7, <2>8, <2>9
  <2>10. CASE p = q
    BY <1>1, <1>2, <2>6, <2>7, <2>8, <2>10
  <2>11. CASE p[1] # g /\ p # q
    <3>1. f = p /\ F[f] = E[p]
      BY <1>1, <2>6, <2>7, <2>11
    <3>2. E[p].ext => E[p].val # g
      BY <1>1, <2>6, <2>11
    <3> QED BY <2>6, <2>8, <2>11, <3>1, <3>2
  <2> QED BY <2>9, <2>10, <2>11
<1>5. ASSUME NEW n \in Depths PROVE Same(n)
  BY <1>4
<1> HIDE DEF v, w, Wrong
<1>6. ASSUME NEW n \in Depths, v[n] # q PROVE F[w[n]] = E[v[n]]
  BY <1>1, <1>2, <1>3, <1>5, <1>6
<1> QED BY <1>2, <1>3, <1>5, <1>6 DEF v, w

\* A linked group with none below it that holds one next hop only answers two
\* addresses differently.
LEMMA VariedAnswers ==
  ASSUME NEW E, IsTables(E), \A ip \in Address : ~E[PathIn(E, ip)[Deepest]].ext,
         NEW a \in Address, NEW n \in Depths, E[PathIn(E, a)[n]].ext,
         \A b \in Address : \A m \in Depths :
           m >= n /\ Lead(b, n) = Lead(a, n) /\ E[PathIn(E, b)[m]].ext =>
             ~Uniform(E, E[PathIn(E, b)[m]].val)
  PROVE  \E b, c \in Address : /\ Lead(b, n) = Lead(a, n) /\ Lead(c, n) = Lead(a, n)
                               /\ HopIn(E, b) # HopIn(E, c)
<1> DEFINE S == {m \in n..Deepest :
                   \E b \in Address : Lead(b, n) = Lead(a, n) /\ E[PathIn(E, b)[m]].ext}
<1>0. /\ n \in Nat /\ n <= Deepest /\ Deepest \in Nat /\ Depths = 1..Deepest
  BY Sizes DEF Depths, Deepest
<1>1. PICK m \in S : \A k \in S : k <= m
  <2>1. n \in S
    BY <1>0
  <2>2. S \in SUBSET (0..Deepest) /\ S # {}
    BY <1>0, <2>1
  <2> HIDE DEF S
  <2> QED BY <1>0, <2>2, GreatestNatural
<1>2. PICK b \in Address : Lead(b, n) = Lead(a, n) /\ E[PathIn(E, b)[m]].ext
  BY <1>1
<1>3. m \in Depths /\ m # Deepest /\ m + 1 \in Depths /\ n \in 1..m /\ m + 1 # 1
  <2>1. m \in n..Deepest
    BY <1>1
  <2>2. m # Deepest
    BY <1>2
  <2> HIDE DEF S
  <2> QED BY <1>0, <2>1, <2>2
<1>4. m + 1 \notin S
  <2>1. ~(m + 1 <= m)
    BY <1>0, <1>3
  <2> QED BY <1>1, <2>1
<1> DEFINE g == E[PathIn(E, b)[m]].val
<1>5. g \in Groups /\ ~Uniform(E, g)
  <2>1. m >= n
    BY <1>0, <1>3
  <2>2. PathIn(E, b)[m] \in Places
    BY <1>3, PathStep
  <2> QED BY <1>2, <1>3, <2>1, <2>2 DEF IsTables
<1>6. ASSUME NEW s \in Slots
      PROVE  /\ ~E[<<g, s>>].ext /\ E[<<g, s>>] \in [ext : BOOLEAN, val : Hops]
             /\ \E c \in Address : Lead(c, n) = Lead(a, n) /\ HopIn(E, c) = E[<<g, s>>].val
  <2>1. PICK c \in Address : Lead(c, (m + 1) - 1) = Lead(b, (m + 1) - 1) /\ get_idx(c, m + 1) = s
    BY <1>3, EverySlot
  <2>2. Lead(c, m) = Lead(b, m)
    <3>1. (m + 1) - 1 = m
      BY <1>0, <1>3
    <3> QED BY <2>1, <3>1
  <2>3. Lead(c, n) = Lead(a, n)
    BY <1>2, <1>3, <2>2, LeadOrder
  <2>4. PathIn(E, c)[m] = PathIn(E, b)[m]
    BY <1>3, <2>2, PathsAlike
  <2>5. PathIn(E, c)[m + 1] = <<g, s>> /\ <<g, s>> \in Places
    <3>1. (m + 1) - 1 = m
      BY <1>0, <1>3
    <3> QED BY <1>2, <1>3, <2>1, <2>4, <3>1, PathStep
  <2>6. ~E[<<g, s>>].ext
    <3>1. m + 1 \in n..Deepest
      BY <1>0, <1>3
    <3> QED BY <1>4, <2>3, <2>5, <3>1
  <2>7. PathIn(E, c)[Deepest] = <<g, s>>
    <3>1. Deepest \in Depths /\ m + 1 <= Deepest
      BY <1>0, <1>3
    <3> QED BY <1>3, <2>5, <2>6, <3>1, WaysEnd
  <2> QED BY <2>3, <2>5, <2>6, <2>7 DEF HopIn, IsTables
<1> HIDE DEF g
<1>7. 0 \in Slots
  BY Sizes
<1>8. PICK s \in Slots : E[<<g, s>>] # E[<<g, 0>>]
  BY <1>5, <1>6, <1>7 DEF Uniform
<1>9. E[<<g, s>>].val # E[<<g, 0>>].val
  BY SMTT(30), <1>6, <1>7, <1>8
<1> QED BY <1>6, <1>7, <1>9

-----------------------------------------------------------------------------
(* The effect of a step on the answers *)

\* No way leads beyond the tables of the last byte.
Leafy(E) == \A ip \in Address : ~E[PathIn(E, ip)[Deepest]].ext

\* The groups that lookups come by.
LinksIn(E) == {g \in Groups : \E ip \in Address, n \in Depths : E[PathIn(E, ip)[n]] = Link(g)}

\* The place of each table on a way is reached as that of this or an earlier
\* table.
LEMMA ReachedBefore ==
  ASSUME NEW E, IsTables(E), NEW ip \in Address, NEW n \in Depths
  PROVE  \E m \in 1..n : /\ m \in Depths /\ Reaches(E, ip, m)
                         /\ PathIn(E, ip)[m] = PathIn(E, ip)[n]
<1> DEFINE S == {m \in 1..n : PathIn(E, ip)[m] = PathIn(E, ip)[n]}
<1>0. n \in Nat /\ 1 <= n /\ \A m \in 1..n : m \in Depths
  BY Sizes DEF Depths
<1>1. PICK m \in S : \A k \in S : m <= k
  <2>1. n \in S /\ S \in SUBSET Nat
    BY <1>0
  <2> HIDE DEF S
  <2> QED BY <2>1, LeastNatural
<1>2. m \in Depths /\ m \in 1..n /\ PathIn(E, ip)[m] = PathIn(E, ip)[n]
  BY <1>0, <1>1
<1>3. Reaches(E, ip, m)
  <2> SUFFICES ASSUME m # 1, ~E[PathIn(E, ip)[m - 1]].ext PROVE FALSE
    BY DEF Reaches
  <2>1. m - 1 \in 1..n /\ ~(m <= m - 1)
    BY <1>2
  <2>2. PathIn(E, ip)[m - 1] = PathIn(E, ip)[m]
    BY <1>2, PathStep
  <2>3. m - 1 \in S
    BY <1>2, <2>1, <2>2
  <2> HIDE DEF S
  <2> QED BY <1>1, <2>1, <2>3
<1> QED BY <1>2, <1>3

\* Next hops are overwritten.
LEMMA PutEffect ==
  ASSUME NEW E, NEW F, IsTables(E), IsTables(F), NEW S, NEW e, ~e.ext,
         \A p \in Places : F[p] = IF p \in S THEN e ELSE E[p],
         \A ip \in Address : \A n \in Depths :
           PathIn(E, ip)[n] \in S => ~E[PathIn(E, ip)[n]].ext
  PROVE  /\ \A ip \in Address : \A n \in Depths : PathIn(F, ip)[n] = PathIn(E, ip)[n]
         /\ \A ip \in Address :
              HopIn(F, ip) = IF PathIn(E, ip)[Deepest] \in S THEN e.val ELSE HopIn(E, ip)
         /\ Leafy(E) => Leafy(F)
         /\ LinksIn(E) \subseteq LinksIn(F)
<1>1. ASSUME NEW ip \in Address
      PROVE  \A n \in Depths : PathIn(F, ip)[n] = PathIn(E, ip)[n]
  <2>1. ASSUME NEW n \in Depths,
               E[PathIn(E, ip)[n]].ext \/ F[PathIn(E, ip)[n]].ext
        PROVE  F[PathIn(E, ip)[n]] = E[PathIn(E, ip)[n]]
    <3>1. PathIn(E, ip)[n] \in Places
      BY PathStep
    <3> QED BY <2>1, <3>1
  <2> QED BY <2>1, SameWay
<1>2. Deepest \in Depths
  BY TableBytes, Sizes
<1>3. ASSUME NEW ip \in Address, NEW n \in Depths
      PROVE  F[PathIn(F, ip)[n]] = IF PathIn(E, ip)[n] \in S THEN e ELSE E[PathIn(E, ip)[n]]
  <2>1. PathIn(E, ip)[n] \in Places /\ PathIn(F, ip)[n] = PathIn(E, ip)[n]
    BY <1>1, PathStep
  <2> QED BY <2>1
<1>4. ASSUME NEW ip \in Address
      PROVE  HopIn(F, ip) = IF PathIn(E, ip)[Deepest] \in S THEN e.val ELSE HopIn(E, ip)
  BY <1>2, <1>3 DEF HopIn
<1>5. Leafy(E) => Leafy(F)
  BY <1>2, <1>3 DEF Leafy
<1>6. LinksIn(E) \subseteq LinksIn(F)
  <2> SUFFICES ASSUME NEW g \in Groups, NEW ip \in Address, NEW n \in Depths,
                      E[PathIn(E, ip)[n]] = Link(g)
               PROVE  F[PathIn(F, ip)[n]] = Link(g)
    BY DEF LinksIn
  <2>1. PathIn(E, ip)[n] \notin S
    BY DEF Link
  <2> QED BY <1>3, <2>1
<1> QED BY <1>1, <1>4, <1>5, <1>6

\* A group is folded.
LEMMA FoldEffect ==
  ASSUME NEW E, NEW F, IsTables(E), IsTables(F), NEW q, NEW g, FoldsTo(E, F, q, g), Leafy(E)
  PROVE  /\ \A ip \in Address : HopIn(F, ip) = HopIn(E, ip)
         /\ Leafy(F)
         /\ LinksIn(E) \ {g} \subseteq LinksIn(F)
<1>1. Deepest \in Depths
  BY TableBytes, Sizes
<1>2. E[q] = Link(g) /\ Link(g).ext /\ \A h : Link(g) = Link(h) => g = h
  BY DEF FoldsTo, Link
<1>3. ASSUME NEW ip \in Address, NEW n \in Depths
      PROVE  /\ PathIn(F, ip)[n] = IF PathIn(E, ip)[n][1] = g THEN q ELSE PathIn(E, ip)[n]
             /\ PathIn(E, ip)[n] # q => F[PathIn(F, ip)[n]] = E[PathIn(E, ip)[n]]
             /\ PathIn(E, ip)[n][1] = g => E[PathIn(E, ip)[n]] = E[<<g, 0>>]
  BY <1>3, FoldKeepsWays
<1>4. ASSUME NEW ip \in Address
      PROVE  F[PathIn(F, ip)[Deepest]] = E[PathIn(E, ip)[Deepest]]
  <2>1. PathIn(E, ip)[Deepest] # q
    BY <1>2 DEF Leafy
  <2> QED BY <1>1, <1>3, <2>1
<1>5. ASSUME NEW h \in Groups, h # g, NEW ip \in Address, NEW n \in Depths,
             E[PathIn(E, ip)[n]] = Link(h)
      PROVE  F[PathIn(F, ip)[n]] = Link(h)
  <2>1. PathIn(E, ip)[n] # q
    BY <1>2, <1>5
  <2> QED BY <1>5, <1>3, <2>1
<1> QED BY <1>4, <1>5 DEF HopIn, Leafy, LinksIn

\* A group is taken for the entry at q, the one table k is used at, and filled
\* with that entry: E is what folding it would bring back.
LEMMA SplitEffect ==
  ASSUME NEW E, NEW F, IsTables(E), IsTables(F), NEW q, NEW g, FoldsTo(F, E, q, g), Leafy(E),
         OneLinkIn(E), NEW a \in Address, NEW k \in Depths, k # Deepest,
         Reaches(E, a, k), PathIn(E, a)[k] = q
  PROVE  /\ \A ip \in Address : HopIn(F, ip) = HopIn(E, ip)
         /\ Leafy(F)
         /\ LinksIn(E) \cup {g} \subseteq LinksIn(F)
<1>1. Deepest \in Depths /\ Deepest # 1 /\ Deepest - 1 \in Depths
  BY TableBytes, Sizes DEF Deepest, Depths
<1>2. /\ q \in Places /\ g \in Groups /\ q[1] # g /\ F[q] = Link(g) /\ Link(g).ext
      /\ ~E[q].ext /\ E[q] = F[<<g, 0>>] /\ F[q].val = g
      /\ \A p \in Places : F[p].ext /\ F[p].val = g => p = q
  BY DEF FoldsTo, Link, Uniform
<1>3. ASSUME NEW ip \in Address, NEW n \in Depths
      PROVE  /\ PathIn(E, ip)[n] = IF PathIn(F, ip)[n][1] = g THEN q ELSE PathIn(F, ip)[n]
             /\ PathIn(F, ip)[n] # q => E[PathIn(E, ip)[n]] = F[PathIn(F, ip)[n]]
             /\ PathIn(F, ip)[n][1] = g => F[PathIn(F, ip)[n]] = F[<<g, 0>>]
  BY <1>3, FoldKeepsWays
<1>4. ASSUME NEW ip \in Address PROVE PathIn(F, ip)[Deepest] # q
  <2> SUFFICES ASSUME PathIn(F, ip)[Deepest] = q PROVE FALSE
    OBVIOUS
  <2>0. F[PathIn(F, ip)[Deepest]].ext
    BY <1>2
  <2>1. Reaches(F, ip, Deepest)
    <3>1. Deepest <= Deepest
      BY <1>1 DEF Depths
    <3> QED BY <1>1, <2>0, <3>1, WaysEnd
  <2> DEFINE p == PathIn(F, ip)[Deepest - 1]
  <2>2. F[p].ext
    BY <1>1, <2>1 DEF Reaches
  <2>3. p # q
    <3>1. q = <<F[p].val, get_idx(ip, Deepest)>>
      BY <1>1, <2>2, PathStep
    <3> HIDE DEF p
    <3> QED BY <1>2, <3>1
  <2>4. E[PathIn(E, ip)[Deepest - 1]].ext
    BY <1>1, <1>3, <2>2, <2>3
  <2>5. Reaches(E, ip, Deepest)
    BY <2>4 DEF Reaches
  <2>6. PathIn(E, ip)[Deepest] = q
    BY <1>1, <1>2, <1>3
  <2> QED BY <1>1, <2>5, <2>6, PathsMeet
<1>5. ASSUME NEW ip \in Address
      PROVE  F[PathIn(F, ip)[Deepest]] = E[PathIn(E, ip)[Deepest]]
  BY <1>1, <1>3, <1>4
<1>6. ASSUME NEW h \in Groups, NEW ip \in Address, NEW n \in Depths,
             E[PathIn(E, ip)[n]] = Link(h)
      PROVE  F[PathIn(F, ip)[n]] = Link(h)
  <2>1. PathIn(F, ip)[n] # q
    <3> SUFFICES ASSUME PathIn(F, ip)[n] = q PROVE FALSE
      OBVIOUS
    <3>1. PathIn(E, ip)[n] = q
      BY <1>2, <1>3
    <3> QED BY <1>2, <1>6, <3>1 DEF Link
  <2> QED BY <1>3, <1>6, <2>1
<1>7. F[PathIn(F, a)[k]] = Link(g) \/ \E m \in Depths : F[PathIn(F, a)[m]] = Link(g)
  <2>1. CASE PathIn(F, a)[k] = q
    BY <1>2, <2>1
  <2>2. CASE PathIn(F, a)[k] # q
    <3>1. PathIn(F, a)[k][1] = g
      BY <1>3, <2>2
    <3>2. PICK m \in 1..k : m \in Depths /\ Reaches(F, a, m) /\ PathIn(F, a)[m] = PathIn(F, a)[k]
      BY ReachedBefore
    <3>3. m # 1
      <4>1. tbl24 # g
        BY <1>2, Sizes
      <4>2. m = 1 => PathIn(F, a)[m] = <<tbl24, get_idx(a, 1)>>
        BY <3>2, PathStep
      <4> QED BY <3>1, <3>2, <4>1, <4>2
    <3> DEFINE p == PathIn(F, a)[m - 1]
    <3>4. F[p].ext /\ p \in Places /\ PathIn(F, a)[m] = <<F[p].val, get_idx(a, m)>>
      BY <3>2, <3>3, PathStep DEF Reaches
    <3> HIDE DEF p
    <3>5. F[p].val = g
      BY <3>1, <3>2, <3>4
    <3>6. p = q
      BY <1>2, <3>4, <3>5
    <3>7. m - 1 \in Depths
      BY <3>2, <3>3, TableBytes
    <3> QED BY <1>2, <3>6, <3>7 DEF p
  <2> QED BY <2>1, <2>2
<1> QED BY <1>2, <1>5, <1>6, <1>7 DEF HopIn, Leafy, LinksIn

-----------------------------------------------------------------------------
(* The tables as they will be linked *)

\* The places of an edge that write_edge has passed and will come back to.
Open == IF op.pc \in Edges THEN Root..(Level - 1) ELSE {}

At(path, edge, n) == <<path[n], get_idx(edge, n)>>

\* E with the places K on the way to an edge linked.
Closed(E, path, edge, K) ==
  [p \in Places |-> IF \E k \in K : p = At(path, edge, k)
                    THEN Link(path[(CHOOSE k \in K : p = At(path, edge, k)) + 1])
                    ELSE E[p]]

Joined == Closed(entries, op.path, Edge, Open)

LEMMA ClosedIs ==
  ASSUME NEW E, IsTables(E), NEW path, NEW edge, NEW K,
         \A k \in K : path[k + 1] \in Groups,
         \A j, k \in K : path[j] = path[k] => j = k
  PROVE  /\ IsTables(Closed(E, path, edge, K))
         /\ \A k \in K : At(path, edge, k) \in Places =>
              Closed(E, path, edge, K)[At(path, edge, k)] = Link(path[k + 1])
         /\ \A p \in Places : (\A k \in K : p # At(path, edge, k)) =>
              Closed(E, path, edge, K)[p] = E[p]
<1> DEFINE F == Closed(E, path, edge, K)
           by(p) == CHOOSE k \in K : p = At(path, edge, k)
<1>1. \A p \in Places : F[p] = IF \E k \in K : p = At(path, edge, k)
                               THEN Link(path[by(p) + 1]) ELSE E[p]
  BY DEF Closed
<1>2. \A p : (\E k \in K : p = At(path, edge, k)) => by(p) \in K /\ p = At(path, edge, by(p))
  OBVIOUS
<1> HIDE DEF by
<1>3. \A k \in K : by(At(path, edge, k)) = k
  <2> TAKE k \in K
  <2>1. by(At(path, edge, k)) \in K /\ At(path, edge, k) = At(path, edge, by(At(path, edge, k)))
    BY <1>2
  <2>2. path[k] = path[by(At(path, edge, k))]
    BY <2>1 DEF At
  <2> QED BY <2>1, <2>2
<1>4. IsTables(F)
  <2>1. \A g \in Groups : Link(g) \in [ext : BOOLEAN, val : Hops] /\ Link(g).val = g
    BY Sizes DEF Link
  <2>2. \A p \in Places : /\ F[p] \in [ext : BOOLEAN, val : Hops]
                          /\ F[p].ext => F[p].val \in Groups
    BY <1>1, <1>2, <2>1 DEF IsTables
  <2>3. F = [p \in Places |-> F[p]]
    BY DEF Closed
  <2> HIDE DEF F
  <2>4. F \in [Places -> [ext : BOOLEAN, val : Hops]]
    BY <2>2, <2>3
  <2> QED BY <2>2, <2>4 DEF IsTables
<1> HIDE DEF F
<1> QED BY <1>1, <1>2, <1>3, <1>4 DEF F

\* The place of each table on the way of a call, and what it links.
JoinedOK ==
  /\ Level \in Nat /\ Root \in Nat \ {0} /\ Open \subseteq 1..(Level - 1)
  /\ \A n \in 1..Level : Place(n) \in Places /\ n \in Depths
  /\ \A m, n \in 1..Level : Place(m)[1] = Place(n)[1] => m = n
  /\ IsTables(entries) /\ IsTables(Joined) /\ OneLinkIn(Joined)
  /\ \A k \in Open : Joined[Place(k)] = Link(op.path[k + 1]) /\ op.path[k + 1] \in Groups
  /\ \A p \in Places : (\A k \in Open : p # Place(k)) => Joined[p] = entries[p]

LEMMA JoinedIs == IndInv => JoinedOK
<1> SUFFICES ASSUME IndInv PROVE JoinedOK
  OBVIOUS
<1>1. /\ Level \in Nat \ {0} /\ Level \in Depths /\ Root \in Nat \ {0}
      /\ \A n \in 1..Level : Place(n) \in Places
      /\ \A n \in 2..Level : op.path[n] \in Groups
  BY Walking
<1>2. \A n \in 1..Level : n \in Depths
  BY <1>1, Sizes DEF Depths
<1>3. Open \subseteq 1..(Level - 1)
  BY <1>1 DEF Open
<1>4. \A m, n \in 1..Level : op.path[m] = op.path[n] => m = n
  BY DEF IndInv, LinksOK, NoLoop
<1>5. IsTables(entries)
  BY DEF IndInv, TablesOK, IsTables
<1>6. \A k \in Open : k \in 1..Level /\ k + 1 \in 2..Level
  BY <1>1, <1>3
<1>7. \A k : Place(k) = At(op.path, Edge, k)
  BY DEF Place, At
<1>8. /\ IsTables(Joined)
      /\ \A k \in Open : Joined[Place(k)] = Link(op.path[k + 1]) /\ op.path[k + 1] \in Groups
      /\ \A p \in Places : (\A k \in Open : p # Place(k)) => Joined[p] = entries[p]
  <2>1. /\ \A k \in Open : op.path[k + 1] \in Groups
        /\ \A j, k \in Open : op.path[j] = op.path[k] => j = k
    BY <1>1, <1>4, <1>6
  <2>2. /\ IsTables(Joined)
        /\ \A k \in Open : At(op.path, Edge, k) \in Places =>
             Joined[At(op.path, Edge, k)] = Link(op.path[k + 1])
        /\ \A p \in Places : (\A k \in Open : p # At(op.path, Edge, k)) =>
             Joined[p] = entries[p]
    BY <1>5, <2>1, ClosedIs DEF Joined
  <2> QED BY <1>1, <1>6, <1>7, <2>1, <2>2
<1>11. \A k \in Open : Joined[Place(k)].val = op.path[k + 1]
  <2> TAKE k \in Open
  <2>1. Joined[Place(k)] = Link(op.path[k + 1])
    BY <1>8
  <2> QED BY <2>1 DEF Link
<1>12. OneLinkIn(Joined)
  <2> SUFFICES ASSUME NEW p \in Places, NEW q \in Places, Joined[p].ext, Joined[q].ext,
                      Joined[p].val = Joined[q].val
               PROVE  p = q
    BY DEF OneLinkIn
  <2>1. ASSUME NEW k \in Open, NEW r \in Places, \A j \in Open : r # Place(j),
               Joined[r].ext, Joined[r].val = op.path[k + 1]
        PROVE  FALSE
    <3>1. entries[r].ext /\ entries[r].val = op.path[k + 1]
      BY <1>8, <2>1
    <3>2. k + 1 \in 2..Level /\ k + 1 > Root /\ (k + 1) - 1 = k /\ op.pc \in Edges
      BY <1>1, <1>6 DEF Open
    <3>3. r = Place((k + 1) - 1)
      BY <3>1, <3>2 DEF IndInv, LinksOK, LinkedOnTheWay, Linkers
    <3> QED BY <2>1, <3>2, <3>3
  <2>2. CASE \E j \in Open : p = Place(j)
    <3> PICK j \in Open : p = Place(j)
      BY <2>2
    <3>1. Joined[p].val = op.path[j + 1]
      BY <1>11
    <3>2. PICK k \in Open : q = Place(k)
      BY <2>1, <3>1
    <3>3. op.path[j + 1] = op.path[k + 1]
      BY <1>11, <3>1, <3>2
    <3>4. j + 1 = k + 1 /\ j \in Int /\ k \in Int
      <4>1. j + 1 \in 1..Level /\ k + 1 \in 1..Level /\ j \in Int /\ k \in Int
        BY <1>1, <1>6
      <4> QED BY <1>4, <3>3, <4>1
    <3>5. j = k
      BY <3>4
    <3> QED BY <3>2, <3>5
  <2>3. CASE \A j \in Open : p # Place(j)
    <3>1. \A j \in Open : q # Place(j)
      <4> SUFFICES ASSUME NEW j \in Open, q = Place(j) PROVE FALSE
        OBVIOUS
      <4>1. Joined[q].val = op.path[j + 1]
        BY <1>11
      <4> QED BY <2>1, <2>3, <4>1
    <3>2. p \in Linkers /\ q \in Linkers /\ entries[p].val = entries[q].val
      BY <1>8, <2>3, <3>1 DEF Linkers
    <3> QED BY <3>2 DEF IndInv, LinksOK, OneLink
  <2> QED BY <2>2, <2>3
<1>10. \A m, n \in 1..Level : Place(m)[1] = Place(n)[1] => m = n
  BY <1>4 DEF Place
<1> QED BY <1>1, <1>2, <1>3, <1>5, <1>8, <1>10, <1>12 DEF JoinedOK

LEMMA JoinedIsNext == IndInv' => JoinedOK'
BY JoinedIs, PTL
\* The way of a call is one of links, but for the places that are open.
PathLinked ==
  \A n \in 1..(Level - 1) : \/ entries[Place(n)] = Link(op.path[n + 1])
                            \/ n \in Open /\ ~entries[Place(n)].ext

\* So lookups of the edge come along it.
LEMMA EdgeReaches ==
  ASSUME IndInv, PathLinked
  PROVE  \A n \in 1..Level : PathIn(Joined, Edge)[n] = Place(n) /\ Reaches(Joined, Edge, n)
<1> DEFINE v == PathIn(Joined, Edge)
           Wrong == {n \in 1..Level : ~(v[n] = Place(n) /\ Reaches(Joined, Edge, n))}
<1> SUFFICES ASSUME Wrong # {} PROVE FALSE
  OBVIOUS
<1>1. JoinedOK
  BY JoinedIs
<1>2. op.path[1] = tbl24 /\ Edge \in Address /\ Level \in Nat
  <2>1. op \in Call
    BY DEF IndInv, OpOK
  <2>2. Edge \in Address
    BY <2>1, LastInAddress DEF Edge, Call
  <2> QED BY <2>2, Walking
<1>3. PICK n \in Wrong : \A k \in Wrong : n <= k
  <2>1. Wrong \in SUBSET Nat
    BY <1>2
  <2> HIDE DEF Wrong
  <2> QED BY <2>1, LeastNatural
<1>4. n \in 1..Level /\ n \in Depths
  BY <1>1, <1>3 DEF JoinedOK
<1>5. n # 1
  <2> SUFFICES ASSUME n = 1 PROVE FALSE
    OBVIOUS
  <2>1. v[1] = <<tbl24, get_idx(Edge, 1)>>
    BY <1>1, <1>2, <1>4, PathStep DEF JoinedOK
  <2> QED BY <1>2, <1>3, <2>1 DEF Place, Reaches
<1>6. n - 1 \in 1..(Level - 1) /\ n - 1 \in 1..Level /\ ~(n <= n - 1) /\ (n - 1) + 1 = n
  BY <1>2, <1>4, <1>5
<1>7. v[n - 1] = Place(n - 1)
  BY <1>3, <1>6
<1>8. Joined[Place(n - 1)] = Link(op.path[n])
  <2>1. CASE n - 1 \in Open
    BY <1>1, <1>6, <2>1 DEF JoinedOK
  <2>2. CASE n - 1 \notin Open
    <3>1. entries[Place(n - 1)] = Link(op.path[n])
      BY <1>6, <2>2 DEF PathLinked
    <3>2. \A k \in Open : Place(n - 1) # Place(k)
      <4> SUFFICES ASSUME NEW k \in Open, Place(n - 1) = Place(k) PROVE FALSE
        OBVIOUS
      <4>1. k \in 1..Level
        BY <1>1, <1>2 DEF JoinedOK
      <4>2. n - 1 = k
        BY <1>1, <1>6, <4>1 DEF JoinedOK
      <4> QED BY <2>2, <4>2
    <3> QED BY <1>1, <1>6, <3>1, <3>2 DEF JoinedOK
  <2> QED BY <2>1, <2>2
<1>9. Joined[v[n - 1]].ext /\ Joined[v[n - 1]].val = op.path[n]
  <2>1. Joined[v[n - 1]] = Link(op.path[n])
    BY <1>7, <1>8
  <2> QED BY <2>1 DEF Link
<1>10. v[n] = <<Joined[v[n - 1]].val, get_idx(Edge, n)>>
  BY <1>1, <1>2, <1>4, <1>5, <1>9, PathStep DEF JoinedOK
<1>11. v[n] = Place(n) /\ Reaches(Joined, Edge, n)
  <2>1. v[n] = Place(n)
    BY <1>9, <1>10 DEF Place
  <2> QED BY <1>9, <2>1 DEF Reaches
<1> QED BY <1>3, <1>11

\* Under the last table on the way of a call.
ByHere(ip) == Level # 1 => Lead(ip, Level - 1) = Lead(Edge, Level - 1)

LEMMA ComesByHere ==
  ASSUME IndInv, PathLinked, NEW ip \in Address, ByHere(ip)
  PROVE  /\ PathIn(Joined, ip)[Level] = <<op.path[Level], get_idx(ip, Level)>>
         /\ Reaches(Joined, ip, Level)
<1>1. JoinedOK /\ IsTables(Joined)
  BY JoinedIs DEF JoinedOK
<1>2. op.path[1] = tbl24 /\ Edge \in Address /\ Level \in Nat \ {0} /\ Level \in Depths
  <2>1. op \in Call
    BY DEF IndInv, OpOK
  <2>2. Edge \in Address
    BY <2>1, LastInAddress DEF Edge, Call
  <2> QED BY <2>2, Walking
<1>3. CASE Level = 1
  BY <1>1, <1>2, <1>3, PathStep DEF Reaches
<1>4. CASE Level # 1
  <2>1. Level - 1 \in Depths /\ Level - 1 \in 1..Level /\ Level \in 1..Level
    BY <1>2, <1>4, TableBytes
  <2>2. PathIn(Joined, ip)[Level - 1] = PathIn(Joined, Edge)[Level - 1]
    BY <1>1, <1>2, <1>4, <2>1, PathsAlike DEF ByHere
  <2> DEFINE p == PathIn(Joined, ip)[Level - 1]
  <2>3. Joined[p].ext
    <3>1. Reaches(Joined, Edge, Level)
      BY <2>1, EdgeReaches
    <3> QED BY <1>4, <2>2, <3>1 DEF Reaches
  <2>4. PathIn(Joined, Edge)[Level] = <<Joined[p].val, get_idx(Edge, Level)>>
    BY <1>1, <1>2, <1>4, <2>2, <2>3, PathStep
  <2>5. PathIn(Joined, Edge)[Level] = <<op.path[Level], get_idx(Edge, Level)>>
    BY <2>1, EdgeReaches DEF Place
  <2>6. Joined[p].val = op.path[Level]
    BY <2>4, <2>5
  <2>7. PathIn(Joined, ip)[Level] = <<Joined[p].val, get_idx(ip, Level)>>
    BY <1>1, <1>2, <1>4, <2>3, PathStep
  <2> QED BY <2>3, <2>6, <2>7 DEF Reaches
<1> QED BY <1>3, <1>4

\* Only these addresses come to its entries.
LEMMA ComesOnly ==
  ASSUME IndInv, PathLinked, NEW ip \in Address, NEW n \in Depths,
         PathIn(Joined, ip)[n][1] = op.path[Level]
  PROVE  /\ ByHere(ip) /\ Level <= n
         /\ PathIn(Joined, ip)[n] = PathIn(Joined, ip)[Level]
<1>1. JoinedOK /\ IsTables(Joined) /\ OneLinkIn(Joined)
  BY JoinedIs DEF JoinedOK
<1>2. op.path[1] = tbl24 /\ Edge \in Address /\ Level \in Nat \ {0} /\ Level \in Depths
  <2>1. op \in Call
    BY DEF IndInv, OpOK
  <2>2. Edge \in Address
    BY <2>1, LastInAddress DEF Edge, Call
  <2> QED BY <2>2, Walking
<1>3. PICK m \in 1..n : /\ m \in Depths /\ Reaches(Joined, ip, m)
                        /\ PathIn(Joined, ip)[m] = PathIn(Joined, ip)[n]
  BY <1>1, ReachedBefore
<1>4. m = Level /\ ByHere(ip)
  <2>1. CASE m = 1
    <3>1. PathIn(Joined, ip)[m][1] = tbl24
      BY <1>1, <1>3, <2>1, PathStep
    <3>2. Level \notin 2..Level
      BY <1>3, <3>1, Walking
    <3> QED BY <1>2, <2>1, <3>2 DEF ByHere
  <2>2. CASE m # 1
    <3> DEFINE p == PathIn(Joined, ip)[m - 1]
    <3>1. /\ Joined[p].ext /\ p \in Places /\ Joined[p].val \in Groups
          /\ PathIn(Joined, ip)[m] = <<Joined[p].val, get_idx(ip, m)>>
      BY <1>1, <1>3, <2>2, PathStep DEF Reaches
    <3>2. Joined[p].val = op.path[Level]
      BY <1>3, <3>1
    <3>3. Level # 1
      BY <1>2, <3>1, <3>2, Sizes
    <3>4. Level - 1 \in 1..Level /\ Level \in 1..Level /\ Level - 1 \in Depths
          /\ m - 1 \in Depths /\ Level - 1 <= Level /\ m - 1 <= m
      <4>1. m \in Int
        BY <1>3
      <4> QED BY <1>2, <1>3, <2>2, <3>3, <4>1, TableBytes
    <3> DEFINE q == PathIn(Joined, Edge)[Level - 1]
    <3>5. /\ Joined[q].ext /\ q \in Places
          /\ PathIn(Joined, Edge)[Level] = <<Joined[q].val, get_idx(Edge, Level)>>
      <4>1. Reaches(Joined, Edge, Level)
        BY <3>4, EdgeReaches
      <4> QED BY <1>1, <1>2, <3>3, <4>1, PathStep DEF Reaches
    <3>6. Joined[q].val = op.path[Level]
      BY <3>4, <3>5, EdgeReaches DEF Place
    <3>7. p = q
      BY <1>1, <3>1, <3>2, <3>5, <3>6 DEF OneLinkIn
    <3>8. Reaches(Joined, ip, m - 1) /\ Reaches(Joined, Edge, Level - 1)
      <4>1. Reaches(Joined, ip, m - 1)
        BY <1>1, <1>3, <3>4, WaysEnd
      <4> QED BY <3>4, <4>1, EdgeReaches
    <3>9. m - 1 = Level - 1 /\ Lead(ip, m - 1) = Lead(Edge, Level - 1)
      BY <1>1, <1>2, <3>4, <3>7, <3>8, PathsMeet
    <3>10. m = Level
      BY <1>2, <1>3, <3>9
    <3> QED BY <3>9, <3>10 DEF ByHere
  <2> QED BY <2>1, <2>2
<1> QED BY <1>3, <1>4

-----------------------------------------------------------------------------
(* Where an update is *)

Busy == op.pc \notin {"idle", "failed"}

\* After the last address comes 0; no gap of a longer route than the default
\* one starts there and ends there.
Pos(a) == IF a = 0 /\ op.key.ip # 0 THEN 2 ^ MAX_DEPTH ELSE a

Final == LastIn(op.redge)
Within(ip) == op.ledge <= ip /\ ip < Pos(op.redge)

\* The addresses of the gap that have been written: those under the last table
\* of an edge that write_edge has come back to, under the left edge's entry of
\* the root table, between the edges, and under the right edge's entry.
DoneIn(ip) ==
  \/ op.pc = "ledge" /\ op.up /\ Lead(ip, Level) = Lead(op.ledge, Level)
  \/ op.pc \in {"between", "redge"} /\ Lead(ip, Root) = Lead(op.ledge, Root)
  \/ op.pc = "redge" /\ Lead(ip, Root) < Lead(Final, Root)
  \/ op.pc = "redge" /\ op.up /\ Lead(ip, Level) = Lead(Final, Level)
  \/ op.pc = "recycle"

Done(ip) ==
  IF op.pc = "gap" THEN ip < Pos(op.ledge)
  ELSE ip < op.ledge \/ (Within(ip) /\ DoneIn(ip))

\* What the exposed addresses had before.
Old == IF op.call = "add" THEN ParentHop(rib, op.key) ELSE rib[op.key]

Expected(ip) ==
  IF op.pc = "idle" \/ ~Exposed(rib, op.key, ip) THEN RibHop(rib, ip)
  ELSE IF Done(ip) THEN op.hop ELSE Old

Agreed == type = "TRIE" => \A ip \in Address : HopIn(Joined, ip) = Expected(ip)

\* The running call and the RIB.
CallOK ==
  /\ IsMasked(op.key) /\ op.key.depth # 0
  /\ op.key \in DOMAIN rib
  /\ op.call = "add" => rib[op.key] = op.hop
  /\ op.call = "delete" => op.hop = ParentHop(rib, op.key)

\* Between two gaps: the longer routes are ahead or behind.
BetweenGaps ==
  LET at == Pos(op.ledge)
  IN  /\ op.key.ip <= at /\ at <= Past(op.key)
      /\ \A q \in op.todo : at <= q.ip
      /\ \A q \in Nearest(rib, op.key) \ op.todo : Past(q) <= at
      /\ op.last => at = Past(op.key)

\* In a gap: none of them is between its edges.
InGap ==
  LET end == Pos(op.redge)
  IN  /\ op.key.ip <= op.ledge /\ op.ledge < end /\ end <= Past(op.key)
      /\ \A q \in op.todo : end <= q.ip
      /\ \A q \in Nearest(rib, op.key) \ op.todo : Past(q) <= op.ledge
      /\ op.last => end = Past(op.key)

GapOK ==
  /\ op.todo \subseteq Nearest(rib, op.key)
  /\ op.last => op.todo = {}
  /\ IF op.pc = "gap" THEN BetweenGaps ELSE InGap

\* An edge is not followed beyond its last table, and the walk back to tbl24
\* starts at the root table.
OnEdge ==
  /\ op.pc \in Edges => Level <= BottomTable
  /\ op.pc = "recycle" => Level <= Root

\* Where a group is not linked yet, a lookup finds what was there before, and
\* nobody else is answered from there.
HiddenOld ==
  \A k \in Open : ~entries[Place(k)].ext =>
    /\ entries[Place(k)].val = Old
    /\ \A ip \in Address : Lead(ip, k) = Lead(Edge, k) => Within(ip) \/ Expected(ip) = Old

\* A group that holds one next hop is on the way of the call or about to be
\* folded.
VariedGroups ==
  \A p \in Places : Joined[p].ext =>
    \/ ~Uniform(Joined, Joined[p].val)
    \/ Joined[p].val \in OnPath
    \/ op.pc = "recycle" /\ p = Here

\* A group is in the pool, or lookups come by its link.
NoneLost == Groups \subseteq Range(free) \cup LinksIn(Joined)

TrieOK ==
  /\ PathLinked /\ OnEdge /\ HiddenOld /\ VariedGroups /\ NoneLost
  /\ Leafy(Joined) /\ Agreed

AgreeInv ==
  /\ RoutesOK(rib)
  /\ Busy => CallOK /\ GapOK
  /\ op.pc = "failed" => ~intact
  /\ intact => TrieOK

-----------------------------------------------------------------------------
(* The gap *)

LEMMA KeyFacts ==
  ASSUME IndInv, RoutesOK(rib), CallOK
  PROVE  /\ op.key.ip \in Nat /\ Past(op.key) \in Nat
         /\ op.key.ip < Past(op.key) /\ Past(op.key) <= 2 ^ MAX_DEPTH
         /\ op.ledge \in Nat /\ op.redge \in Nat /\ 2 ^ MAX_DEPTH \in Nat
         /\ op.ledge < 2 ^ MAX_DEPTH /\ op.redge < 2 ^ MAX_DEPTH
         /\ Pos(op.ledge) \in Nat /\ Pos(op.redge) \in Nat
         /\ Pos(End(op.key)) = Past(op.key)
<1>1. op \in Call /\ op.ledge \in Address /\ op.redge \in Address
  BY DEF IndInv, OpOK, Call
<1>2. /\ op.ledge \in Nat /\ op.redge \in Nat /\ 2 ^ MAX_DEPTH \in Nat \ {0}
      /\ op.ledge < 2 ^ MAX_DEPTH /\ op.redge < 2 ^ MAX_DEPTH
  BY <1>1, DepthsAreNaturals DEF Address
<1>3. /\ op.key.ip \in Nat /\ Size(op.key.depth) \in Nat
      /\ op.key.ip < Past(op.key) /\ Past(op.key) <= 2 ^ MAX_DEPTH
  BY <1>1, HoldsInterval DEF CallOK
<1>4. Past(op.key) \in Nat
  BY <1>3 DEF Past
<1>5. Pos(End(op.key)) = Past(op.key)
  <2>1. End(op.key) = IF Past(op.key) = 2 ^ MAX_DEPTH THEN 0 ELSE Past(op.key)
    BY NetworkEndIs DEF CallOK
  <2>2. Past(op.key) = 2 ^ MAX_DEPTH => op.key.ip # 0
    BY <1>2, LastNetwork DEF CallOK
  <2> QED BY <1>3, <1>4, <2>1, <2>2 DEF Pos
<1> QED BY <1>2, <1>3, <1>4, <1>5 DEF Pos

LEMMA RouteFacts ==
  ASSUME IndInv, RoutesOK(rib), CallOK, NEW q \in Nearest(rib, op.key)
  PROVE  /\ IsMasked(q) /\ q.ip \in Nat /\ Past(q) \in Nat /\ q.ip < Past(q)
         /\ op.key.ip <= q.ip /\ Past(q) <= Past(op.key)
         /\ Pos(q.ip) = q.ip /\ Pos(get_nxt_net(q)) = Past(q)
<1>1. IsMasked(q) /\ op.key.ip <= q.ip /\ Past(q) <= Past(op.key)
  BY NearestApart DEF CallOK
<1>2. /\ op.key.ip \in Nat /\ Past(op.key) \in Nat /\ op.key.ip < Past(op.key)
      /\ Past(op.key) <= 2 ^ MAX_DEPTH /\ 2 ^ MAX_DEPTH \in Nat \ {0}
  BY KeyFacts, DepthsAreNaturals
<1>3. q.ip \in Nat /\ Size(q.depth) \in Nat /\ q.ip < Past(q)
  BY <1>1, HoldsInterval DEF IsMasked, Network
<1>4. Past(q) \in Nat
  BY <1>3 DEF Past
<1>5. Pos(q.ip) = q.ip
  BY <1>1, <1>2, <1>3 DEF Pos
<1>6. Pos(get_nxt_net(q)) = Past(q)
  <2>1. get_nxt_net(q) = IF Past(q) = 2 ^ MAX_DEPTH THEN 0 ELSE Past(q)
    BY <1>1, NetworkEndIs DEF get_nxt_net
  <2>2. Past(q) = 2 ^ MAX_DEPTH => Past(op.key) = 2 ^ MAX_DEPTH
    BY <1>1, <1>2, <1>4
  <2>3. Past(op.key) = 2 ^ MAX_DEPTH => op.key.ip # 0
    BY <1>2, LastNetwork DEF CallOK
  <2> QED BY <1>3, <1>4, <2>1, <2>2, <2>3 DEF Pos
<1> QED BY <1>1, <1>3, <1>4, <1>5, <1>6

LEMMA LastIs ==
  ASSUME NEW redge \in Address
  PROVE  LastIn(redge) = IF redge = 0 THEN 2 ^ MAX_DEPTH - 1 ELSE redge - 1
<1> DEFINE m == 2 ^ MAX_DEPTH
<1>1. m \in Nat \ {0} /\ redge \in 0..(m - 1)
  BY DepthsAreNaturals DEF Address
<1> HIDE DEF m
<1>2. ASSUME NEW k \in Int, NEW s \in 0..(m - 1), redge - 1 = m * k + s
      PROVE  (redge - 1) % m = s
  <2> DEFINE d == (redge - 1) \div m
             r == (redge - 1) % m
  <2>1. d \in Int /\ r \in 0..(m - 1) /\ redge - 1 = m * d + r
    BY <1>1
  <2> HIDE DEF d, r
  <2>2. m * k + s = m * d + r /\ m \in Nat
    BY <1>1, <1>2, <2>1
  <2>3. /\ r \in 0..(m - 1) /\ s \in 0..(m - 1) /\ d \in Int /\ k \in Int /\ m \in Nat
        /\ m * k + s = m * d + r
    BY <1>2, <2>1, <2>2
  <2>4. r = s
    BY ONLY <2>3, DigitsCompared
  <2> QED BY <2>4 DEF r
<1>3. LastIn(redge) = (redge - 1) % m
  BY DEF LastIn, m
<1>4. CASE redge = 0
  <2>1. redge - 1 = m * (-1) + (m - 1) /\ m - 1 \in 0..(m - 1)
    BY <1>1, <1>4
  <2> QED BY <1>2, <1>3, <1>4, <2>1 DEF m
<1>5. CASE redge # 0
  <2>1. redge - 1 = m * 0 + (redge - 1) /\ redge - 1 \in 0..(m - 1)
    BY <1>1, <1>5
  <2> QED BY <1>2, <1>3, <1>5, <2>1
<1> QED BY <1>4, <1>5

\* What is known of the edges of a gap.
GapShape ==
  /\ op.ledge \in Address /\ Final \in Address /\ op.ledge <= Final
  /\ \A ip \in Address : Within(ip) <=> op.ledge <= ip /\ ip <= Final
  /\ \A ip \in Address : Within(ip) => Exposed(rib, op.key, ip)
  /\ \A ip \in Address : ip < Pos(op.redge) <=> ip <= Final
  /\ Root \in Depths
  /\ Root # 1 => Lead(op.ledge, Root - 1) = Lead(Final, Root - 1)
  /\ Root # Deepest => Lead(op.ledge, Root) < Lead(Final, Root)
  /\ Lead(op.ledge, Root) <= Lead(Final, Root)

LEMMA GapShaped ==
  ASSUME IndInv, AgreeInv, Busy, op.pc # "gap"
  PROVE  GapShape
<1>1. RoutesOK(rib) /\ CallOK /\ InGap
  BY DEF AgreeInv, GapOK
<1>2. /\ op.key.ip \in Nat /\ Past(op.key) \in Nat /\ op.ledge \in Nat
      /\ Pos(op.redge) \in Nat /\ 2 ^ MAX_DEPTH \in Nat
      /\ op.ledge < 2 ^ MAX_DEPTH /\ op.redge < 2 ^ MAX_DEPTH /\ op.redge \in Nat
  BY <1>1, KeyFacts
<1>3. op.redge \in Address /\ op.ledge \in Address /\ Final \in Address
  BY LastInAddress DEF IndInv, OpOK, Call, Final
<1>4. op.key.ip <= op.ledge /\ op.ledge < Pos(op.redge) /\ Pos(op.redge) <= Past(op.key)
  BY <1>1 DEF InGap
<1>5. Pos(op.redge) = Final + 1 /\ Final \in Nat
  <2>1. Final = IF op.redge = 0 THEN 2 ^ MAX_DEPTH - 1 ELSE op.redge - 1
    BY <1>3, LastIs DEF Final
  <2>2. op.redge = 0 => Pos(op.redge) = 2 ^ MAX_DEPTH
    BY <1>2, <1>4 DEF Pos
  <2>3. op.redge # 0 => Pos(op.redge) = op.redge
    BY DEF Pos
  <2>4. Final \in Nat
    BY <1>3 DEF Address
  <2> QED BY <1>2, <2>1, <2>2, <2>3, <2>4
<1>6. op.ledge <= Final
  BY <1>2, <1>4, <1>5
<1>7. ASSUME NEW ip \in Address
      PROVE  /\ Within(ip) <=> op.ledge <= ip /\ ip <= Final
             /\ ip < Pos(op.redge) <=> ip <= Final
  <2>1. ip \in Nat
    BY DEF Address
  <2> QED BY <1>5, <2>1 DEF Within
<1>8. ASSUME NEW ip \in Address, Within(ip) PROVE Exposed(rib, op.key, ip)
  <2>1. op.key.ip <= ip /\ ip < Past(op.key) /\ ip \in Nat
    <3>1. ip \in Nat
      BY DEF Address
    <3> QED BY <1>2, <1>4, <1>8, <3>1 DEF Within
  <2>2. ASSUME NEW q \in Nearest(rib, op.key) PROVE Past(q) <= ip \/ ip < q.ip
    <3>1. Past(q) \in Nat /\ q.ip \in Nat
      BY <1>1, RouteFacts
    <3>2. Pos(op.redge) <= q.ip \/ Past(q) <= op.ledge
      BY <1>1 DEF InGap
    <3> QED BY <1>2, <1>8, <2>1, <3>1, <3>2 DEF Within
  <2> QED BY <1>1, <2>1, <2>2, GapExposed DEF CallOK
<1>9. /\ Root \in Depths
      /\ Root # 1 => Lead(op.ledge, Root - 1) = Lead(Final, Root - 1)
      /\ Root # Deepest => Lead(op.ledge, Root) < Lead(Final, Root)
      /\ Lead(op.ledge, Root) <= Lead(Final, Root)
  BY <1>3, <1>6, RootParts DEF Root, Final
<1> QED BY <1>3, <1>6, <1>7, <1>8, <1>9 DEF GapShape

\* Numbers in the order of their leading bytes.
LEMMA LeadBelow ==
  ASSUME NEW a \in Address, NEW b \in Address, NEW n \in Depths, NEW m \in 1..n,
         Lead(a, m) < Lead(b, m)
  PROVE  Lead(a, n) < Lead(b, n) /\ a < b
<1>1. m \in Depths /\ a \in Nat /\ b \in Nat
  BY LeadOrder DEF Address
<1>2. Lead(a, n) \in Nat /\ Lead(b, n) \in Nat /\ Lead(a, m) \in Nat /\ Lead(b, m) \in Nat
  BY <1>1, LeadOfTable
<1>3. ~(Lead(b, m) <= Lead(a, m))
  BY <1>2
<1>4. ~(Lead(b, n) <= Lead(a, n))
  BY <1>3, LeadOrder
<1>5. ~(b <= a)
  BY <1>4, LeadOrder
<1> QED BY <1>1, <1>2, <1>4, <1>5

\* What is done depends on the bytes that lead to the last table.
LEMMA DoneAlike ==
  ASSUME IndInv, op.pc \in Edges \cup {"between"}, NEW a \in Address, NEW b \in Address,
         Lead(a, Level) = Lead(b, Level)
  PROVE  DoneIn(a) <=> DoneIn(b)
<1>1. Level \in Depths /\ Root \in 1..Level
  <2>1. Level >= Root
    BY Walking DEF Progress, IndInv, Edges
  <2> QED BY <2>1, Walking
<1>2. Lead(a, Root) = Lead(b, Root)
  BY <1>1, LeadOrder
<1>3. op.pc # "recycle"
  BY DEF Edges
<1> QED BY <1>2, <1>3 DEF DoneIn

\* A group on the way is linked from the place before it only.
LEMMA OnPathPlace ==
  ASSUME IndInv, PathLinked, NEW p \in Places, Joined[p].ext, NEW n \in 2..Level,
         Joined[p].val = op.path[n]
  PROVE  p = Place(n - 1)
<1>1. IsTables(Joined) /\ OneLinkIn(Joined) /\ JoinedOK /\ Level \in Nat
  BY JoinedIs DEF JoinedOK
<1>2. n - 1 \in 1..Level /\ n \in 1..Level /\ n # 1
  BY <1>1
<1>3. n \in Depths
  BY <1>1, <1>2 DEF JoinedOK
<1>4. Edge \in Address
  BY LastInAddress DEF IndInv, OpOK, Call, Edge
<1> DEFINE q == PathIn(Joined, Edge)[n - 1]
<1>5. q = Place(n - 1) /\ Reaches(Joined, Edge, n) /\ PathIn(Joined, Edge)[n] = Place(n)
  BY <1>2, EdgeReaches
<1>6. Joined[q].ext /\ q \in Places /\ PathIn(Joined, Edge)[n] = <<Joined[q].val, get_idx(Edge, n)>>
  BY <1>1, <1>2, <1>3, <1>4, <1>5, PathStep DEF Reaches
<1>7. Joined[q].val = op.path[n]
  BY <1>5, <1>6 DEF Place
<1> QED BY <1>1, <1>5, <1>6, <1>7 DEF OneLinkIn

-----------------------------------------------------------------------------
(* Writing a part of the gap *)

\* Some entries of the last table on the way, T: all of the gap, and those
\* under one entry all done or all not.
Target(ip, T) == ByHere(ip) /\ get_idx(ip, Level) \in T
InTarget(T) ==
  /\ op.pc \in Edges \cup {"between"}
  /\ \A ip \in Address : Target(ip, T) => Within(ip)

\* They are next hops.
LEMMA TargetPlaces ==
  ASSUME IndInv, AgreeInv, intact, NEW T, InTarget(T)
  PROVE  /\ \A ip \in Address : \A n \in Depths :
              PathIn(Joined, ip)[n] \in {op.path[Level]} \X T => ~Joined[PathIn(Joined, ip)[n]].ext
         /\ \A ip \in Address :
              PathIn(Joined, ip)[Deepest] \in {op.path[Level]} \X T <=> Target(ip, T)
<1> DEFINE S == {op.path[Level]} \X T
<1>1. /\ TrieOK /\ PathLinked /\ Leafy(Joined) /\ op.pc \notin {"idle", "gap", "recycle"} /\ Busy
      /\ type = "TRIE" /\ Agreed
  BY DEF AgreeInv, TrieOK, InTarget, Edges, Busy, IndInv, OpOK
<1>2. JoinedOK /\ IsTables(Joined) /\ OneLinkIn(Joined) /\ Level \in Nat
  BY JoinedIs DEF JoinedOK
<1>3. Level \in Depths /\ Deepest \in Depths /\ Level <= Deepest /\ Level \in 1..Level
  <2>1. Level \in Depths /\ Level \in Nat \ {0}
    BY Walking
  <2> QED BY <2>1, TableBytes
<1>4. \A ip \in Address : Within(ip) => Exposed(rib, op.key, ip)
  BY <1>1, GapShaped DEF GapShape
<1>5. Edge \in Address
  BY LastInAddress DEF IndInv, OpOK, Call, Edge
<1>6. ASSUME NEW ip \in Address, Target(ip, T)
      PROVE  ~Joined[PathIn(Joined, ip)[Level]].ext
  <2> SUFFICES ASSUME Joined[PathIn(Joined, ip)[Level]].ext PROVE FALSE
    OBVIOUS
  <2>1. ASSUME NEW b \in Address, NEW m \in Depths, m >= Level, Lead(b, Level) = Lead(ip, Level),
               Joined[PathIn(Joined, b)[m]].ext
        PROVE  ~Uniform(Joined, Joined[PathIn(Joined, b)[m]].val)
    <3> DEFINE p == PathIn(Joined, b)[m]
    <3>1. p \in Places /\ Joined[p].ext
      BY <1>2, <2>1, PathStep
    <3>2. Joined[p].val \notin OnPath
      <4> SUFFICES ASSUME NEW n \in 2..Level, Joined[p].val = op.path[n] PROVE FALSE
        BY <1>2 DEF OnPath, Level
      <4>1. n - 1 \in 1..Level /\ n - 1 < Level
        BY <1>2
      <4>2. p = Place(n - 1)
        BY <1>1, <3>1, OnPathPlace
      <4>3. PathIn(Joined, Edge)[n - 1] = p /\ Reaches(Joined, Edge, n - 1)
        BY <1>1, <4>1, <4>2, EdgeReaches
      <4>4. Reaches(Joined, b, m)
        <5>1. m \in Int
          BY Sizes DEF Depths
        <5>2. m <= m
          BY <5>1
        <5> QED BY <1>2, <2>1, <5>2, WaysEnd
      <4>5. n - 1 \in Depths
        BY <1>2, <4>1 DEF JoinedOK
      <4>6. m = n - 1
        BY <1>2, <1>5, <4>3, <4>4, <4>5, PathsMeet
      <4> QED BY <1>2, <2>1, <4>1, <4>6
    <3>3. VariedGroups
      BY <1>1 DEF TrieOK
    <3> QED BY <1>1, <3>1, <3>2, <3>3 DEF VariedGroups
  <2>2. PICK b \in Address, c \in Address :
               /\ Lead(b, Level) = Lead(ip, Level) /\ Lead(c, Level) = Lead(ip, Level)
               /\ HopIn(Joined, b) # HopIn(Joined, c)
    BY <1>1, <1>2, <1>3, <2>1, VariedAnswers DEF Leafy
  <2>3. ASSUME NEW d \in Address, Lead(d, Level) = Lead(ip, Level)
        PROVE  Target(d, T) /\ Within(d) /\ Expected(d) = IF DoneIn(ip) THEN op.hop ELSE Old
    <3>1. get_idx(d, Level) = get_idx(ip, Level)
      BY <1>3, <2>3, LeadOrder
    <3>2. Level # 1 => Lead(d, Level - 1) = Lead(ip, Level - 1)
      <4>1. Level # 1 => Level - 1 \in 1..Level
        BY <1>2, <1>3
      <4> QED BY <1>3, <2>3, <4>1, LeadOrder
    <3>3. Target(d, T)
      BY <1>6, <3>1, <3>2 DEF Target, ByHere
    <3>4. Within(d) /\ Exposed(rib, op.key, d)
      BY <1>4, <3>3 DEF InTarget
    <3>5. DoneIn(d) <=> DoneIn(ip)
      BY <2>3, DoneAlike DEF InTarget
    <3>6. ~(d < op.ledge)
      BY <1>1, <3>4, GapShaped DEF GapShape, Address
    <3> QED BY <1>1, <3>3, <3>4, <3>5, <3>6 DEF Expected, Done
  <2>4. Expected(b) = Expected(c)
    BY <2>2, <2>3
  <2> QED BY <1>1, <2>2, <2>4 DEF Agreed
<1>7. ASSUME NEW ip \in Address, NEW n \in Depths, PathIn(Joined, ip)[n] \in S
      PROVE  /\ Target(ip, T) /\ ~Joined[PathIn(Joined, ip)[n]].ext
  <2>1. PathIn(Joined, ip)[n][1] = op.path[Level] /\ PathIn(Joined, ip)[n][2] \in T
    BY <1>7
  <2>2. ByHere(ip) /\ PathIn(Joined, ip)[n] = PathIn(Joined, ip)[Level]
    BY <1>1, <2>1, ComesOnly
  <2>3. PathIn(Joined, ip)[Level] = <<op.path[Level], get_idx(ip, Level)>>
    BY <1>1, <2>2, ComesByHere
  <2>4. Target(ip, T)
    BY <2>1, <2>2, <2>3 DEF Target
  <2> QED BY <1>6, <2>2, <2>4
<1>8. ASSUME NEW ip \in Address, Target(ip, T)
      PROVE  PathIn(Joined, ip)[Deepest] \in S
  <2>1. PathIn(Joined, ip)[Level] = <<op.path[Level], get_idx(ip, Level)>>
    BY <1>1, <1>8, ComesByHere DEF Target
  <2>2. PathIn(Joined, ip)[Deepest] = PathIn(Joined, ip)[Level]
    BY <1>2, <1>3, <1>6, <1>8, WaysEnd
  <2> QED BY <1>8, <2>1, <2>2 DEF Target
<1> QED BY <1>3, <1>7, <1>8

\* Written, they answer the addresses under them and nobody else.
LEMMA TargetWritten ==
  ASSUME IndInv, AgreeInv, intact, NEW T, InTarget(T), NEW F, IsTables(F),
         \A p \in Places :
           F[p] = IF p \in {op.path[Level]} \X T THEN Leaf(op.hop) ELSE Joined[p]
  PROVE  /\ \A ip \in Address :
              HopIn(F, ip) = IF Target(ip, T) THEN op.hop ELSE HopIn(Joined, ip)
         /\ Leafy(F)
         /\ LinksIn(Joined) \subseteq LinksIn(F)
<1> DEFINE S == {op.path[Level]} \X T
           e == Leaf(op.hop)
<1>1. /\ \A ip \in Address : \A n \in Depths :
           PathIn(Joined, ip)[n] \in S => ~Joined[PathIn(Joined, ip)[n]].ext
      /\ \A ip \in Address : PathIn(Joined, ip)[Deepest] \in S <=> Target(ip, T)
  BY TargetPlaces
<1>2. IsTables(Joined) /\ Leafy(Joined)
  BY JoinedIs DEF JoinedOK, AgreeInv, TrieOK
<1>3. ~e.ext /\ e.val = op.hop
  BY DEF Leaf
<1>4. \A p \in Places : F[p] = IF p \in S THEN e ELSE Joined[p]
  OBVIOUS
<1> HIDE DEF S, e
<1>5. /\ \A ip \in Address :
           HopIn(F, ip) = IF PathIn(Joined, ip)[Deepest] \in S THEN e.val ELSE HopIn(Joined, ip)
      /\ Leafy(Joined) => Leafy(F)
      /\ LinksIn(Joined) \subseteq LinksIn(F)
  BY <1>1, <1>2, <1>3, <1>4, PutEffect
<1> QED BY <1>1, <1>2, <1>3, <1>5

-----------------------------------------------------------------------------
(* The steps of an update *)

\* What the steps of an update leave alone.
Continued ==
  /\ UNCHANGED <<type, rib, intact>>
  /\ op'.key = op.key /\ op'.call = op.call /\ op'.hop = op.hop
  /\ op'.pc \notin {"idle", "failed"}

\* A step that writes the next hop to some exposed addresses, which are what
\* is done after it and was not before.
LEMMA AnswersWritten ==
  ASSUME AgreeInv, intact, Busy, Continued, NEW W,
         \A ip \in Address : HopIn(Joined', ip) = IF ip \in W THEN op.hop ELSE HopIn(Joined, ip),
         \A ip \in Address : ip \in W => Exposed(rib, op.key, ip),
         \A ip \in Address : Exposed(rib, op.key, ip) => (Done(ip)' <=> Done(ip) \/ ip \in W)
  PROVE  Agreed'
<1> SUFFICES ASSUME type = "TRIE", NEW ip \in Address
             PROVE  HopIn(Joined', ip) = Expected(ip)'
  BY DEF Agreed, Continued, Address, MAX_DEPTH
<1>1. HopIn(Joined, ip) = Expected(ip)
  BY DEF AgreeInv, TrieOK, Agreed
<1>2. Old' = Old /\ RibHop(rib', ip) = RibHop(rib, ip)
      /\ (Exposed(rib', op'.key, ip) <=> Exposed(rib, op.key, ip))
      /\ op'.hop = op.hop /\ op'.pc # "idle" /\ op.pc # "idle"
  BY DEF Old, Continued, Busy
<1>3. Expected(ip)' = IF ~Exposed(rib', op'.key, ip) THEN RibHop(rib', ip)
                      ELSE IF Done(ip)' THEN op'.hop ELSE Old'
  BY <1>2 DEF Expected
<1>4. Expected(ip) = IF ~Exposed(rib, op.key, ip) THEN RibHop(rib, ip)
                     ELSE IF Done(ip) THEN op.hop ELSE Old
  BY <1>2 DEF Expected
<1> QED BY <1>1, <1>2, <1>3, <1>4

\* No answer changes.
LEMMA AnswersKept ==
  ASSUME AgreeInv, intact, Busy, Continued,
         \A ip \in Address : HopIn(Joined', ip) = HopIn(Joined, ip),
         \A ip \in Address : Exposed(rib, op.key, ip) => (Done(ip)' <=> Done(ip))
  PROVE  Agreed'
<1> DEFINE W == {}
<1>1. \A ip : ip \notin W
  OBVIOUS
<1> HIDE DEF W
<1>2. /\ \A ip \in Address :
           HopIn(Joined', ip) = IF ip \in W THEN op.hop ELSE HopIn(Joined, ip)
      /\ \A ip \in Address : ip \in W => Exposed(rib, op.key, ip)
      /\ \A ip \in Address :
           Exposed(rib, op.key, ip) => (Done(ip)' <=> Done(ip) \/ ip \in W)
  BY <1>1
<1> QED BY <1>2, AnswersWritten

\* The gap goes on.
InGapOn ==
  /\ Continued /\ op.pc # "gap" /\ op'.pc # "gap" /\ op'.ledge = op.ledge
  /\ op'.redge = op.redge /\ op'.todo = op.todo /\ op'.last = op.last

LEMMA GapGoesOn ==
  ASSUME AgreeInv, Busy, InGapOn
  PROVE  /\ GapOK' /\ CallOK' /\ RoutesOK(rib') /\ Busy' /\ op'.pc # "failed"
         /\ Root' = Root /\ Final' = Final /\ Pos(op.redge)' = Pos(op.redge)
         /\ Old' = Old
         /\ \A ip : /\ Within(ip)' <=> Within(ip)
                    /\ Exposed(rib', op'.key, ip) <=> Exposed(rib, op.key, ip)
                    /\ RibHop(rib', ip) = RibHop(rib, ip)
<1>1. Pos(op.redge)' = Pos(op.redge)
  BY DEF Pos, InGapOn, Continued
<1>2. GapOK'
  <2>1. GapOK /\ InGap
    BY DEF AgreeInv, GapOK, InGapOn
  <2>2. InGap'
    BY <1>1, <2>1 DEF InGap, InGapOn, Continued, Past, Size
  <2> QED BY <2>1, <2>2 DEF GapOK, InGapOn, Continued
<1>3. CallOK' /\ RoutesOK(rib')
  BY DEF AgreeInv, CallOK, InGapOn, Continued
<1>4. Root' = Root
  BY DEF Root, InGapOn
<1> QED
  BY <1>1, <1>2, <1>3, <1>4 DEF Final, Within, InGapOn, Continued, Busy, Old

LEMMA DoneNext ==
  ASSUME NEW ip
  PROVE  /\ DoneIn(ip)' <=>
              \/ op'.pc = "ledge" /\ op'.up /\ Lead(ip, Level') = Lead(op'.ledge, Level')
              \/ op'.pc \in {"between", "redge"} /\ Lead(ip, Root') = Lead(op'.ledge, Root')
              \/ op'.pc = "redge" /\ Lead(ip, Root') < Lead(Final', Root')
              \/ op'.pc = "redge" /\ op'.up /\ Lead(ip, Level') = Lead(Final', Level')
              \/ op'.pc = "recycle"
         /\ Done(ip)' <=> IF op'.pc = "gap" THEN ip < Pos(op.ledge)'
                          ELSE ip < op'.ledge \/ (Within(ip)' /\ DoneIn(ip)')
BY DEF DoneIn, Done, Lead, Leading, Size, MAX_DEPTH

LEMMA EnterMoves ==
  ASSUME IndInv, Descending, NEW g \in Groups, Enter(g), UNCHANGED Local, intact' = intact
  PROVE  /\ InGapOn /\ Busy /\ ~op.up /\ ~op'.up /\ Edge' = Edge /\ Level' = Level + 1
         /\ op'.path[Level'] = g
         /\ \A n \in 1..Level : op'.path[n] = op.path[n] /\ Place(n)' = Place(n)
         /\ \/ op.pc \in Edges /\ op'.pc = op.pc /\ Open' = Open \cup {Level} /\ Level < BottomTable
            \/ op.pc = "root" /\ op'.pc = "root" /\ Open = {} /\ Open' = {}
            \/ op.pc = "root" /\ op'.pc = "ledge" /\ Open = {} /\ Open' = {} /\ Level' = Root
<1>1. /\ op \in Call /\ Level \in Nat \ {0} /\ Root \in Nat
      /\ op.pc = "root" => Level < Root
      /\ op.pc \in Edges => Level >= Root
  BY Walking DEF IndInv, OpOK, Progress
<1>2. /\ Level' = Level + 1 /\ Root' = Root
      /\ \A n \in 1..Level : op'.path[n] = op.path[n]
      /\ op'.path[Level'] = g
  BY EnterPath
<1> DEFINE path == Append(op.path, g)
           pc == IF op.pc = "root" /\ Len(path) = Root THEN "ledge" ELSE op.pc
<1>3. op' = [op EXCEPT !.path = path, !.pc = pc]
  BY DEF Enter
<1>4. op.pc \in {"root", "ledge", "redge"} /\ op.up = FALSE
  BY <1>1 DEF Descending, IndInv, Progress, Edges, Call
<1>5. /\ pc \in {"root", "ledge", "redge"} /\ (pc # op.pc => op.pc = "root" /\ pc = "ledge")
      /\ op.pc = "root" => pc \in {"root", "ledge"}
      /\ Len(path) = Level + 1
      /\ pc = "ledge" /\ op.pc = "root" => Level + 1 = Root
  <2>1. Len(path) = Level + 1
    <3>1. op.path \in Seq(Groups \cup {tbl24}) /\ g \in Groups \cup {tbl24}
      BY Walking
    <3> QED BY <3>1, AppendProperties DEF Level
  <2> QED BY <1>4, <2>1
<1> HIDE DEF path, pc
<1>6. /\ op'.pc = pc /\ op'.ledge = op.ledge /\ op'.redge = op.redge /\ op'.up = FALSE
      /\ op'.key = op.key /\ op'.call = op.call /\ op'.hop = op.hop /\ op'.todo = op.todo
      /\ op'.last = op.last
  BY <1>1, <1>3, <1>4 DEF Call
<1>7. InGapOn /\ Busy
  BY <1>4, <1>5, <1>6 DEF InGapOn, Continued, Busy, Local
<1>8. Edge' = Edge
  BY <1>4, <1>5, <1>6 DEF Edge, LastIn, MAX_DEPTH
<1>9. \A n \in 1..Level : Place(n)' = Place(n)
  BY <1>2, <1>8 DEF Place, get_idx, Byte
<1>10. CASE op.pc = "root"
  <2>1. op'.pc \in {"root", "ledge"} /\ Open = {}
    BY <1>5, <1>6, <1>10 DEF Open, Edges
  <2>2. op'.pc = "root" => Open' = {}
    BY <2>1 DEF Open, Edges
  <2>3. op'.pc = "ledge" => Level' = Root
    BY <1>2, <1>5, <1>6, <1>10
  <2>4. op'.pc = "ledge" => Open' = {}
    <3>1. op'.pc = "ledge" => Open' = Root'..(Level' - 1)
      BY DEF Open, Edges
    <3>2. Root \in Int /\ Root..(Root - 1) = {}
      BY <1>1
    <3> QED BY <1>2, <2>3, <3>1, <3>2
  <2> QED BY <1>2, <1>4, <1>6, <1>7, <1>8, <1>9, <1>10, <2>1, <2>2, <2>3, <2>4
<1>11. CASE op.pc \in Edges
  <2>1. op'.pc = op.pc /\ op.pc # "root"
    BY <1>5, <1>6, <1>11 DEF Edges
  <2>2. Open = Root..(Level - 1) /\ Open' = Root'..(Level' - 1)
    BY <1>11, <2>1 DEF Open
  <2>3. Open' = Open \cup {Level}
    BY <1>1, <1>2, <1>11, <2>2
  <2>4. Level < BottomTable
    BY <2>1 DEF Descending
  <2> QED BY <1>2, <1>4, <1>6, <1>7, <1>8, <1>9, <1>11, <2>1, <2>3, <2>4
<1> QED BY <1>4, <1>10, <1>11 DEF Edges

LEMMA BottomEdgeNext == (BottomTable >= Root)' /\ (BottomTable \in Int)'
<1>1. BottomTable >= Root /\ BottomTable \in Int
  BY BottomEdge, BottomTableRange, Sizes DEF Depths
<1> QED BY <1>1, PTL

\* What is done is the same before and after a step.
LEMMA ExpectedKept ==
  ASSUME AgreeInv, Busy, InGapOn, NEW ip, Done(ip)' <=> Done(ip)
  PROVE  Expected(ip)' = Expected(ip)
<1>1. /\ Old' = Old /\ RibHop(rib', ip) = RibHop(rib, ip)
      /\ Exposed(rib', op'.key, ip) <=> Exposed(rib, op.key, ip)
      /\ op'.hop = op.hop /\ op'.pc # "idle" /\ op.pc # "idle"
  BY GapGoesOn DEF Busy, InGapOn, Continued
<1>2. Expected(ip)' = IF ~Exposed(rib', op'.key, ip) THEN RibHop(rib', ip)
                      ELSE IF Done(ip)' THEN op'.hop ELSE Old'
  BY <1>1 DEF Expected
<1>3. Expected(ip) = IF ~Exposed(rib, op.key, ip) THEN RibHop(rib, ip)
                     ELSE IF Done(ip) THEN op.hop ELSE Old
  BY <1>1 DEF Expected
<1> QED BY <1>1, <1>2, <1>3

\* Entering a group does nothing to what is done.
LEMMA EnterDone ==
  ASSUME IndInv, AgreeInv, Descending, NEW g \in Groups, Enter(g), UNCHANGED Local,
         intact' = intact
  PROVE  /\ \A ip : Done(ip)' <=> Done(ip)
         /\ \A ip : Expected(ip)' = Expected(ip)
         /\ OnEdge'
<1>1. /\ InGapOn /\ Busy /\ ~op.up /\ ~op'.up /\ Edge' = Edge /\ Level' = Level + 1
      /\ \/ op.pc \in Edges /\ op'.pc = op.pc /\ Level < BottomTable
         \/ op.pc = "root" /\ op'.pc = "root"
         \/ op.pc = "root" /\ op'.pc = "ledge" /\ Level' = Root
  BY EnterMoves
<1>2. /\ Root' = Root /\ Final' = Final /\ op'.ledge = op.ledge
      /\ \A ip : Within(ip)' <=> Within(ip)
      /\ op.pc # "gap" /\ op'.pc # "gap"
  BY <1>1, GapGoesOn DEF InGapOn
<1>3. ASSUME NEW ip PROVE Done(ip)' <=> Done(ip)
  <2>1. DoneIn(ip)' <=> DoneIn(ip)
    BY <1>1, <1>2, DoneNext DEF DoneIn, Edges
  <2> QED BY <1>2, <2>1, DoneNext DEF Done
<1>4. ASSUME NEW ip PROVE Expected(ip)' = Expected(ip)
  BY <1>1, <1>3, ExpectedKept
<1>5. OnEdge'
  <2>1. CASE op.pc \in Edges
    <3>1. op'.pc = op.pc /\ Level < BottomTable
      BY <1>1, <2>1 DEF Edges
    <3>2. BottomTable' = BottomTable
      BY <1>1, <3>1 DEF BottomTable, InGapOn, Filler, common_bytes, Byte, LastIn, MAX_DEPTH
    <3>3. Level' <= BottomTable'
      <4>1. Level \in Int /\ BottomTable \in Int
        BY Walking, BottomTableRange, Sizes DEF Depths
      <4> QED BY <1>1, <3>1, <3>2, <4>1
    <3> QED BY <2>1, <3>1, <3>3 DEF OnEdge, Edges
  <2>2. CASE op.pc = "root"
    <3>1. op'.pc \in Edges => Level' = Root'
      BY <1>1, <1>2, <2>2 DEF Edges
    <3>2. op'.pc \in Edges => Level' <= BottomTable'
      <4>1. Root \in Int /\ BottomTable' >= Root'
        BY Walking, BottomEdgeNext
      <4>2. BottomTable' \in Int
        BY BottomEdgeNext
      <4> QED BY <1>2, <3>1, <4>1, <4>2
    <3>3. op'.pc # "recycle"
      BY <1>1, <2>2
    <3> QED BY <3>2, <3>3 DEF OnEdge
  <2> QED BY <1>1, <2>1, <2>2
<1> QED BY <1>3, <1>4, <1>5

LEMMA JoinedNextIs ==
  ASSUME IndInv'
  PROVE  /\ IsTables(entries') /\ IsTables(Joined') /\ OneLinkIn(Joined')
         /\ Open' \subseteq 1..(Level' - 1)
         /\ \A n \in 1..Level' : Place(n)' \in Places
         /\ \A m, n \in 1..Level' : Place(m)'[1] = Place(n)'[1] => m = n
         /\ \A k \in Open' : Joined'[Place(k)'] = Link(op'.path[k + 1])
         /\ \A p \in Places : (\A k \in Open' : p # Place(k)') => Joined'[p] = entries'[p]
<1>1. JoinedOK'
  BY JoinedIsNext
<1> QED BY <1>1 DEF JoinedOK, IsTables, OneLinkIn, Places, Groups, Slots, Hops, MAX_NH, Link

\* The entries after a group has been entered: the one above it links it, or
\* will.
LEMMA JoinedEnters ==
  ASSUME IndInv, IndInv', Descending, NEW g \in Groups, Enter(g), UNCHANGED Local,
         intact' = intact, op.pc = "root" => entries'[Here] = Link(g)
  PROVE  /\ Here \in Places /\ Joined[Here] = entries[Here] /\ Joined'[Here] = Link(g)
         /\ \A p \in Places : p # Here =>
              Joined'[p] = IF \E k \in Open : p = Place(k) THEN Joined[p] ELSE entries'[p]
<1>1. /\ Edge' = Edge /\ Level' = Level + 1 /\ op'.path[Level'] = g
      /\ \A n \in 1..Level : op'.path[n] = op.path[n] /\ Place(n)' = Place(n)
      /\ \/ op.pc \in Edges /\ Open' = Open \cup {Level}
         \/ op.pc = "root" /\ Open = {} /\ Open' = {}
  BY EnterMoves
<1>2. JoinedOK /\ Level \in Nat \ {0} /\ Open \subseteq 1..(Level - 1)
  BY JoinedIs, Walking DEF JoinedOK
<1>3. Here \in Places /\ Level \in 1..Level /\ \A k \in Open : k \in 1..Level /\ k # Level
  BY <1>2 DEF JoinedOK, Here
<1>4. \A k \in Open : Place(k) # Here
  BY <1>2, <1>3 DEF JoinedOK, Here
<1>9. PICK m \in Nat : m = Level
  BY <1>2
<1>10. Place(m)' = Here /\ m \in 1..Level
  BY <1>1, <1>3, <1>9 DEF Here
<1>5. Joined[Here] = entries[Here]
  BY <1>2, <1>3, <1>4 DEF JoinedOK
<1>6. /\ \A k \in Open' : Joined'[Place(k)'] = Link(op'.path[k + 1])
      /\ \A p \in Places : (\A k \in Open' : p # Place(k)') => Joined'[p] = entries'[p]
  BY JoinedNextIs
<1>7. Joined'[Here] = Link(g)
  <2>1. CASE op.pc \in Edges
    <3>1. m \in Open'
      BY <1>1, <1>9, <2>1 DEF Edges
    <3>2. Joined'[Place(m)'] = Link(op'.path[m + 1])
      BY <1>6, <3>1
    <3> QED BY <1>1, <1>9, <1>10, <3>2
  <2>2. CASE op.pc = "root"
    <3>1. Open' = {}
      BY <1>1, <2>2 DEF Edges
    <3> QED BY <1>3, <1>6, <2>2, <3>1
  <2> QED BY <1>1, <2>1, <2>2
<1>8. ASSUME NEW p \in Places, p # Here, NEW k \in Open, p = Place(k)
      PROVE  Joined'[p] = Joined[p]
  <2>1. k \in Open' /\ Place(k)' = p /\ k \in 1..(Level - 1)
    BY <1>1, <1>2, <1>3, <1>8
  <2>2. k + 1 \in 1..Level
    BY <1>2, <2>1
  <2>3. op'.path[k + 1] = op.path[k + 1]
    BY <1>1, <2>2
  <2>4. Joined[p] = Link(op.path[k + 1])
    BY <1>2, <1>8 DEF JoinedOK
  <2>5. Joined'[p] = Link(op'.path[k + 1])
    BY <1>6, <2>1
  <2> QED BY <2>3, <2>4, <2>5
<1>11. ASSUME NEW p \in Places, p # Here, \A k \in Open : p # Place(k)
       PROVE  Joined'[p] = entries'[p]
  <2>1. ASSUME NEW k \in Open' PROVE p # Place(k)'
    <3>1. k \in Open \/ k = m
      BY <1>1, <1>9
    <3>2. Place(k)' = Place(k) \/ (k = m /\ Place(k)' = Here)
      BY <1>1, <1>3, <1>10, <3>1
    <3> QED BY <1>9, <1>11, <3>1, <3>2 DEF Here
  <2> QED BY <1>6, <2>1
<1> QED BY <1>3, <1>5, <1>7, <1>8, <1>11

LEMMA EnterKeeps ==
  ASSUME IndInv, AgreeInv, intact, Descending, NEW g \in Groups, Enter(g), UNCHANGED Local,
         intact' = intact,
         \A n \in 1..(Level - 1) : entries'[Place(n)] = entries[Place(n)],
         op.pc = "root" => entries'[Here] = Link(g),
         op.pc \in Edges =>
           \/ entries'[Here] = Link(g)
           \/ /\ ~entries'[Here].ext /\ entries'[Here].val = Old
              /\ \A ip \in Address : Lead(ip, Level) = Lead(Edge, Level) =>
                   Within(ip) \/ Expected(ip) = Old
  PROVE  PathLinked' /\ HiddenOld'
<1>1. /\ InGapOn /\ Busy /\ Edge' = Edge /\ Level' = Level + 1 /\ op'.path[Level'] = g
      /\ \A n \in 1..Level : op'.path[n] = op.path[n] /\ Place(n)' = Place(n)
      /\ \/ op.pc \in Edges /\ Open' = Open \cup {Level}
         \/ op.pc = "root" /\ Open = {} /\ Open' = {}
  BY EnterMoves
<1>2. JoinedOK /\ Level \in Nat \ {0} /\ Open \subseteq 1..(Level - 1)
  BY JoinedIs, Walking DEF JoinedOK
<1>3. PathLinked /\ HiddenOld
  BY DEF AgreeInv, TrieOK
<1>4. PICK m \in Nat : m = Level
  BY <1>2
<1>5. Place(m)' = Here /\ m \in 1..Level /\ \A k \in Open : k \in 1..(m - 1)
  BY <1>1, <1>2, <1>4 DEF Here
<1>6. Link(g).ext /\ Link(g).val = g
  BY DEF Link
<1>7. PathLinked'
  <2>1. ASSUME NEW n \in 1..(Level' - 1)
        PROVE  \/ entries'[Place(n)'] = Link(op'.path[n + 1])
               \/ n \in Open' /\ ~entries'[Place(n)'].ext
    <3>1. CASE n = m
      <4>1. op'.path[n + 1] = g /\ Place(n)' = Here
        BY <1>1, <1>4, <1>5, <3>1
      <4>2. op.pc \in Edges => n \in Open'
        BY <1>1, <1>4, <3>1 DEF Edges
      <4> QED BY <1>1, <4>1, <4>2
    <3>2. CASE n # m
      <4>1. n \in 1..(Level - 1) /\ n \in 1..Level /\ n + 1 \in 1..Level
        BY <1>1, <1>2, <1>4, <3>2
      <4>2. Place(n)' = Place(n) /\ op'.path[n + 1] = op.path[n + 1]
        BY <1>1, <4>1
      <4>3. entries'[Place(n)'] = entries[Place(n)]
        BY <4>1, <4>2
      <4>4. Open \subseteq Open'
        BY <1>1
      <4>5. \/ entries[Place(n)] = Link(op.path[n + 1])
            \/ n \in Open /\ ~entries[Place(n)].ext
        BY <1>3, <4>1 DEF PathLinked
      <4> QED BY <4>2, <4>3, <4>4, <4>5
    <3> QED BY <3>1, <3>2
  <2> QED BY <2>1 DEF PathLinked, Link
<1>8. HiddenOld'
  <2>1. /\ Old' = Old
        /\ \A ip : Within(ip)' <=> Within(ip)
        /\ \A ip : Expected(ip)' = Expected(ip)
    <3>1. Old' = Old /\ \A ip : Within(ip)' <=> Within(ip)
      BY <1>1, GapGoesOn
    <3> QED BY <3>1, EnterDone
  <2>2. ASSUME NEW k \in Open', ~entries'[Place(k)'].ext
        PROVE  /\ entries'[Place(k)'].val = Old'
               /\ \A ip \in Address : Lead(ip, k) = Lead(Edge', k) =>
                    Within(ip)' \/ Expected(ip)' = Old'
    <3>1. CASE k = m
      <4>1. op.pc \in Edges /\ Place(k)' = Here
        BY <1>1, <1>4, <1>5, <2>2, <3>1
      <4>2. /\ ~entries'[Here].ext /\ entries'[Here].val = Old
            /\ \A ip \in Address : Lead(ip, Level) = Lead(Edge, Level) =>
                 Within(ip) \/ Expected(ip) = Old
        BY <1>6, <2>2, <4>1
      <4> QED BY <1>1, <1>4, <2>1, <3>1, <4>1, <4>2
    <3>2. CASE k # m
      <4>5. k \in Open
        BY <1>1, <1>4, <3>2
      <4>1. k \in Open /\ k \in 1..(Level - 1) /\ k \in 1..Level
        BY <1>2, <4>5
      <4>2. Place(k)' = Place(k) /\ entries'[Place(k)'] = entries[Place(k)]
        BY <1>1, <4>1
      <4>3. /\ entries[Place(k)].val = Old
            /\ \A ip \in Address : Lead(ip, k) = Lead(Edge, k) => Within(ip) \/ Expected(ip) = Old
        BY <1>3, <2>2, <4>1, <4>2 DEF HiddenOld
      <4> QED BY <1>1, <2>1, <4>2, <4>3
    <3> QED BY <3>1, <3>2
  <2> QED BY <2>2 DEF HiddenOld, Lead, Leading, Size, Address, MAX_DEPTH
<1> QED BY <1>7, <1>8

\* A group that is linked already.
LEMMA FollowAgrees ==
  ASSUME IndInv, AgreeInv, intact, Follow
  PROVE  TrieOK' /\ InGapOn /\ Joined' = Joined /\ \A ip : Done(ip)' <=> Done(ip)
<1> DEFINE g == entries[Here].val
<1>1. Descending /\ entries[Here].ext /\ Enter(g) /\ UNCHANGED Local /\ intact' = intact
      /\ UNCHANGED <<entries, free>> /\ IndInv'
  BY FollowKeepsInv DEF Follow, tables
<1>2. JoinedOK /\ TrieOK /\ Level \in Nat \ {0}
  BY JoinedIs, Walking DEF AgreeInv
<1>3. Here \in Places
  BY <1>2 DEF JoinedOK, Here
<1>4. g \in Groups /\ entries[Here] = Link(g)
  <2>1. entries[Here] \in [ext : BOOLEAN, val : Hops] /\ g \in Groups
    BY <1>1, <1>2, <1>3 DEF JoinedOK, IsTables
  <2>2. entries[Here] = [ext |-> entries[Here].ext, val |-> entries[Here].val]
    BY <2>1
  <2> QED BY <1>1, <2>1, <2>2 DEF Link
<1> HIDE DEF g
<1>5. /\ InGapOn /\ Busy /\ PathLinked' /\ HiddenOld'
      /\ \A n \in 1..Level : op'.path[n] = op.path[n]
      /\ Level' = Level + 1
      /\ \/ op.pc \in Edges /\ op'.pc = op.pc
         \/ op.pc = "root" /\ op'.pc \in {"root", "ledge"}
  <2>1. PathLinked' /\ HiddenOld'
    BY <1>1, <1>4, EnterKeeps
  <2> QED BY <1>1, <1>4, <2>1, EnterMoves
<1>6. Joined' = Joined
  <2>1. /\ Joined[Here] = entries[Here] /\ Joined'[Here] = Link(g)
        /\ \A p \in Places : p # Here =>
             Joined'[p] = IF \E k \in Open : p = Place(k) THEN Joined[p] ELSE entries'[p]
    BY <1>1, <1>4, JoinedEnters
  <2>2. \A p \in Places : (\A k \in Open : p # Place(k)) => Joined[p] = entries[p]
    BY <1>2 DEF JoinedOK
  <2>3. \A p \in Places : Joined'[p] = Joined[p]
    BY <1>1, <1>4, <2>1, <2>2
  <2>4. Joined \in [Places -> [ext : BOOLEAN, val : Hops]]
        /\ Joined' \in [Places -> [ext : BOOLEAN, val : Hops]]
    BY <1>1, <1>2, JoinedNextIs DEF JoinedOK, IsTables
  <2> QED BY <2>3, <2>4
<1>7. Agreed' /\ OnEdge' /\ \A ip : Done(ip)' <=> Done(ip)
  <2>1. OnEdge' /\ \A ip : Done(ip)' <=> Done(ip)
    BY <1>1, <1>4, EnterDone
  <2>2. Continued
    BY <1>5 DEF InGapOn
  <2> QED BY <1>5, <1>6, <2>1, <2>2, AnswersKept
<1>8. VariedGroups'
  <2>1. OnPath \subseteq OnPath'
    <3>1. \A n \in 2..Level : n \in 2..Level' /\ n \in 1..Level
      BY <1>2, <1>5
    <3> QED BY <1>5, <3>1 DEF OnPath, Level
  <2>2. op.pc # "recycle"
    <3>1. op.pc \in Edges \/ op.pc = "root"
      BY <1>5
    <3> QED BY <3>1 DEF Edges
  <2>3. \A p \in Places : Joined[p].ext =>
          ~Uniform(Joined, Joined[p].val) \/ Joined[p].val \in OnPath
    BY <1>2, <2>2 DEF TrieOK, VariedGroups
  <2>4. \A p \in Places : Joined'[p].ext =>
          ~Uniform(Joined', Joined'[p].val) \/ Joined'[p].val \in OnPath'
    BY <1>6, <2>1, <2>3
  <2> QED BY <2>4 DEF VariedGroups, Uniform, Places, Slots, Groups
<1>9. NoneLost' /\ Leafy(Joined')
  BY <1>1, <1>2, <1>6 DEF TrieOK, NoneLost, Groups
<1> QED
  BY <1>5, <1>6, <1>7, <1>8, <1>9
  DEF TrieOK, Leafy, Address, MAX_DEPTH

\* On the way down an edge nothing of its end has been written.
LEMMA EdgeUndone ==
  ASSUME IndInv, AgreeInv, intact, op.pc \in Edges, ~op.up, Level < BottomTable
  PROVE  Edge \in Address /\ Expected(Edge) = Old
<1>1. Busy /\ op.pc # "gap" /\ op.pc # "idle" /\ op.pc # "recycle" /\ op.pc # "between"
  BY DEF Busy, Edges
<1>2. GapShape
  BY <1>1, GapShaped
<1>3. Edge \in Address /\ Edge = IF op.pc = "redge" THEN Final ELSE op.ledge
  BY <1>2 DEF GapShape, Edge, Final
<1>4. op.ledge \in Nat /\ Final \in Nat
  BY <1>2 DEF GapShape, Address
<1>5. Within(Edge) /\ Exposed(rib, op.key, Edge) /\ ~(Edge < op.ledge)
  BY <1>2, <1>3, <1>4 DEF GapShape
<1>6. Root # Deepest
  <2>1. Level >= Root /\ Level \in Int /\ Root \in Int /\ BottomTable \in Int /\ BottomTable <= Deepest
    <3>1. BottomTable \in 1..Deepest /\ Deepest \in Int
      BY BottomTableRange, TableBytes
    <3>2. Level >= Root
      BY Walking DEF IndInv, Progress
    <3> QED BY <3>1, <3>2, Walking
  <2> QED BY <2>1
<1>7. Lead(op.ledge, Root) < Lead(Final, Root) /\ Lead(op.ledge, Root) \in Int
      /\ Lead(Final, Root) \in Int
  <2>1. Lead(op.ledge, Root) \in Nat /\ Lead(Final, Root) \in Nat
    BY <1>2, LeadOfTable DEF GapShape
  <2> QED BY <1>2, <1>6, <2>1 DEF GapShape
<1>8. ~DoneIn(Edge)
  <2>1. op.pc = "redge" => ~(Lead(Edge, Root) = Lead(op.ledge, Root))
                           /\ ~(Lead(Edge, Root) < Lead(Final, Root))
    BY <1>3, <1>7
  <2> QED BY <1>1, <2>1 DEF DoneIn
<1> QED BY <1>1, <1>3, <1>5, <1>8 DEF Expected, Done

\* What a new group does to the tables.
LEMMA AllocTables ==
  ASSUME IndInv, tbl8_alloc, NEW g, g = Head(free)
  PROVE  /\ g \in Groups /\ Here \in Places /\ Here[1] # g
         /\ Descending /\ ~entries[Here].ext /\ Enter(g) /\ UNCHANGED Local /\ intact' = intact
         /\ \A n \in 1..Level : op.path[n] # g
         /\ \A p \in Linkers : entries[p].val # g
         /\ Range(free) \subseteq Range(free') \cup {g}
         /\ \A p \in Places :
              entries'[p] = IF p[1] = g THEN entries[Here]
                            ELSE IF p = Here /\ op.pc = "root" THEN Link(g)
                            ELSE entries[p]
<1>1. /\ Here \in Places /\ Level \in Nat \ {0} /\ op.path[1] = tbl24
      /\ Descending /\ ~entries[Here].ext /\ free # <<>>
      /\ entries' = IF op.pc = "root"
                    THEN [Written({g} \X Slots, entries[Here]) EXCEPT ![Here] = Link(g)]
                    ELSE Written({g} \X Slots, entries[Here])
      /\ free' = Tail(free) /\ Enter(g)
      /\ UNCHANGED Local /\ intact' = intact
  BY Walking DEF Here, tbl8_alloc, Initial
<1>2. free \in Seq(Groups)
  BY DEF IndInv, TablesOK
<1>3. g \in Groups /\ Len(free) \in Nat /\ Len(free) # 0 /\ 1 \in 1..Len(free) /\ g = free[1]
  BY <1>1, <1>2, HeadTailProperties, EmptySeq, LenProperties
<1>4. /\ \A n \in 2..Level : op.path[n] # g
      /\ \A p \in Linkers : entries[p].val # g
  BY <1>3 DEF IndInv, PoolOK, PoolOffPath, PoolUnlinked
<1>5. \A n \in 1..Level : op.path[n] # g
  <2> TAKE n \in 1..Level
  <2>1. n = 1 \/ n \in 2..Level
    BY <1>1
  <2>2. tbl24 # g
    BY <1>3, Sizes
  <2> QED BY <1>1, <1>4, <2>1, <2>2
<1>6. Here[1] # g
  BY <1>1, <1>5 DEF Here, Place
<1>7. Range(free) \subseteq Range(free') \cup {g}
  <2>1. /\ Len(free') = Len(free) - 1
        /\ \A i \in 1..Len(free') : free'[i] = free[i + 1]
        /\ DOMAIN free = 1..Len(free) /\ DOMAIN free' = 1..Len(free')
    <3>1. free' \in Seq(Groups)
      BY <1>1, <1>2, HeadTailProperties
    <3> QED BY <1>1, <1>2, <3>1, HeadTailProperties, LenProperties
  <2>2. ASSUME NEW i \in 1..Len(free), i # 1 PROVE free[i] \in Range(free')
    <3>1. i - 1 \in 1..Len(free') /\ (i - 1) + 1 = i
      BY <1>3, <2>1, <2>2
    <3> QED BY <2>1, <3>1 DEF Range
  <2> QED BY <1>3, <2>1, <2>2 DEF Range
<1>8. ASSUME NEW p \in Places
      PROVE  p \in {g} \X Slots <=> p[1] = g
  BY <1>3, PlaceParts
<1>9. ASSUME NEW p \in Places
      PROVE  entries'[p] = IF p[1] = g THEN entries[Here]
                           ELSE IF p = Here /\ op.pc = "root" THEN Link(g)
                           ELSE entries[p]
  <2> DEFINE filled == Written({g} \X Slots, entries[Here])
  <2>1. filled[p] = IF p[1] = g THEN entries[Here] ELSE entries[p]
    BY <1>8 DEF Written
  <2>2. DOMAIN filled = Places
    BY DEF Written
  <2> HIDE DEF filled
  <2>3. entries' = IF op.pc = "root" THEN [filled EXCEPT ![Here] = Link(g)] ELSE filled
    BY <1>1 DEF filled
  <2> QED BY <1>1, <1>6, <2>1, <2>2, <2>3
<1> QED BY <1>1, <1>3, <1>4, <1>5, <1>6, <1>7, <1>9

LEMMA AllocJoined ==
  ASSUME IndInv, AgreeInv, intact, tbl8_alloc, NEW g, g = Head(free)
  PROVE  /\ FoldsTo(Joined', Joined, Here, g)
         /\ \A ip \in Address : HopIn(Joined', ip) = HopIn(Joined, ip)
         /\ Leafy(Joined')
         /\ LinksIn(Joined) \cup {g} \subseteq LinksIn(Joined')
         /\ Joined'[Here] = Link(g)
         /\ \A p \in Places : p[1] = g => ~Joined'[p].ext
         /\ \A p \in Places : p # Here /\ p[1] # g => Joined'[p] = Joined[p]
         /\ \A p \in Places : Joined[p].ext => Joined[p].val # g
<1>1. /\ g \in Groups /\ Here \in Places /\ Here[1] # g
      /\ Descending /\ ~entries[Here].ext /\ Enter(g) /\ UNCHANGED Local /\ intact' = intact
      /\ \A n \in 1..Level : op.path[n] # g
      /\ \A p \in Linkers : entries[p].val # g
      /\ \A p \in Places :
           entries'[p] = IF p[1] = g THEN entries[Here]
                         ELSE IF p = Here /\ op.pc = "root" THEN Link(g)
                         ELSE entries[p]
  BY AllocTables
<1>2. JoinedOK /\ TrieOK /\ Level \in Nat \ {0} /\ IndInv'
      /\ IsTables(Joined) /\ OneLinkIn(Joined) /\ IsTables(Joined')
  BY JoinedIs, Walking, AllocKeepsInv, JoinedNextIs DEF AgreeInv, JoinedOK
<1>3. /\ Joined[Here] = entries[Here] /\ Joined'[Here] = Link(g)
      /\ \A p \in Places : p # Here =>
           Joined'[p] = IF \E k \in Open : p = Place(k) THEN Joined[p] ELSE entries'[p]
  BY <1>1, <1>2, JoinedEnters
<1>4. \A p \in Places : (\A k \in Open : p # Place(k)) => Joined[p] = entries[p]
  BY <1>2 DEF JoinedOK
<1>5. \A k \in Open : k \in 1..Level /\ k + 1 \in 1..Level /\ Joined[Place(k)] = Link(op.path[k + 1])
  BY <1>2 DEF JoinedOK
<1>6. ASSUME NEW p \in Places, p[1] = g PROVE p # Here /\ Joined'[p] = entries[Here]
  <2>1. \A k \in Open : p # Place(k)
    BY <1>1, <1>5, <1>6 DEF Place
  <2> QED BY <1>1, <1>3, <1>6, <2>1
<1>7. ASSUME NEW p \in Places, p # Here, p[1] # g PROVE Joined'[p] = Joined[p]
  BY <1>1, <1>3, <1>4, <1>7
<1>8. ASSUME NEW p \in Places, Joined[p].ext PROVE Joined[p].val # g
  <2>1. CASE \E k \in Open : p = Place(k)
    <3> PICK k \in Open : p = Place(k)
      BY <2>1
    <3>1. Joined[p] = Link(op.path[k + 1]) /\ op.path[k + 1] # g
      BY <1>1, <1>5
    <3>2. Link(op.path[k + 1]).val = op.path[k + 1]
      BY DEF Link
    <3> QED BY <3>1, <3>2
  <2>2. CASE \A k \in Open : p # Place(k)
    BY <1>1, <1>4, <1>8, <2>2 DEF Linkers
  <2> QED BY <2>1, <2>2
<1>9. FoldsTo(Joined', Joined, Here, g)
  <2>1. ASSUME NEW p \in Places, Joined'[p].ext, Joined'[p].val = g PROVE p = Here
    BY <1>1, <1>6, <1>7, <1>8, <2>1
  <2>2. \A s \in Slots : <<g, s>> \in Places /\ <<g, s>>[1] = g
    BY <1>1 DEF Places
  <2>3. \A s \in Slots : Joined'[<<g, s>>] = entries[Here]
    BY <1>6, <2>2
  <2>4. 0 \in Slots
    BY Sizes
  <2>5. Uniform(Joined', g) /\ Joined[Here] = Joined'[<<g, 0>>]
    BY <1>1, <1>3, <2>3, <2>4 DEF Uniform
  <2>6. \A p \in Places : p # Here /\ p[1] # g => Joined[p] = Joined'[p]
    BY <1>7
  <2> QED BY <1>1, <1>3, <2>1, <2>5, <2>6 DEF FoldsTo
<1>10. /\ \A ip \in Address : HopIn(Joined', ip) = HopIn(Joined, ip)
       /\ Leafy(Joined')
       /\ LinksIn(Joined) \cup {g} \subseteq LinksIn(Joined')
  <2>1. Edge \in Address
    BY LastInAddress DEF IndInv, OpOK, Call, Edge
  <2>2. Level \in Depths /\ Level \in 1..Level /\ Level # Deepest
    <3>1. Level + 1 \in Depths /\ Level \in Depths
      BY <1>1, EnterPath, Walking
    <3>2. Level + 1 \in 1..Deepest
      BY <3>1, TableBytes
    <3> QED BY <1>2, <3>1, <3>2
  <2>3. PathIn(Joined, Edge)[Level] = Here /\ Reaches(Joined, Edge, Level)
    BY <1>2, <2>2, EdgeReaches DEF TrieOK, Here
  <2>4. Leafy(Joined)
    BY <1>2 DEF TrieOK
  <2> QED BY <1>2, <1>9, <2>1, <2>2, <2>3, <2>4, SplitEffect
<1> QED BY <1>1, <1>3, <1>6, <1>7, <1>8, <1>9, <1>10

LEMMA AllocAgrees ==
  ASSUME IndInv, AgreeInv, intact, tbl8_alloc
  PROVE  /\ TrieOK' /\ InGapOn /\ \A ip : Done(ip)' <=> Done(ip)
         /\ \A ip \in Address : HopIn(Joined', ip) = HopIn(Joined, ip)
<1> PICK g : g = Head(free)
  OBVIOUS
<1>1. /\ g \in Groups /\ Here \in Places /\ Here[1] # g
      /\ Descending /\ ~entries[Here].ext /\ Enter(g) /\ UNCHANGED Local /\ intact' = intact
      /\ \A n \in 1..Level : op.path[n] # g
      /\ Range(free) \subseteq Range(free') \cup {g}
      /\ \A p \in Places :
           entries'[p] = IF p[1] = g THEN entries[Here]
                         ELSE IF p = Here /\ op.pc = "root" THEN Link(g)
                         ELSE entries[p]
  BY AllocTables
<1>2. /\ \A ip \in Address : HopIn(Joined', ip) = HopIn(Joined, ip)
      /\ Leafy(Joined')
      /\ LinksIn(Joined) \cup {g} \subseteq LinksIn(Joined')
      /\ Joined'[Here] = Link(g)
      /\ \A p \in Places : p[1] = g => ~Joined'[p].ext
      /\ \A p \in Places : p # Here /\ p[1] # g => Joined'[p] = Joined[p]
      /\ \A p \in Places : Joined[p].ext => Joined[p].val # g
  BY AllocJoined
<1>3. JoinedOK /\ TrieOK /\ Level \in Nat \ {0} /\ IsTables(Joined) /\ IndInv'
  BY JoinedIs, Walking, AllocKeepsInv DEF AgreeInv, JoinedOK
<1>4. /\ InGapOn /\ Busy /\ ~op.up /\ Level' = Level + 1 /\ op'.path[Level'] = g
      /\ \A n \in 1..Level : op'.path[n] = op.path[n]
      /\ op.pc \in Edges \cup {"root"}
      /\ op.pc \in Edges => Level < BottomTable
  <2>1. /\ InGapOn /\ Busy /\ ~op.up /\ Level' = Level + 1 /\ op'.path[Level'] = g
        /\ \A n \in 1..Level : op'.path[n] = op.path[n]
        /\ \/ op.pc \in Edges /\ Level < BottomTable
           \/ op.pc = "root"
    BY <1>1, EnterMoves
  <2> QED BY <2>1 DEF Edges
<1>5. Agreed' /\ OnEdge' /\ \A ip : Done(ip)' <=> Done(ip)
  <2>1. OnEdge' /\ \A ip : Done(ip)' <=> Done(ip)
    BY <1>1, EnterDone
  <2>2. Continued
    BY <1>4 DEF InGapOn
  <2> QED BY <1>2, <1>4, <2>1, <2>2, AnswersKept
<1>6. PathLinked' /\ HiddenOld'
  <2>1. \A n \in 1..(Level - 1) : entries'[Place(n)] = entries[Place(n)]
    <3> TAKE n \in 1..(Level - 1)
    <3>1. n \in 1..Level /\ Level \in 1..Level /\ n # Level
      BY <1>3
    <3>2. Place(n) \in Places /\ Place(n)[1] # g
      <4>1. op.path[n] # g
        BY AllocTables, <3>1
      <4> QED BY <1>3, <3>1, <4>1 DEF JoinedOK, Place
    <3>3. Place(n) # Here
      BY <1>3, <3>1 DEF JoinedOK, Here
    <3> QED BY <1>1, <3>2, <3>3
  <2>2. op.pc = "root" => entries'[Here] = Link(g)
    BY <1>1
  <2>3. ASSUME op.pc \in Edges
        PROVE  /\ ~entries'[Here].ext /\ entries'[Here].val = Old
               /\ \A ip \in Address : Lead(ip, Level) = Lead(Edge, Level) =>
                    Within(ip) \/ Expected(ip) = Old
    <3>1. op.pc # "root" /\ entries'[Here] = entries[Here]
      BY <1>1, <2>3 DEF Edges
    <3>2. Edge \in Address /\ Expected(Edge) = Old
      BY <1>4, <2>3, EdgeUndone
    <3>3. Level \in 1..Level /\ Level \in Depths /\ Deepest \in Depths /\ Level <= Deepest
      BY <1>3, Walking, TableBytes
    <3>4. PathIn(Joined, Edge)[Level] = Here /\ Joined[Here] = entries[Here]
      <4>1. Joined[Here] = entries[Here]
        BY <1>1, <1>3, JoinedEnters
      <4> QED BY <1>3, <3>3, <4>1, EdgeReaches DEF TrieOK, Here
    <3>5. ASSUME NEW ip \in Address, Lead(ip, Level) = Lead(Edge, Level)
          PROVE  Expected(ip) = entries[Here].val
      <4>1. PathIn(Joined, ip)[Level] = Here
        BY <1>3, <3>2, <3>3, <3>4, <3>5, PathsAlike
      <4>2. PathIn(Joined, ip)[Deepest] = Here
        BY <1>1, <1>3, <3>3, <3>4, <4>1, WaysEnd
      <4>3. HopIn(Joined, ip) = entries[Here].val
        BY <3>4, <4>2 DEF HopIn
      <4>4. type = "TRIE"
        BY <1>4 DEF IndInv, OpOK, Busy
      <4> QED BY <1>3, <4>3, <4>4 DEF TrieOK, Agreed
    <3>6. entries[Here].val = Old
      BY <3>2, <3>5
    <3> QED BY <1>1, <3>1, <3>5, <3>6
  <2> QED BY <1>1, <2>1, <2>2, <2>3, EnterKeeps
<1>7. VariedGroups'
  <2>1. OnPath \subseteq OnPath' /\ g \in OnPath'
    <3>1. Level' \in 2..Level' /\ \A n \in 2..Level : n \in 2..Level' /\ n \in 1..Level
      BY <1>3, <1>4
    <3> QED BY <1>4, <3>1 DEF OnPath, Level
  <2>2. op.pc # "recycle"
    BY <1>4 DEF Edges
  <2>3. ASSUME NEW p \in Places, Joined'[p].ext, Joined'[p].val \notin OnPath'
        PROVE  ~Uniform(Joined', Joined'[p].val)
    <3>1. Link(g).val = g
      BY DEF Link
    <3>2. p # Here /\ p[1] # g
      BY <1>2, <2>1, <2>3, <3>1
    <3> DEFINE h == Joined[p].val
    <3>3. Joined'[p] = Joined[p] /\ Joined[p].ext /\ h # g /\ h \in Groups
      BY <1>2, <1>3, <2>3, <3>2 DEF IsTables
    <3>4. ~Uniform(Joined, h)
      BY <1>3, <2>1, <2>2, <2>3, <3>3 DEF TrieOK, VariedGroups
    <3>5. h # op.path[Level]
      <4>1. Level # 1 => Level \in 2..Level
        BY <1>3
      <4>2. op.path[1] # h
        BY <3>3, Sizes, Walking
      <4>3. h \notin OnPath
        BY <2>1, <2>3, <3>3
      <4> QED BY <4>1, <4>2, <4>3 DEF OnPath, Level
    <3>6. \A s \in Slots : Joined'[<<h, s>>] = Joined[<<h, s>>]
      <4> TAKE s \in Slots
      <4>1. <<h, s>> \in Places /\ <<h, s>>[1] = h
        BY <3>3 DEF Places
      <4>2. <<h, s>> # Here
        BY <3>5, <4>1 DEF Here, Place
      <4> QED BY <1>2, <3>3, <4>1, <4>2
    <3>7. 0 \in Slots
      BY Sizes
    <3> HIDE DEF h
    <3>8. ~Uniform(Joined', h)
      BY <3>4, <3>6, <3>7 DEF Uniform
    <3> QED BY <3>3, <3>8 DEF h
  <2> QED BY <2>3 DEF VariedGroups, Uniform, Places, Slots, Groups
<1>8. NoneLost'
  <2>1. Groups \subseteq Range(free) \cup LinksIn(Joined)
    BY <1>3 DEF TrieOK, NoneLost
  <2>2. Groups \subseteq Range(free') \cup LinksIn(Joined')
    BY <1>1, <1>2, <2>1
  <2> QED BY <2>2 DEF NoneLost, Groups
<1> QED
  BY <1>2, <1>4, <1>5, <1>6, <1>7, <1>8 DEF TrieOK, Leafy, Address, MAX_DEPTH

-----------------------------------------------------------------------------
(* The parts that are written *)

\* write_edge comes back to a table, or to the root table and is through.
Moved(level) ==
  /\ InGapOn /\ Busy /\ op.pc \in Edges /\ level \in 1..Level /\ level >= Root
  /\ Level' = level /\ \A n \in 1..level : op'.path[n] = op.path[n]
  /\ level > Root => /\ op'.pc = op.pc /\ op'.up /\ Edge' = Edge
                     /\ Open' = Root..(level - 1)
  /\ ~(level > Root) => /\ op'.pc = IF op.pc = "ledge" THEN "between" ELSE "recycle"
                        /\ ~op'.up /\ Edge' = op.ledge /\ Open' = {}

LEMMA AscendMoves ==
  ASSUME IndInv, op.pc \in Edges, NEW level \in 1..Level, level >= Root, FoldAscend(level),
         UNCHANGED Local, intact' = intact
  PROVE  Moved(level)
<1>1. op \in Call
  BY DEF IndInv, OpOK
<1>2. Level' = level /\ \A n \in 1..level : op'.path[n] = op.path[n]
  BY AscendPath DEF GoesBack
<1> DEFINE pc == IF level > Root THEN op.pc
                 ELSE IF op.pc = "ledge" THEN "between" ELSE "recycle"
           path == SubSeq(op.path, 1, level)
           up == level > Root
<1>3. op' = [op EXCEPT !.path = path, !.up = up, !.pc = pc]
  BY DEF FoldAscend
<1>4. /\ level > Root => pc = op.pc /\ up
      /\ ~(level > Root) => pc = (IF op.pc = "ledge" THEN "between" ELSE "recycle") /\ ~up
      /\ op.pc \in {"ledge", "redge"}
      /\ pc \in {"ledge", "redge", "between", "recycle"}
  BY DEF Edges
<1> HIDE DEF path, pc, up
<1>5. /\ op'.pc = pc /\ op'.ledge = op.ledge /\ op'.redge = op.redge /\ op'.up = up
      /\ op'.key = op.key /\ op'.call = op.call /\ op'.hop = op.hop /\ op'.todo = op.todo
      /\ op'.last = op.last
  BY <1>1, <1>3 DEF Call
<1>6. InGapOn /\ Busy
  BY <1>4, <1>5 DEF InGapOn, Continued, Busy, Local
<1>7. Root' = Root
  BY <1>5 DEF Root
<1>8. level > Root => Edge' = Edge /\ Open' = Root..(level - 1)
  <2> SUFFICES ASSUME level > Root PROVE Edge' = Edge /\ Open' = Root..(level - 1)
    OBVIOUS
  <2>1. op'.pc = op.pc /\ op'.pc \in Edges
    BY <1>4, <1>5
  <2>2. Edge' = Edge
    BY <1>5, <2>1 DEF Edge, LastIn, MAX_DEPTH
  <2>3. Open' = Root'..(Level' - 1)
    BY <2>1 DEF Open, Edges
  <2> QED BY <1>2, <1>7, <2>2, <2>3
<1>9. ~(level > Root) => Edge' = op.ledge /\ Open' = {}
  <2> SUFFICES ASSUME ~(level > Root) PROVE Edge' = op.ledge /\ Open' = {}
    OBVIOUS
  <2>1. op'.pc \in {"between", "recycle"}
    BY <1>4, <1>5
  <2>2. op'.pc # "redge" /\ op'.pc \notin {"ledge", "redge"}
    BY <2>1
  <2> QED BY <1>5, <2>2 DEF Edge, Open, Edges
<1> QED BY <1>2, <1>4, <1>5, <1>6, <1>8, <1>9 DEF Moved

\* The order of addresses that come by the last table on the way.
LEMMA HereOrder ==
  ASSUME IndInv, NEW a \in Address, NEW b \in Address
  PROVE  /\ Level \in Depths
         /\ Lead(a, Level) = Lead(b, Level) =>
              /\ Level # 1 => Lead(a, Level - 1) = Lead(b, Level - 1)
              /\ get_idx(a, Level) = get_idx(b, Level)
         /\ (Level # 1 => Lead(a, Level - 1) = Lead(b, Level - 1)) =>
              /\ get_idx(a, Level) = get_idx(b, Level) => Lead(a, Level) = Lead(b, Level)
              /\ get_idx(a, Level) < get_idx(b, Level) => Lead(a, Level) < Lead(b, Level)
              /\ Lead(a, Level) < Lead(b, Level) => get_idx(a, Level) < get_idx(b, Level)
<1>1. Level \in Depths /\ Level \in 1..Level /\ (Level # 1 => Level - 1 \in 1..Level)
  <2>1. Level \in Depths /\ Level \in Nat \ {0}
    BY Walking
  <2> QED BY <2>1
<1>2. CASE Level = 1
  BY <1>1, <1>2, LeadOfTable
<1>3. CASE Level # 1
  BY <1>1, <1>3, LeadOrder, LeadsAlike
<1> QED BY <1>1, <1>2, <1>3

\* Addresses that share the bytes of the left edge in its root table, and with
\* it only the right edge's if there is nothing between them.
LEMMA LeadsInGap ==
  ASSUME IndInv, AgreeInv, Busy, op.pc # "gap", NEW ip \in Address, NEW n \in Depths, n >= Root
  PROVE  /\ Root # Deepest =>
              /\ Lead(ip, n) = Lead(op.ledge, n) => ip < Final
              /\ Lead(ip, n) = Lead(Final, n) => op.ledge < ip
         /\ Root = Deepest => n = Deepest /\ Lead(ip, n) = ip
         /\ Lead(op.ledge, Deepest) = op.ledge /\ Lead(Final, Deepest) = Final
         /\ op.ledge \in Nat /\ Final \in Nat /\ ip \in Nat /\ op.ledge <= Final
<1>1. GapShape
  BY GapShaped
<1>2. op.ledge \in Address /\ Final \in Address /\ op.ledge <= Final
  BY <1>1 DEF GapShape
<1>3. op.ledge \in Nat /\ Final \in Nat /\ ip \in Nat
  BY <1>2 DEF Address
<1>4. Root \in Depths /\ Root \in 1..n /\ n \in 1..Deepest /\ n \in Int /\ Deepest \in Depths
      /\ Root \in 1..Deepest
  <2>1. Root \in Depths /\ Root \in Nat \ {0}
    BY Walking
  <2>2. n \in 1..Deepest /\ Root \in 1..Deepest /\ Deepest \in Depths
    BY <2>1, TableBytes
  <2> QED BY <2>1, <2>2
<1>5. ASSUME Root # Deepest, Lead(ip, n) = Lead(op.ledge, n)
      PROVE  ip < Final
  <2>1. Lead(ip, Root) = Lead(op.ledge, Root)
    BY <1>2, <1>4, <1>5, LeadOrder
  <2>2. Lead(ip, Root) < Lead(Final, Root)
    BY <1>1, <1>5, <2>1 DEF GapShape
  <2> QED BY <1>2, <1>4, <2>2, LeadBelow
<1>6. ASSUME Root # Deepest, Lead(ip, n) = Lead(Final, n)
      PROVE  op.ledge < ip
  <2>1. Lead(ip, Root) = Lead(Final, Root)
    BY <1>2, <1>4, <1>6, LeadOrder
  <2>2. Lead(op.ledge, Root) < Lead(ip, Root)
    BY <1>1, <1>6, <2>1 DEF GapShape
  <2> QED BY <1>2, <1>4, <2>2, LeadBelow
<1>7. Root = Deepest => n = Deepest
  BY <1>4
<1>8. /\ Lead(op.ledge, Deepest) = op.ledge /\ Lead(Final, Deepest) = Final
      /\ Lead(ip, Deepest) = ip
  BY <1>2, <1>4, LeadOfTable
<1> QED BY <1>2, <1>3, <1>5, <1>6, <1>7, <1>8

LEMMA BottomMoves ==
  ASSUME IndInv, FoldBottom
  PROVE  Moved(Level) /\ ~op.up /\ Level = BottomTable
<1>1. /\ op.pc \in Edges /\ ~op.up /\ Level = BottomTable /\ UNCHANGED Local /\ intact' = intact
      /\ IF Level > Root THEN op' = [op EXCEPT !.up = TRUE] ELSE FoldAscend(Level)
  BY DEF FoldBottom, Edges
<1>2. Level \in Nat \ {0} /\ Level \in 1..Level /\ Level >= Root
  BY <1>1, Walking DEF IndInv, Progress
<1>3. CASE ~(Level > Root)
  <2>1. PICK level \in 1..Level : level = Level
    BY <1>2
  <2>2. FoldAscend(level) /\ level >= Root
    BY <1>1, <1>2, <1>3, <2>1
  <2>3. Moved(level)
    BY <1>1, <2>2, AscendMoves
  <2> QED BY <1>1, <2>1, <2>3
<1>4. CASE Level > Root
  <2>1. op \in Call /\ op' = [op EXCEPT !.up = TRUE]
    BY <1>1, <1>4 DEF IndInv, OpOK
  <2>2. /\ op'.pc = op.pc /\ op'.ledge = op.ledge /\ op'.redge = op.redge /\ op'.up
        /\ op'.key = op.key /\ op'.call = op.call /\ op'.hop = op.hop /\ op'.todo = op.todo
        /\ op'.last = op.last /\ op'.path = op.path
    BY <2>1 DEF Call
  <2>3. InGapOn /\ Busy
    BY <1>1, <2>2 DEF InGapOn, Continued, Busy, Local, Edges
  <2>4. Level' = Level /\ Root' = Root
    BY <2>2 DEF Level, Root
  <2>5. Edge' = Edge
    BY <2>2 DEF Edge, LastIn, MAX_DEPTH
  <2>6. Open' = Root..(Level - 1)
    <3>1. Open' = Root'..(Level' - 1)
      BY <1>1, <2>2 DEF Open, Edges
    <3> QED BY <2>4, <3>1
  <2> QED BY <1>1, <1>2, <1>4, <2>2, <2>3, <2>4, <2>5, <2>6 DEF Moved
<1> QED BY <1>3, <1>4

\* Behind the last table of an edge its bytes are those of the end.
LEMMA BehindBottom ==
  ASSUME IndInv, NEW ip \in Address, Lead(ip, BottomTable) = Lead(Edge, BottomTable)
  PROVE  IF op.pc = "redge" THEN ip <= Final ELSE op.ledge <= ip
<1> DEFINE n == TBL24_BYTES + BottomTable - 1
<1>1. /\ n \in 1..IPV6_ADDR_SIZE
      /\ \A i \in n..(IPV6_ADDR_SIZE - 1) : Byte(Edge, i) = Filler
  BY BottomTableRange, TableBytes, BottomEdge
<1>2. Leading(ip, n) = Leading(Edge, n)
  BY DEF Lead
<1> HIDE DEF n
<1>3. n \in 0..IPV6_ADDR_SIZE /\ Edge \in Address
  <2>1. Edge \in Address
    BY LastInAddress DEF IndInv, OpOK, Call, Edge
  <2> QED BY <1>1, <2>1, Sizes
<1>4. CASE op.pc = "redge"
  <2>1. \A i \in n..(IPV6_ADDR_SIZE - 1) : Byte(Edge, i) = 2 ^ BYTE_SIZE - 1
    BY <1>1, <1>4 DEF Filler
  <2>2. ip <= Edge
    BY <1>2, <1>3, <2>1, LeastAlike
  <2> QED BY <1>4, <2>2 DEF Edge, Final
<1>5. CASE op.pc # "redge"
  <2>1. \A i \in n..(IPV6_ADDR_SIZE - 1) : Byte(Edge, i) = 0
    BY <1>1, <1>5 DEF Filler
  <2>2. Edge <= ip
    BY <1>2, <1>3, <2>1, LeastAlike
  <2> QED BY <1>5, <2>2 DEF Edge
<1> QED BY <1>4, <1>5

\* What a step has to write: T is part of the gap and what is done after it.
Writes(T) ==
  /\ InGapOn /\ InTarget(T)
  /\ \A ip \in Address : Within(ip) => (DoneIn(ip)' <=> DoneIn(ip) \/ Target(ip, T))

LEMMA BottomDone ==
  ASSUME IndInv, AgreeInv, intact, FoldBottom
  PROVE  Writes({get_idx(Edge, Level)})
<1> DEFINE T == {get_idx(Edge, Level)}
<1>1. Moved(Level) /\ ~op.up /\ Level = BottomTable
  BY BottomMoves
<1>2. /\ InGapOn /\ Busy /\ op.pc \in Edges /\ Level >= Root /\ Level' = Level
      /\ op.pc # "gap"
      /\ Level > Root => op'.pc = op.pc /\ op'.up
      /\ ~(Level > Root) => /\ op'.pc = IF op.pc = "ledge" THEN "between" ELSE "recycle"
                            /\ ~op'.up
  BY <1>1 DEF Moved, Edges
<1>3. /\ GapShape /\ Level \in Depths /\ Level \in Int /\ Root \in Int /\ Root' = Root
      /\ Final' = Final /\ op'.ledge = op.ledge /\ Root \in Depths
  BY <1>2, GapShaped, Walking, GapGoesOn DEF InGapOn
<1>4. Edge \in Address /\ op.ledge \in Address /\ Final \in Address
      /\ Edge = IF op.pc = "redge" THEN Final ELSE op.ledge
  BY <1>3 DEF GapShape, Edge, Final
<1>5. ASSUME NEW ip \in Address PROVE Target(ip, T) <=> Lead(ip, Level) = Lead(Edge, Level)
  BY <1>4, HereOrder DEF Target, ByHere
<1>6. ASSUME NEW ip \in Address, Target(ip, T) PROVE Within(ip)
  <2>1. Lead(ip, Level) = Lead(Edge, Level)
    BY <1>5, <1>6
  <2>2. IF op.pc = "redge" THEN ip <= Final ELSE op.ledge <= ip
    BY <1>1, <2>1, BehindBottom
  <2>3. /\ Root # Deepest =>
              /\ Lead(ip, Level) = Lead(op.ledge, Level) => ip < Final
              /\ Lead(ip, Level) = Lead(Final, Level) => op.ledge < ip
        /\ Root = Deepest => Level = Deepest /\ Lead(ip, Level) = ip
        /\ Lead(op.ledge, Deepest) = op.ledge /\ Lead(Final, Deepest) = Final
        /\ op.ledge \in Nat /\ Final \in Nat /\ ip \in Nat /\ op.ledge <= Final
    BY <1>2, <1>3, LeadsInGap
  <2>4. op.ledge <= ip /\ ip <= Final
    <3>1. CASE Root = Deepest
      BY <1>4, <2>1, <2>3, <3>1
    <3>2. CASE Root # Deepest
      BY <1>4, <2>1, <2>2, <2>3, <3>2
    <3> QED BY <3>1, <3>2
  <2> QED BY <1>3, <2>4 DEF GapShape
<1>7. ASSUME NEW ip \in Address, Within(ip)
      PROVE  DoneIn(ip)' <=> DoneIn(ip) \/ Lead(ip, Level) = Lead(Edge, Level)
  <2>1. DoneIn(ip)' <=>
           \/ op'.pc = "ledge" /\ op'.up /\ Lead(ip, Level) = Lead(op.ledge, Level)
           \/ op'.pc \in {"between", "redge"} /\ Lead(ip, Root) = Lead(op.ledge, Root)
           \/ op'.pc = "redge" /\ Lead(ip, Root) < Lead(Final, Root)
           \/ op'.pc = "redge" /\ op'.up /\ Lead(ip, Level) = Lead(Final, Level)
           \/ op'.pc = "recycle"
    BY <1>2, <1>3, DoneNext
  <2>2. CASE op.pc = "ledge"
    <3>1. ~DoneIn(ip) /\ Edge = op.ledge
      BY <1>1, <1>4, <2>2 DEF DoneIn
    <3>2. ~(Level > Root) => Level = Root
      BY <1>2, <1>3
    <3> QED BY <1>2, <2>1, <2>2, <3>1, <3>2
  <2>3. CASE op.pc = "redge"
    <3>1. DoneIn(ip) <=> Lead(ip, Root) = Lead(op.ledge, Root) \/ Lead(ip, Root) < Lead(Final, Root)
      BY <1>1, <2>3 DEF DoneIn
    <3>2. ~(Level > Root) => Level = Root
      BY <1>2, <1>3
    <3>3. Lead(ip, Root) < Lead(Final, Root) \/ Lead(ip, Root) = Lead(Final, Root)
      <4>1. ip <= Final
        BY <1>3, <1>7 DEF GapShape
      <4>2. Lead(ip, Root) <= Lead(Final, Root)
        <5>1. 1 \in 1..Root
          BY <1>3, Walking
        <5> QED BY <1>3, <1>4, <4>1, <5>1, LeadOrder
      <4>3. Lead(ip, Root) \in Nat /\ Lead(Final, Root) \in Nat
        BY <1>3, <1>4, LeadOfTable
      <4> QED BY <4>2, <4>3
    <3>4. CASE Level > Root
      BY <1>2, <1>4, <2>1, <2>3, <3>1, <3>4
    <3>5. CASE ~(Level > Root)
      BY <1>2, <1>4, <2>1, <2>3, <3>1, <3>2, <3>3, <3>5
    <3> QED BY <3>4, <3>5
  <2> QED BY <1>2, <2>2, <2>3 DEF Edges
<1> QED BY <1>2, <1>5, <1>6, <1>7 DEF Writes, InTarget

LEMMA RestDone ==
  ASSUME IndInv, AgreeInv, intact, FoldRest
  PROVE  Writes(Beside) /\ Moved(Level - 1)
<1>1. /\ op.pc \in Edges /\ op.up /\ FoldAscend(Level - 1) /\ UNCHANGED Local /\ intact' = intact
      /\ Level > Root
  BY DEF FoldRest, Edges, IndInv, Progress
<1>2. Level \in Nat /\ Root \in Nat \ {0} /\ Root \in Depths /\ Level \in Depths
  BY Walking
<1>3. PICK m \in 1..Level : m = Level - 1
  BY <1>1, <1>2
<1>4. m \in Int /\ m >= Root /\ m + 1 = Level /\ m # Level /\ Level # 1 /\ m \in Depths
      /\ m \in 1..Level
  <2>1. m \in Int /\ m >= Root /\ m + 1 = Level /\ m # Level /\ Level # 1
    BY <1>1, <1>2, <1>3
  <2>2. Level - 1 \in Depths
    BY <1>2, <2>1, TableBytes
  <2> QED BY <1>3, <2>1, <2>2
<1>5. Moved(m)
  <2>1. FoldAscend(m)
    BY <1>1, <1>3
  <2> QED BY <1>1, <1>4, <2>1, AscendMoves
<1>6. /\ InGapOn /\ Busy /\ Level' = m /\ op.pc # "gap"
      /\ m > Root => op'.pc = op.pc /\ op'.up
      /\ ~(m > Root) => /\ op'.pc = IF op.pc = "ledge" THEN "between" ELSE "recycle"
                        /\ ~op'.up
  BY <1>1, <1>5 DEF Moved, Edges
<1>7. GapShape /\ Root' = Root /\ Final' = Final /\ op'.ledge = op.ledge
  BY <1>6, GapShaped, GapGoesOn DEF InGapOn
<1>8. /\ Edge \in Address /\ op.ledge \in Address /\ Final \in Address
      /\ op.pc = "redge" => Edge = Final
      /\ op.pc # "redge" => Edge = op.ledge
  BY <1>7 DEF GapShape, Edge, Final
<1>9. ASSUME NEW ip \in Address
      PROVE  /\ Lead(ip, Level) \in Int /\ Lead(Edge, Level) \in Int
             /\ Lead(ip, Level) = Lead(Edge, Level) => Lead(ip, m) = Lead(Edge, m)
             /\ op.pc = "redge" =>
                  (Target(ip, Beside) <=> /\ Lead(ip, m) = Lead(Edge, m)
                                          /\ Lead(ip, Level) < Lead(Edge, Level))
             /\ op.pc # "redge" =>
                  (Target(ip, Beside) <=> /\ Lead(ip, m) = Lead(Edge, m)
                                          /\ Lead(Edge, Level) < Lead(ip, Level))
  <2>1. get_idx(ip, Level) \in 0..(2 ^ BYTE_SIZE - 1) /\ get_idx(Edge, Level) \in 0..(2 ^ BYTE_SIZE - 1)
        /\ Lead(ip, Level) \in Nat /\ Lead(Edge, Level) \in Nat /\ 2 ^ BYTE_SIZE \in Nat
    BY <1>2, <1>4, <1>8, LeadOfTable, Sizes
  <2>2. Lead(ip, Level) = Lead(Edge, Level) => Lead(ip, m) = Lead(Edge, m)
    BY <1>2, <1>4, <1>8, LeadOrder
  <2>3. Lead(ip, m) = Lead(Edge, m) =>
          /\ get_idx(ip, Level) < get_idx(Edge, Level) <=> Lead(ip, Level) < Lead(Edge, Level)
          /\ get_idx(Edge, Level) < get_idx(ip, Level) <=> Lead(Edge, Level) < Lead(ip, Level)
    BY <1>3, <1>4, <1>8, HereOrder
  <2>4. ByHere(ip) <=> Lead(ip, m) = Lead(Edge, m)
    BY <1>3, <1>4 DEF ByHere
  <2>5. op.pc = "redge" =>
          (get_idx(ip, Level) \in Beside <=> get_idx(ip, Level) < get_idx(Edge, Level))
    BY <2>1 DEF Beside
  <2>6. op.pc # "redge" =>
          (get_idx(ip, Level) \in Beside <=> get_idx(Edge, Level) < get_idx(ip, Level))
    <3>1. op.pc # "redge" => op.pc = "ledge"
      BY <1>1 DEF Edges
    <3> QED BY <2>1, <3>1 DEF Beside
  <2> QED BY <2>1, <2>2, <2>3, <2>4, <2>5, <2>6 DEF Target
<1>10. Root # Deepest
  BY <1>1, <1>2, TableBytes
<1>11. ASSUME NEW ip \in Address, Target(ip, Beside) PROVE Within(ip)
  <2>1. /\ Lead(ip, m) = Lead(op.ledge, m) => ip < Final
        /\ Lead(ip, m) = Lead(Final, m) => op.ledge < ip
        /\ op.ledge \in Nat /\ Final \in Nat /\ ip \in Nat /\ op.ledge <= Final
    BY <1>4, <1>6, <1>10, LeadsInGap
  <2>2. Level \in 1..Level /\ Deepest \in Depths /\ Level \in 1..Deepest
    BY <1>2, <1>4, TableBytes
  <2>3. op.pc = "redge" => ip < Final
    <3> SUFFICES ASSUME op.pc = "redge" PROVE ip < Final
      OBVIOUS
    <3>1. Lead(ip, Level) < Lead(Final, Level)
      BY <1>8, <1>9, <1>11
    <3> QED BY <1>2, <1>8, <2>2, <3>1, LeadBelow
  <2>4. op.pc # "redge" => op.ledge < ip
    <3> SUFFICES ASSUME op.pc # "redge" PROVE op.ledge < ip
      OBVIOUS
    <3>1. Lead(op.ledge, Level) < Lead(ip, Level)
      BY <1>8, <1>9, <1>11
    <3> QED BY <1>2, <1>8, <2>2, <3>1, LeadBelow
  <2>5. op.ledge <= ip /\ ip <= Final
    BY <1>8, <1>9, <1>11, <2>1, <2>3, <2>4
  <2> QED BY <1>7, <2>5 DEF GapShape
<1>12. ASSUME NEW ip \in Address, Within(ip)
       PROVE  DoneIn(ip)' <=> DoneIn(ip) \/ Target(ip, Beside)
  <2>1. DoneIn(ip)' <=>
           \/ op'.pc = "ledge" /\ op'.up /\ Lead(ip, m) = Lead(op.ledge, m)
           \/ op'.pc \in {"between", "redge"} /\ Lead(ip, Root) = Lead(op.ledge, Root)
           \/ op'.pc = "redge" /\ Lead(ip, Root) < Lead(Final, Root)
           \/ op'.pc = "redge" /\ op'.up /\ Lead(ip, m) = Lead(Final, m)
           \/ op'.pc = "recycle"
    BY <1>6, <1>7, DoneNext
  <2>2. ~(m > Root) => m = Root
    BY <1>2, <1>4
  <2>3. op.ledge <= ip /\ ip <= Final
    BY <1>7, <1>12 DEF GapShape
  <2>4. 1 \in 1..Level /\ 1 \in 1..Root
    BY <1>2, Walking
  <2>5. CASE op.pc = "ledge"
    <3>1. DoneIn(ip) <=> Lead(ip, Level) = Lead(op.ledge, Level)
      BY <1>1, <2>5 DEF DoneIn
    <3>2. Lead(op.ledge, Level) <= Lead(ip, Level)
      BY <1>2, <1>8, <2>3, <2>4, LeadOrder
    <3>3. DoneIn(ip)' <=> Lead(ip, m) = Lead(op.ledge, m)
      BY <1>6, <2>1, <2>2, <2>5
    <3> QED BY <1>8, <1>9, <2>5, <3>1, <3>2, <3>3
  <2>6. CASE op.pc = "redge"
    <3> DEFINE A == Lead(ip, Root) = Lead(op.ledge, Root) \/ Lead(ip, Root) < Lead(Final, Root)
    <3>1. DoneIn(ip) <=> A \/ Lead(ip, Level) = Lead(Final, Level)
      BY <1>1, <2>6 DEF DoneIn
    <3>2. Lead(ip, Level) <= Lead(Final, Level)
      BY <1>2, <1>8, <2>3, <2>4, LeadOrder
    <3>3. A \/ Lead(ip, Root) = Lead(Final, Root)
      <4>1. Lead(ip, Root) <= Lead(Final, Root)
        BY <1>2, <1>8, <2>3, <2>4, LeadOrder
      <4>2. Lead(ip, Root) \in Nat /\ Lead(Final, Root) \in Nat
        BY <1>2, <1>8, LeadOfTable
      <4> QED BY <4>1, <4>2
    <3>4. DoneIn(ip)' <=> A \/ Lead(ip, m) = Lead(Final, m)
      <4>1. CASE m > Root
        BY <1>6, <2>1, <2>6, <4>1
      <4>2. CASE ~(m > Root)
        BY <1>6, <2>1, <2>2, <2>6, <3>3, <4>2
      <4> QED BY <4>1, <4>2
    <3> HIDE DEF A
    <3>5. Target(ip, Beside) <=> /\ Lead(ip, m) = Lead(Final, m)
                                 /\ Lead(ip, Level) < Lead(Final, Level)
      BY <1>8, <1>9, <2>6
    <3>6. /\ Lead(ip, Level) \in Int /\ Lead(Final, Level) \in Int
          /\ Lead(ip, Level) = Lead(Final, Level) => Lead(ip, m) = Lead(Final, m)
      BY <1>8, <1>9, <2>6
    <3> QED BY <3>1, <3>2, <3>4, <3>5, <3>6
  <2> QED BY <1>1, <2>5, <2>6 DEF Edges
<1>13. Moved(Level - 1)
  BY <1>3, <1>5
<1> QED BY <1>1, <1>6, <1>11, <1>12, <1>13 DEF Writes, InTarget

Gap == (get_idx(op.ledge, Level) + 1)..(get_idx(Final, Level) - 1)

LEMMA BetweenDone ==
  ASSUME IndInv, AgreeInv, intact, WriteBetween
  PROVE  Writes(Gap)
<1>1. /\ op.pc = "between" /\ op' = [op EXCEPT !.pc = "redge"] /\ op \in Call
      /\ UNCHANGED Local /\ intact' = intact /\ Level = Root /\ ~op.up
  <2>1. /\ op.pc = "between" /\ op' = [op EXCEPT !.pc = "redge"] /\ op \in Call
        /\ UNCHANGED Local /\ intact' = intact /\ Level = Root
    BY DEF WriteBetween, IndInv, Progress, OpOK
  <2>2. ~op.up
    BY <2>1 DEF IndInv, Progress, Edges
  <2> QED BY <2>1, <2>2
<1>2. /\ op'.pc = "redge" /\ op'.ledge = op.ledge /\ op'.redge = op.redge /\ op'.up = op.up
      /\ op'.key = op.key /\ op'.call = op.call /\ op'.hop = op.hop /\ op'.todo = op.todo
      /\ op'.last = op.last /\ op'.path = op.path
  BY <1>1 DEF Call
<1>3. InGapOn /\ Busy
  BY <1>1, <1>2 DEF InGapOn, Continued, Busy, Local
<1>4. /\ GapShape /\ Root' = Root /\ Final' = Final
      /\ Level \in Depths /\ Level \in Nat \ {0}
  BY <1>1, <1>3, GapShaped, GapGoesOn, Walking
<1>5. op.ledge \in Address /\ Final \in Address /\ Edge = op.ledge
  BY <1>1, <1>4 DEF GapShape, Edge
<1>6. Level # 1 => Lead(op.ledge, Level - 1) = Lead(Final, Level - 1)
  BY <1>1, <1>4 DEF GapShape
<1>7. ASSUME NEW ip \in Address
      PROVE  /\ Lead(op.ledge, Level) \in Int /\ Lead(Final, Level) \in Int
             /\ Lead(ip, Level) \in Int
             /\ Target(ip, Gap) <=>
                  /\ Level # 1 => Lead(ip, Level - 1) = Lead(op.ledge, Level - 1)
                  /\ Lead(op.ledge, Level) < Lead(ip, Level)
                  /\ Lead(ip, Level) < Lead(Final, Level)
  <2> DEFINE B == Level # 1 => Lead(ip, Level - 1) = Lead(op.ledge, Level - 1)
  <2>1. /\ Lead(op.ledge, Level) \in Int /\ Lead(Final, Level) \in Int /\ Lead(ip, Level) \in Int
        /\ get_idx(op.ledge, Level) \in Int /\ get_idx(Final, Level) \in Int
        /\ get_idx(ip, Level) \in Int
    <3>1. \A a \in Address : Lead(a, Level) \in Nat /\ get_idx(a, Level) \in Int
      <4> TAKE a \in Address
      <4>1. Lead(a, Level) \in Nat
        BY <1>4, LeadOfTable
      <4>2. CASE Level = 1
        BY <1>4, <4>1, <4>2, LeadOfTable
      <4>3. CASE Level # 1
        <5>1. get_idx(a, Level) \in 0..(2 ^ BYTE_SIZE - 1)
          BY <1>4, <4>3, LeadOfTable
        <5> QED BY <4>1, <5>1
      <4> QED BY <4>1, <4>2, <4>3
    <3> QED BY <1>5, <3>1
  <2>2. B => (get_idx(op.ledge, Level) < get_idx(ip, Level) <=>
                Lead(op.ledge, Level) < Lead(ip, Level))
    BY <1>5, HereOrder
  <2>3. B => (get_idx(ip, Level) < get_idx(Final, Level) <=> Lead(ip, Level) < Lead(Final, Level))
    BY <1>5, <1>6, HereOrder
  <2>4. ByHere(ip) <=> B
    BY <1>5 DEF ByHere
  <2> HIDE DEF B
  <2>5. get_idx(ip, Level) \in Gap <=> /\ get_idx(op.ledge, Level) < get_idx(ip, Level)
                                       /\ get_idx(ip, Level) < get_idx(Final, Level)
    BY <2>1 DEF Gap
  <2>6. Target(ip, Gap) <=> /\ B /\ Lead(op.ledge, Level) < Lead(ip, Level)
                            /\ Lead(ip, Level) < Lead(Final, Level)
    BY <2>2, <2>3, <2>4, <2>5 DEF Target
  <2> QED BY <2>1, <2>6 DEF B
<1>8. Level \in 1..Level /\ Deepest \in Depths /\ Level \in 1..Deepest /\ 1 \in 1..Level
  BY <1>4, TableBytes
<1>9. ASSUME NEW ip \in Address, Target(ip, Gap) PROVE Within(ip)
  <2>1. op.ledge < ip /\ ip < Final
    BY <1>5, <1>7, <1>8, <1>9, LeadBelow
  <2>2. op.ledge \in Nat /\ ip \in Nat /\ Final \in Nat
    BY <1>5 DEF Address
  <2> QED BY <1>4, <2>1, <2>2 DEF GapShape
<1>10. ASSUME NEW ip \in Address, Within(ip)
       PROVE  DoneIn(ip)' <=> DoneIn(ip) \/ Target(ip, Gap)
  <2>1. DoneIn(ip)' <=> \/ Lead(ip, Level) = Lead(op.ledge, Level)
                        \/ Lead(ip, Level) < Lead(Final, Level)
    <3>1. DoneIn(ip)' <=> \/ Lead(ip, Root) = Lead(op.ledge, Root)
                          \/ Lead(ip, Root) < Lead(Final, Root)
      BY <1>1, <1>2, <1>4, DoneNext
    <3> QED BY <1>1, <3>1
  <2>2. DoneIn(ip) <=> Lead(ip, Level) = Lead(op.ledge, Level)
    BY <1>1 DEF DoneIn
  <2>3. op.ledge <= ip /\ ip <= Final
    BY <1>4, <1>10 DEF GapShape
  <2>4. Lead(op.ledge, Level) <= Lead(ip, Level) /\ Lead(ip, Level) <= Lead(Final, Level)
    BY <1>4, <1>5, <1>8, <2>3, LeadOrder
  <2>5. Level # 1 => Lead(ip, Level - 1) = Lead(op.ledge, Level - 1)
    <3> SUFFICES ASSUME Level # 1 PROVE Lead(ip, Level - 1) = Lead(op.ledge, Level - 1)
      OBVIOUS
    <3>1. Level - 1 \in Depths /\ 1 \in 1..(Level - 1)
      BY <1>4, TableBytes
    <3> DEFINE m == Level - 1
    <3>2. m \in Depths /\ 1 \in 1..m
      BY <3>1
    <3> HIDE DEF m
    <3>3. Lead(op.ledge, m) <= Lead(ip, m) /\ Lead(ip, m) <= Lead(Final, m)
      BY <1>5, <2>3, <3>2, LeadOrder
    <3>4. Lead(op.ledge, m) = Lead(Final, m)
      BY <1>6 DEF m
    <3>5. Lead(op.ledge, m) \in Nat /\ Lead(ip, m) \in Nat
      BY <1>5, <3>2, LeadOfTable
    <3> QED BY <3>3, <3>4, <3>5 DEF m
  <2> QED BY <1>7, <2>1, <2>2, <2>4, <2>5
<1> QED BY <1>1, <1>3, <1>9, <1>10 DEF Writes, InTarget

LEMMA RangeOfPut ==
  ASSUME IndInv, NEW g \in Groups
  PROVE  Range(free) \cup {g} \subseteq Range(tbl8_put(g))
<1>1. free \in Seq(Groups) /\ Len(free) \in Nat
  BY LenProperties DEF IndInv, TablesOK
<1>2. tbl8_put(g) = <<g>> \o free
  BY DEF tbl8_put
<1>3. <<g>> \in Seq(Groups) /\ Len(<<g>>) = 1 /\ <<g>>[1] = g
  OBVIOUS
<1>4. /\ <<g>> \o free \in Seq(Groups) /\ Len(<<g>> \o free) = Len(free) + 1
      /\ \A i \in 1..(Len(free) + 1) :
           (<<g>> \o free)[i] = IF i <= 1 THEN <<g>>[i] ELSE free[i - 1]
  BY <1>1, <1>3, ConcatProperties
<1> DEFINE s == <<g>> \o free
<1>5. DOMAIN s = 1..(Len(free) + 1) /\ DOMAIN free = 1..Len(free)
  BY <1>1, <1>4, LenProperties
<1>6. s[1] = g /\ \A i \in 1..Len(free) : s[i + 1] = free[i] /\ i + 1 \in DOMAIN s
  BY <1>1, <1>3, <1>4, <1>5
<1>7. 1 \in DOMAIN s
  BY <1>1, <1>5
<1> HIDE DEF s
<1>8. Range(free) \cup {g} \subseteq Range(s)
  BY <1>5, <1>6, <1>7 DEF Range
<1> QED BY <1>2, <1>8 DEF s

LEMMA WriteAnswers ==
  ASSUME IndInv, AgreeInv, intact, NEW T, Writes(T), NEW F, IsTables(F), IsTables(Joined'),
         \A p \in Places :
           F[p] = IF p \in {op.path[Level]} \X T THEN Leaf(op.hop) ELSE Joined[p],
         \/ Joined' = F /\ free' = free
         \/ \E q, g : FoldsTo(F, Joined', q, g) /\ free' = tbl8_put(g)
  PROVE  /\ Agreed' /\ Leafy(Joined') /\ NoneLost'
         /\ \A ip \in Address :
              /\ HopIn(Joined', ip) = IF Target(ip, T) THEN op.hop ELSE HopIn(Joined, ip)
              /\ Target(ip, T) => Within(ip) /\ Exposed(rib, op.key, ip)
              /\ ~Within(ip) => Expected(ip)' = Expected(ip)
<1>1. InGapOn /\ InTarget(T) /\ Continued /\ Busy /\ op.pc # "gap" /\ op'.pc # "gap"
      /\ op'.ledge = op.ledge
  BY DEF Writes, InGapOn, InTarget, Busy, Edges
<1>2. GapShape /\ TrieOK
  BY <1>1, GapShaped DEF AgreeInv
<1>3. /\ \A ip \in Address :
           HopIn(F, ip) = IF Target(ip, T) THEN op.hop ELSE HopIn(Joined, ip)
      /\ Leafy(F)
      /\ LinksIn(Joined) \subseteq LinksIn(F)
  BY <1>1, TargetWritten
<1>4. /\ \A ip \in Address : HopIn(Joined', ip) = HopIn(F, ip)
      /\ Leafy(Joined')
      /\ Range(free) \cup LinksIn(F) \subseteq Range(free') \cup LinksIn(Joined')
  <2>1. CASE Joined' = F /\ free' = free
    BY <1>3, <2>1
  <2>2. CASE \E q, g : FoldsTo(F, Joined', q, g) /\ free' = tbl8_put(g)
    <3> PICK q, g : FoldsTo(F, Joined', q, g) /\ free' = tbl8_put(g)
      BY <2>2
    <3>1. g \in Groups
      BY DEF FoldsTo
    <3>2. /\ \A ip \in Address : HopIn(Joined', ip) = HopIn(F, ip)
          /\ Leafy(Joined')
          /\ LinksIn(F) \ {g} \subseteq LinksIn(Joined')
      BY <1>3, FoldEffect
    <3>3. Range(free) \cup {g} \subseteq Range(free')
      BY <3>1, RangeOfPut
    <3> QED BY <3>2, <3>3
  <2> QED BY <2>1, <2>2
<1>5. \A ip \in Address : Target(ip, T) => Within(ip) /\ Exposed(rib, op.key, ip)
  BY <1>1, <1>2 DEF InTarget, GapShape
<1>6. ASSUME NEW ip \in Address
      PROVE  /\ Done(ip)' <=> ip < op.ledge \/ (Within(ip) /\ DoneIn(ip)')
             /\ Done(ip) <=> ip < op.ledge \/ (Within(ip) /\ DoneIn(ip))
  <2>1. Within(ip)' <=> Within(ip)
    BY <1>1, GapGoesOn
  <2>2. Done(ip)' <=> ip < op'.ledge \/ (Within(ip)' /\ DoneIn(ip)')
    BY <1>1, DoneNext
  <2> QED BY <1>1, <2>1, <2>2 DEF Done
<1>7. \A ip \in Address : Done(ip)' <=> Done(ip) \/ Target(ip, T)
  BY <1>5, <1>6 DEF Writes
<1>8. Agreed'
  <2> DEFINE W == {ip \in Address : Target(ip, T)}
  <2>1. \A ip \in Address : ip \in W <=> Target(ip, T)
    OBVIOUS
  <2> HIDE DEF W
  <2> QED BY <1>1, <1>3, <1>4, <1>5, <1>7, <2>1, AnswersWritten
<1>9. NoneLost'
  <2>1. Groups \subseteq Range(free) \cup LinksIn(Joined)
    BY <1>2 DEF TrieOK, NoneLost
  <2>2. Groups \subseteq Range(free') \cup LinksIn(Joined')
    BY <1>3, <1>4, <2>1
  <2> QED BY <2>2 DEF NoneLost, Groups
<1>10. ASSUME NEW ip \in Address, ~Within(ip) PROVE Expected(ip)' = Expected(ip)
  <2>1. Done(ip)' <=> Done(ip)
    BY <1>5, <1>7, <1>10
  <2> QED BY <1>1, <2>1, ExpectedKept
<1> QED BY <1>3, <1>4, <1>5, <1>8, <1>9, <1>10

LEMMA HiddenKept ==
  ASSUME IndInv, AgreeInv, intact, InGapOn, Busy,
         \A ip \in Address : ~Within(ip) => Expected(ip)' = Expected(ip),
         \A k \in Open' : /\ k \in Open /\ Place(k)' = Place(k) /\ Edge' = Edge
                          /\ entries'[Place(k)] = entries[Place(k)]
  PROVE  HiddenOld'
<1>1. Old' = Old /\ \A ip : Within(ip)' <=> Within(ip)
  BY GapGoesOn
<1>2. HiddenOld
  BY DEF AgreeInv, TrieOK
<1>3. ASSUME NEW k \in Open', ~entries'[Place(k)'].ext
      PROVE  /\ entries'[Place(k)'].val = Old'
             /\ \A ip \in Address : Lead(ip, k) = Lead(Edge', k) =>
                  Within(ip)' \/ Expected(ip)' = Old'
  <2>1. /\ k \in Open /\ Place(k)' = Place(k) /\ Edge' = Edge
        /\ entries'[Place(k)'] = entries[Place(k)]
    OBVIOUS
  <2>2. /\ entries[Place(k)].val = Old
        /\ \A ip \in Address : Lead(ip, k) = Lead(Edge, k) => Within(ip) \/ Expected(ip) = Old
    BY <1>2, <1>3, <2>1 DEF HiddenOld
  <2> QED BY <1>1, <2>1, <2>2
<1> QED BY <1>3 DEF HiddenOld, Lead, Leading, Size, Address, MAX_DEPTH

\* Back in an earlier table the way to it is the same.
LEMMA MovedPlaces ==
  ASSUME IndInv, AgreeInv, NEW level, Moved(level)
  PROVE  /\ level \in Nat \ {0} /\ level \in 1..Level /\ Level' = level
         /\ \A n \in 1..(level - 1) : n \in 1..Level /\ Place(n)' = Place(n)
         /\ Open' \subseteq Open /\ Open' \subseteq 1..(level - 1)
         /\ Open' # {} => Edge' = Edge
         /\ \A n \in 1..(level - 1) : n \in Open => n \in Open'
<1>1. /\ InGapOn /\ Busy /\ op.pc \in Edges /\ level \in 1..Level /\ level >= Root
      /\ Level' = level /\ \A n \in 1..level : op'.path[n] = op.path[n]
  BY DEF Moved
<1>2. /\ level > Root => Edge' = Edge /\ Open' = Root..(level - 1)
      /\ ~(level > Root) => Edge' = op.ledge /\ Open' = {}
  BY DEF Moved
<1>3. /\ Level \in Nat \ {0} /\ Root \in Nat \ {0} /\ level \in Nat \ {0} /\ Root \in Depths
      /\ Open = Root..(Level - 1)
  BY <1>1, Walking DEF Open
<1>4. \A n \in 1..(level - 1) : n \in 1..level /\ n \in 1..Level
  BY <1>1, <1>3
<1>5. ASSUME NEW n \in 1..(level - 1) PROVE get_idx(Edge', n) = get_idx(Edge, n)
  <2>1. CASE level > Root
    BY <1>2, <2>1
  <2>2. CASE ~(level > Root)
    <3>1. level = Root /\ Root # 1 /\ n \in 1..(Root - 1)
      BY <1>1, <1>3, <2>2
    <3>2. GapShape
      BY <1>1, GapShaped DEF InGapOn
    <3>3. op.ledge \in Address /\ Final \in Address /\ Edge \in {op.ledge, Final}
      BY <3>2 DEF GapShape, Edge, Final
    <3>4. Lead(op.ledge, Root - 1) = Lead(Final, Root - 1) /\ Root - 1 \in Depths
      BY <1>3, <3>1, <3>2, TableBytes DEF GapShape
    <3>5. get_idx(op.ledge, n) = get_idx(Final, n)
      BY <3>1, <3>3, <3>4, LeadOrder
    <3> QED BY <1>2, <2>2, <3>3, <3>5
  <2> QED BY <2>1, <2>2
<1>6. ASSUME NEW n \in 1..(level - 1) PROVE Place(n)' = Place(n)
  <2>1. op'.path[n] = op.path[n] /\ get_idx(Edge', n) = get_idx(Edge, n)
    BY <1>1, <1>4, <1>5
  <2> QED BY <2>1 DEF Place, get_idx, Byte
<1>7. Open' \subseteq Open /\ Open' \subseteq 1..(level - 1) /\ (Open' # {} => Edge' = Edge)
  BY <1>1, <1>2, <1>3
<1>8. \A n \in 1..(level - 1) : n \in Open => n \in Open'
  BY <1>1, <1>2, <1>3
<1> QED BY <1>1, <1>3, <1>4, <1>6, <1>7, <1>8

LEMMA MovedJoined ==
  ASSUME IndInv, AgreeInv, IndInv', NEW level, Moved(level)
  PROVE  \A p \in Places :
           Joined'[p] = IF \E k \in Open' : p = Place(k) THEN Joined[p] ELSE entries'[p]
<1>1. /\ level \in Nat \ {0} /\ level \in 1..Level /\ Level' = level
      /\ \A n \in 1..(level - 1) : n \in 1..Level /\ Place(n)' = Place(n)
      /\ Open' \subseteq Open /\ Open' \subseteq 1..(level - 1)
  BY MovedPlaces
<1>2. \A n \in 1..level : op'.path[n] = op.path[n]
  BY DEF Moved
<1>3. JoinedOK
  BY JoinedIs
<1> SUFFICES ASSUME NEW p \in Places
             PROVE  Joined'[p] = IF \E k \in Open' : p = Place(k) THEN Joined[p] ELSE entries'[p]
  OBVIOUS
<1>4. /\ \A k \in Open' : Joined'[Place(k)'] = Link(op'.path[k + 1])
      /\ (\A k \in Open' : p # Place(k)') => Joined'[p] = entries'[p]
  BY JoinedNextIs
<1>5. CASE \E k \in Open' : p = Place(k)
  <2> PICK k \in Open' : p = Place(k)
    BY <1>5
  <2>1. k \in Open /\ Place(k)' = p /\ k + 1 \in 1..level
    BY <1>1
  <2>2. Joined[p] = Link(op.path[k + 1])
    BY <1>3, <2>1 DEF JoinedOK
  <2>3. Joined'[p] = Link(op'.path[k + 1]) /\ op'.path[k + 1] = op.path[k + 1]
    BY <1>2, <1>4, <2>1
  <2> QED BY <1>5, <2>2, <2>3
<1>6. CASE \A k \in Open' : p # Place(k)
  <2>1. \A k \in Open' : p # Place(k)'
    BY <1>1, <1>6
  <2> QED BY <1>4, <1>6, <2>1
<1> QED BY <1>5, <1>6

LEMMA MovedKeeps ==
  ASSUME IndInv, AgreeInv, intact, IndInv', NEW level, Moved(level),
         \A n \in 1..(level - 1) : entries'[Place(n)] = entries[Place(n)],
         \A ip \in Address : ~Within(ip) => Expected(ip)' = Expected(ip)
  PROVE  PathLinked' /\ OnEdge' /\ HiddenOld'
<1>1. /\ level \in Nat \ {0} /\ level \in 1..Level /\ Level' = level
      /\ \A n \in 1..(level - 1) : n \in 1..Level /\ Place(n)' = Place(n)
      /\ Open' \subseteq Open /\ Open' \subseteq 1..(level - 1)
      /\ Open' # {} => Edge' = Edge
      /\ \A n \in 1..(level - 1) : n \in Open => n \in Open'
  BY MovedPlaces
<1>2. /\ InGapOn /\ Busy /\ op.pc \in Edges /\ level >= Root
      /\ \A n \in 1..level : op'.path[n] = op.path[n]
      /\ level > Root => op'.pc = op.pc
      /\ ~(level > Root) => op'.pc \in {"between", "recycle"}
  BY DEF Moved
<1>3. JoinedOK /\ TrieOK /\ Level \in Nat
  BY JoinedIs, Walking DEF AgreeInv
<1>4. PathLinked'
  <2>1. ASSUME NEW n \in 1..(Level' - 1)
        PROVE  \/ entries'[Place(n)'] = Link(op'.path[n + 1])
               \/ n \in Open' /\ ~entries'[Place(n)'].ext
    <3>1. n \in 1..(level - 1) /\ n \in 1..(Level - 1) /\ n + 1 \in 1..level
      BY <1>1, <1>3
    <3>2. /\ entries'[Place(n)'] = entries[Place(n)]
          /\ op'.path[n + 1] = op.path[n + 1]
      BY <1>1, <1>2, <3>1
    <3>3. \/ entries[Place(n)] = Link(op.path[n + 1])
          \/ n \in Open /\ ~entries[Place(n)].ext
      BY <1>3, <3>1 DEF TrieOK, PathLinked
    <3> QED BY <1>1, <3>1, <3>2, <3>3
  <2> QED BY <2>1 DEF PathLinked, Link
<1>5. OnEdge'
  <2>1. CASE level > Root
    <3>1. op'.pc = op.pc
      BY <1>2, <2>1
    <3>2. BottomTable' = BottomTable
      BY <1>2, <3>1 DEF BottomTable, Edge, InGapOn, Filler, common_bytes, Byte, LastIn, MAX_DEPTH
    <3>3. Level <= BottomTable
      BY <1>2, <1>3 DEF TrieOK, OnEdge
    <3>4. BottomTable \in Int
      BY BottomTableRange, Sizes DEF Depths
    <3>5. Level' <= BottomTable'
      BY <1>1, <1>3, <3>2, <3>3, <3>4
    <3> QED BY <1>2, <3>1, <3>5 DEF OnEdge, Edges
  <2>2. CASE ~(level > Root)
    <3>1. Level' <= Root'
      <4>1. Root' = Root /\ Root \in Int
        BY <1>2, GapGoesOn, Walking DEF InGapOn
      <4> QED BY <1>1, <2>2, <4>1
    <3>2. op'.pc \notin Edges
      BY <1>2, <2>2 DEF Edges
    <3> QED BY <3>1, <3>2 DEF OnEdge, Edges
  <2> QED BY <2>1, <2>2
<1>6. HiddenOld'
  <2>1. \A k \in Open' : /\ k \in Open /\ Place(k)' = Place(k) /\ Edge' = Edge
                         /\ entries'[Place(k)] = entries[Place(k)]
    BY <1>1
  <2> QED BY <1>2, <2>1, HiddenKept
<1> QED BY <1>4, <1>5, <1>6

\* Entries that were next hops before: no group becomes uniform but the one
\* that is written.
LEMMA WriteVaried ==
  ASSUME IndInv, AgreeInv, intact, op.pc # "recycle", NEW T, NEW F,
         \A p \in Places :
           F[p] = IF p \in {op.path[Level]} \X T THEN Leaf(op.hop) ELSE Joined[p]
  PROVE  \A p \in Places : F[p].ext => ~Uniform(F, F[p].val) \/ F[p].val \in OnPath
<1> SUFFICES ASSUME NEW p \in Places, F[p].ext, F[p].val \notin OnPath
             PROVE  ~Uniform(F, F[p].val)
  OBVIOUS
<1>1. JoinedOK /\ TrieOK /\ Level \in Nat \ {0} /\ op.path[1] = tbl24 /\ IsTables(Joined)
  BY JoinedIs, Walking DEF AgreeInv, JoinedOK
<1>2. ~Leaf(op.hop).ext
  BY DEF Leaf
<1>3. F[p] = Joined[p]
  BY <1>2
<1> DEFINE h == F[p].val
<1>4. h \in Groups /\ h # tbl24
  BY <1>1, <1>3, Sizes DEF IsTables
<1>5. h # op.path[Level]
  <2>1. Level # 1 => Level \in 2..Level
    BY <1>1
  <2> QED BY <1>1, <1>4, <2>1 DEF OnPath, Level
<1>6. ~Uniform(Joined, h)
  BY <1>1, <1>3 DEF TrieOK, VariedGroups
<1>7. \A s \in Slots : F[<<h, s>>] = Joined[<<h, s>>]
  <2> TAKE s \in Slots
  <2>1. <<h, s>> \in Places
    BY <1>4 DEF Places
  <2>2. <<h, s>> \notin {op.path[Level]} \X T
    BY <1>5
  <2> QED BY <2>1, <2>2
<1>8. 0 \in Slots
  BY Sizes
<1> HIDE DEF h
<1>9. ~Uniform(F, h)
  BY <1>6, <1>7, <1>8 DEF Uniform
<1> QED BY <1>9 DEF h

\* What is said of a step that writes.
Wrote(T) ==
  /\ TrieOK' /\ Writes(T)
  /\ \A ip \in Address :
       /\ HopIn(Joined', ip) = IF Target(ip, T) THEN op.hop ELSE HopIn(Joined, ip)
       /\ Target(ip, T) => Within(ip) /\ Exposed(rib, op.key, ip)

LEMMA BottomAgrees ==
  ASSUME IndInv, AgreeInv, intact, FoldBottom
  PROVE  \E T : Wrote(T)
<1> PICK T : T = {get_idx(Edge, Level)}
  OBVIOUS
<1> PICK level : level = Level
  OBVIOUS
<1>1. Writes(T) /\ Moved(level) /\ IndInv'
  BY BottomDone, BottomMoves, WriteBottomKeepsInv
<1>2. /\ JoinedOK /\ TrieOK /\ Level \in Nat \ {0} /\ op.pc \in Edges /\ op.pc # "recycle"
      /\ free' = free /\ entries' = Written({Here}, Leaf(op.hop)) /\ InTarget(T)
  BY <1>1, JoinedIs, Walking DEF AgreeInv, FoldBottom, Edges, Writes
<1>3. /\ level \in Nat \ {0} /\ level \in 1..Level /\ Level' = level
      /\ \A n \in 1..(level - 1) : n \in 1..Level /\ Place(n)' = Place(n)
      /\ Open' \subseteq Open /\ Open' \subseteq 1..(level - 1)
      /\ \A n \in 1..(level - 1) : n \in Open => n \in Open'
  BY <1>1, MovedPlaces
<1>4. \A n \in 1..(level - 1) : Place(n) # Here /\ Place(n) \in Places
  <2> TAKE n \in 1..(level - 1)
  <2>1. n \in 1..Level /\ Level \in 1..Level /\ n # Level
    BY <1>2, <1>3
  <2> QED BY <1>2, <2>1 DEF JoinedOK, Here
<1>5. \A p \in Places : entries'[p] = IF p = Here THEN Leaf(op.hop) ELSE entries[p]
  BY <1>2 DEF Written
<1>6. \A n \in 1..(level - 1) : entries'[Place(n)] = entries[Place(n)]
  BY <1>4, <1>5
<1>7. ASSUME NEW p \in Places,
             Joined'[p] = IF \E k \in Open' : p = Place(k) THEN Joined[p] ELSE entries'[p]
      PROVE  Joined'[p] = IF p \in {op.path[Level]} \X T THEN Leaf(op.hop) ELSE Joined[p]
  <2>1. p \in {op.path[Level]} \X T <=> p = Here
    <3>1. p = <<p[1], p[2]>>
      BY PlaceParts
    <3> QED BY <3>1 DEF Here, Place
  <2>2. CASE p = Here
    <3>1. \A k \in Open' : p # Place(k)
      BY <1>3, <1>4, <2>2
    <3> QED BY <1>5, <1>7, <2>1, <2>2, <3>1
  <2>3. CASE p # Here
    <3>1. (\A k \in Open : p # Place(k)) => Joined[p] = entries[p]
      BY <1>2 DEF JoinedOK
    <3>2. \A k \in Open : k \in Open'
      BY <1>2, <1>3 DEF JoinedOK
    <3> QED BY <1>5, <1>7, <2>1, <2>3, <3>1, <3>2
  <2> QED BY <2>2, <2>3
<1>8. \A p \in Places :
        Joined'[p] = IF p \in {op.path[Level]} \X T THEN Leaf(op.hop) ELSE Joined[p]
  <2> TAKE p \in Places
  <2>1. Joined'[p] = IF \E k \in Open' : p = Place(k) THEN Joined[p] ELSE entries'[p]
    BY <1>1, MovedJoined
  <2> QED BY <1>7, <2>1
<1>9. /\ Agreed' /\ Leafy(Joined') /\ NoneLost'
      /\ \A ip \in Address :
           /\ HopIn(Joined', ip) = IF Target(ip, T) THEN op.hop ELSE HopIn(Joined, ip)
           /\ Target(ip, T) => Within(ip) /\ Exposed(rib, op.key, ip)
           /\ ~Within(ip) => Expected(ip)' = Expected(ip)
  <2>1. IsTables(Joined')
    BY <1>1, JoinedNextIs
  <2> QED BY <1>1, <1>2, <1>8, <2>1, WriteAnswers
<1>10. PathLinked' /\ OnEdge' /\ HiddenOld'
  BY <1>1, <1>6, <1>9, MovedKeeps
<1>11. VariedGroups'
  <2>1. \A p \in Places : Joined'[p].ext =>
          ~Uniform(Joined', Joined'[p].val) \/ Joined'[p].val \in OnPath
    <3> PICK F : F = Joined'
      OBVIOUS
    <3>1. \A p \in Places :
            F[p] = IF p \in {op.path[Level]} \X T THEN Leaf(op.hop) ELSE Joined[p]
      BY <1>8
    <3>2. \A p \in Places : F[p].ext => ~Uniform(F, F[p].val) \/ F[p].val \in OnPath
      BY <1>2, <3>1, WriteVaried
    <3> QED BY <3>2
  <2>2. OnPath' = OnPath
    <3>1. Level' = Level /\ \A n \in 1..Level : op'.path[n] = op.path[n]
      BY <1>1 DEF Moved
    <3>2. \A n \in 2..Level : n \in 1..Level
      OBVIOUS
    <3>3. OnPath = {op.path[n] : n \in 2..Level} /\ OnPath' = {op'.path[n] : n \in 2..Level'}
      BY DEF OnPath, Level
    <3> QED BY <3>1, <3>2, <3>3
  <2> QED BY <2>1, <2>2 DEF VariedGroups, Uniform, Places, Slots, Groups
<1>12. TrieOK'
  BY <1>9, <1>10, <1>11 DEF TrieOK, Leafy, Address, MAX_DEPTH
<1> QED BY <1>1, <1>9, <1>12 DEF Wrote

LEMMA RestAgrees ==
  ASSUME IndInv, AgreeInv, intact, FoldRest
  PROVE  \E T : Wrote(T)
<1> PICK T : T = Beside
  OBVIOUS
<1> PICK level : level = Level - 1
  OBVIOUS
<1> PICK g : g = op.path[Level]
  OBVIOUS
<1> PICK q : q = Place(Level - 1)
  OBVIOUS
<1> DEFINE e == Leaf(op.hop)
           filled == Written({g} \X T, e)
           F == [p \in Places |-> IF p \in {g} \X T THEN e ELSE Joined[p]]
<1>1. Writes(T) /\ Moved(level) /\ IndInv'
  BY RestDone, WriteRestKeepsInv
<1>2. /\ JoinedOK /\ TrieOK /\ Level \in Nat \ {0} /\ op.pc \in Edges /\ op.pc # "recycle"
      /\ InTarget(T) /\ Level > Root /\ Root \in Nat \ {0} /\ op \in Call
      /\ IsTables(Joined) /\ OneLinkIn(Joined) /\ IsTables(Joined')
      /\ IF Recyclable(filled, g)
         THEN entries' = Folded(filled, q, g) /\ free' = tbl8_put(g)
         ELSE entries' = [filled EXCEPT ![q] = Link(g)] /\ free' = free
  BY <1>1, JoinedIs, JoinedNextIs, Walking
  DEF AgreeInv, FoldRest, Edges, Writes, IndInv, Progress, JoinedOK, OpOK
<1> HIDE DEF filled
<1>3. /\ level \in Nat \ {0} /\ level \in 1..Level /\ Level' = level /\ level + 1 = Level
      /\ \A n \in 1..(level - 1) : n \in 1..Level /\ Place(n)' = Place(n)
      /\ Open' \subseteq Open /\ Open' \subseteq 1..(level - 1)
      /\ \A n \in 1..(level - 1) : n \in Open => n \in Open'
  BY <1>1, <1>2, MovedPlaces
<1>4. /\ level \in Open /\ q = Place(level) /\ q \in Places /\ Joined[q] = Link(g) /\ g \in Groups
  <2>1. level \in Open /\ q = Place(level)
    BY <1>2, <1>3 DEF Open
  <2> QED BY <1>2, <1>3, <2>1 DEF JoinedOK
<1>5. \A n \in 1..level : n \in 1..Level /\ Place(n) \in Places /\ Place(n)[1] # g
                          /\ (n # level => Place(n) # q)
  <2> TAKE n \in 1..level
  <2>1. n \in 1..Level /\ Level \in 1..Level /\ n # Level
    BY <1>2, <1>3
  <2>2. Place(Level)[1] = g
    BY DEF Place
  <2> QED BY <1>2, <1>3, <1>4, <2>1, <2>2 DEF JoinedOK
<1>6. q[1] # g
  BY <1>3, <1>4, <1>5
<1>7. \A p \in Places : filled[p] = IF p \in {g} \X T THEN e ELSE entries[p]
  BY DEF Written, filled
<1>8. /\ \A p \in Places : F[p] = IF p \in {g} \X T THEN e ELSE Joined[p]
      /\ \A p \in Places : F[p] = IF p \in {op.path[Level]} \X T THEN Leaf(op.hop) ELSE Joined[p]
  OBVIOUS
<1>9. IsTables(F) /\ DOMAIN filled = Places
  <2>1. e \in [ext : BOOLEAN, val : Hops] /\ ~e.ext
    BY <1>2 DEF Leaf, Call
  <2>2. DOMAIN filled = Places
    BY DEF filled, Written
  <2> HIDE DEF e
  <2>3. F \in [Places -> [ext : BOOLEAN, val : Hops]]
    BY <1>2, <2>1 DEF IsTables
  <2> QED BY <1>2, <1>8, <2>1, <2>2, <2>3 DEF IsTables
<1>10. ASSUME NEW p \in Places, \A k \in Open : p # Place(k)
       PROVE  filled[p] = F[p]
  BY <1>2, <1>7, <1>8, <1>10 DEF JoinedOK
<1>11. ASSUME NEW p \in Places, p[1] = g
       PROVE  filled[p] = F[p] /\ p # q /\ \A k \in Open : p # Place(k)
  <2>1. \A k \in Open : p # Place(k)
    <3> TAKE k \in Open
    <3>1. k \in 1..level
      BY <1>2, <1>3 DEF JoinedOK
    <3> QED BY <1>5, <1>11, <3>1
  <2> QED BY <1>6, <1>10, <1>11, <2>1
<1>12. ASSUME NEW p \in Places, p # q, p[1] # g
       PROVE  /\ (\E k \in Open' : p = Place(k)) => F[p] = Joined[p]
              /\ ~(\E k \in Open' : p = Place(k)) => filled[p] = F[p]
  <2>1. p \notin {g} \X T
    BY <1>12
  <2>2. \A k \in Open : k \notin Open' => k = level
    <3> TAKE k \in Open
    <3>1. k \in 1..level
      BY <1>2, <1>3 DEF JoinedOK
    <3>2. k # level => k \in 1..(level - 1)
      BY <1>3, <3>1
    <3> QED BY <1>3, <3>2
  <2>3. ~(\E k \in Open' : p = Place(k)) => \A k \in Open : p # Place(k)
    BY <1>4, <1>12, <2>2
  <2> QED BY <1>8, <1>10, <2>1, <2>3
<1>13. \A p \in Places :
         Joined'[p] = IF \E k \in Open' : p = Place(k) THEN Joined[p] ELSE entries'[p]
  BY <1>1, MovedJoined
<1>14. \A k \in Open' : Place(k) # q /\ Place(k)[1] # g
  BY <1>3, <1>5
<1> HIDE DEF F, e
<1>15. ASSUME ~Recyclable(filled, g)
      PROVE  /\ \/ Joined' = F /\ free' = free
                \/ \E r, h : FoldsTo(F, Joined', r, h) /\ free' = tbl8_put(h)
             /\ \A p \in Places : Joined'[p].ext =>
                  \/ ~Uniform(Joined', Joined'[p].val)
                  \/ Joined'[p].val \in OnPath /\ Joined'[p].val # g
             /\ \A n \in 1..(level - 1) : entries'[Place(n)] = filled[Place(n)]
  <2>1. entries' = [filled EXCEPT ![q] = Link(g)] /\ free' = free
    BY <1>2, <1>15
  <2>2. \A p \in Places : entries'[p] = IF p = q THEN Link(g) ELSE filled[p]
    BY <1>4, <1>9, <2>1
  <2>3. ASSUME NEW p \in Places PROVE Joined'[p] = F[p]
    <3>1. CASE p = q
      <4>1. Joined'[p] = Link(g)
        BY <1>13, <1>14, <2>2, <3>1
      <4>2. p \notin {g} \X T
        BY <1>6, <3>1
      <4> QED BY <1>4, <1>8, <3>1, <4>1, <4>2
    <3>2. CASE p[1] = g
      BY <1>11, <1>13, <1>14, <2>2, <3>2
    <3>3. CASE p # q /\ p[1] # g
      BY <1>12, <1>13, <2>2, <3>3
    <3> QED BY <3>1, <3>2, <3>3
  <2>4. Joined' = F
    <3>1. F \in [Places -> [ext : BOOLEAN, val : Hops]]
          /\ Joined' \in [Places -> [ext : BOOLEAN, val : Hops]]
      BY <1>2, <1>9 DEF IsTables
    <3> QED BY <2>3, <3>1
  <2>5. ~Uniform(Joined', g)
    <3>1. \A s \in Slots : <<g, s>> \in Places /\ <<g, s>>[1] = g
      BY <1>4 DEF Places
    <3>2. \A s \in Slots : F[<<g, s>>] = filled[<<g, s>>]
      BY <1>11, <3>1
    <3>3. 0 \in Slots
      BY Sizes
    <3> QED BY <1>15, <2>4, <3>2, <3>3 DEF Recyclable, Uniform
  <2>6. \A p \in Places : Joined'[p].ext =>
          \/ ~Uniform(Joined', Joined'[p].val)
          \/ Joined'[p].val \in OnPath /\ Joined'[p].val # g
    <3>1. \A p \in Places : F[p].ext => ~Uniform(F, F[p].val) \/ F[p].val \in OnPath
      BY <1>2, <1>8, WriteVaried
    <3> QED BY <2>4, <2>5, <3>1
  <2>7. \A n \in 1..(level - 1) : entries'[Place(n)] = filled[Place(n)]
    BY <1>3, <1>5, <2>2
  <2> QED BY <2>1, <2>4, <2>6, <2>7
<1>16. ASSUME Recyclable(filled, g)
      PROVE  /\ \/ Joined' = F /\ free' = free
                \/ \E r, h : FoldsTo(F, Joined', r, h) /\ free' = tbl8_put(h)
             /\ \A p \in Places : Joined'[p].ext =>
                  \/ ~Uniform(Joined', Joined'[p].val)
                  \/ Joined'[p].val \in OnPath /\ Joined'[p].val # g
             /\ \A n \in 1..(level - 1) : entries'[Place(n)] = filled[Place(n)]
  <2>1. entries' = Folded(filled, q, g) /\ free' = tbl8_put(g)
    BY <1>2, <1>16
  <2>2. \A p \in Places : entries'[p] = IF p = q THEN filled[<<g, 0>>]
                                        ELSE IF p[1] = g THEN Leaf(0) ELSE filled[p]
    BY <2>1 DEF Folded
  <2>3. /\ 0 \in Slots
        /\ \A h \in Groups, s \in Slots : <<h, s>> \in Places /\ <<h, s>>[1] = h
        /\ ~Leaf(0).ext
    BY Sizes DEF Places, Leaf
  <2>4. \A s \in Slots : F[<<g, s>>] = filled[<<g, s>>]
    BY <1>4, <1>11, <2>3
  <2>5. Uniform(F, g) /\ ~F[<<g, 0>>].ext
    BY <1>16, <2>3, <2>4 DEF Recyclable, Uniform
  <2>6. Joined'[q] = F[<<g, 0>>]
    BY <1>4, <1>13, <1>14, <2>2, <2>3, <2>4
  <2>7. \A p \in Places : p[1] = g => Joined'[p] = Leaf(0)
    BY <1>11, <1>13, <1>14, <2>2
  <2>8. \A p \in Places : p # q /\ p[1] # g => Joined'[p] = F[p]
    BY <1>12, <1>13, <2>2
  <2>9. F[q] = Link(g)
    <3>1. q \notin {g} \X T
      BY <1>6
    <3> QED BY <1>4, <1>8, <3>1
  <2>10. ASSUME NEW p \in Places, F[p].ext, F[p].val = g PROVE p = q
    <3>1. ~e.ext /\ Link(g).ext /\ Link(g).val = g
      BY DEF e, Leaf, Link
    <3>2. F[p] = Joined[p]
      BY <1>8, <2>10, <3>1
    <3> QED BY <1>2, <1>4, <2>10, <3>1, <3>2 DEF OneLinkIn
  <2>11. FoldsTo(F, Joined', q, g)
    BY <1>4, <1>6, <2>5, <2>6, <2>8, <2>9, <2>10 DEF FoldsTo
  <2>12. ASSUME NEW p \in Places, Joined'[p].ext
         PROVE  \/ ~Uniform(Joined', Joined'[p].val)
                \/ Joined'[p].val \in OnPath /\ Joined'[p].val # g
    <3>1. p # q /\ p[1] # g /\ Joined'[p] = F[p]
      BY <2>3, <2>5, <2>6, <2>7, <2>8, <2>12
    <3> DEFINE h == F[p].val
    <3>2. h # g /\ h \in Groups
      BY <1>9, <2>10, <2>12, <3>1 DEF IsTables
    <3>3. ~Uniform(F, h) \/ h \in OnPath
      <4>1. F[p].ext /\ op.pc # "recycle"
        BY <1>2, <2>12, <3>1
      <4>2. \A x \in Places : F[x].ext => ~Uniform(F, F[x].val) \/ F[x].val \in OnPath
        BY <1>8, <4>1, WriteVaried
      <4> QED BY <4>1, <4>2
    <3>4. h \notin OnPath => h # q[1]
      <4>1. level # 1 => level \in 2..Level
        BY <1>3
      <4>2. q[1] = op.path[level] /\ op.path[1] = tbl24
        BY <1>4, Walking DEF Place
      <4>3. h # tbl24
        BY <3>2, Sizes
      <4> QED BY <4>1, <4>2, <4>3 DEF OnPath, Level
    <3> HIDE DEF h
    <3>5. h \notin OnPath => ~Uniform(Joined', h)
      <4> SUFFICES ASSUME h \notin OnPath PROVE ~Uniform(Joined', h)
        OBVIOUS
      <4>1. \A s \in Slots : Joined'[<<h, s>>] = F[<<h, s>>]
        <5> TAKE s \in Slots
        <5>1. <<h, s>> \in Places /\ <<h, s>>[1] = h
          BY <2>3, <3>2
        <5> QED BY <2>8, <3>2, <3>4, <5>1
      <4> QED BY <2>3, <3>3, <4>1 DEF Uniform
    <3> QED BY <3>1, <3>2, <3>5 DEF h
  <2>13. \A n \in 1..(level - 1) : entries'[Place(n)] = filled[Place(n)]
    BY <1>3, <1>5, <2>2
  <2> QED BY <2>1, <2>11, <2>12, <2>13
<1>17. /\ \/ Joined' = F /\ free' = free
          \/ \E r, h : FoldsTo(F, Joined', r, h) /\ free' = tbl8_put(h)
       /\ \A p \in Places : Joined'[p].ext =>
            \/ ~Uniform(Joined', Joined'[p].val)
            \/ Joined'[p].val \in OnPath /\ Joined'[p].val # g
       /\ \A n \in 1..(level - 1) : entries'[Place(n)] = filled[Place(n)]
  <2>1. CASE ~Recyclable(filled, g)
    BY <1>15, <2>1
  <2>2. CASE Recyclable(filled, g)
    BY <1>16, <2>2
  <2> QED BY <2>1, <2>2
<1>18. /\ Agreed' /\ Leafy(Joined') /\ NoneLost'
       /\ \A ip \in Address :
            /\ HopIn(Joined', ip) = IF Target(ip, T) THEN op.hop ELSE HopIn(Joined, ip)
            /\ Target(ip, T) => Within(ip) /\ Exposed(rib, op.key, ip)
            /\ ~Within(ip) => Expected(ip)' = Expected(ip)
  BY <1>1, <1>2, <1>8, <1>9, <1>17, WriteAnswers
<1>19. PathLinked' /\ OnEdge' /\ HiddenOld'
  <2>1. \A n \in 1..(level - 1) : entries'[Place(n)] = entries[Place(n)]
    <3> TAKE n \in 1..(level - 1)
    <3>1. Place(n) \in Places /\ Place(n)[1] # g
      BY <1>3, <1>5
    <3>2. Place(n) \notin {g} \X T
      BY <3>1
    <3> QED BY <1>7, <1>17, <3>1, <3>2
  <2> QED BY <1>1, <1>18, <2>1, MovedKeeps
<1>20. VariedGroups'
  <2>1. OnPath \ {g} \subseteq OnPath'
    <3>1. \A n \in 1..level : op'.path[n] = op.path[n]
      BY <1>1 DEF Moved
    <3>2. \A n \in 2..Level : n \in 2..level \/ op.path[n] = g
      BY <1>3
    <3>3. \A n \in 2..level : n \in 2..Level' /\ n \in 1..level
      BY <1>3
    <3>4. OnPath = {op.path[n] : n \in 2..Level} /\ OnPath' = {op'.path[n] : n \in 2..Level'}
      BY DEF OnPath, Level
    <3> QED BY <3>1, <3>2, <3>3, <3>4
  <2> QED BY <1>17, <2>1 DEF VariedGroups, Uniform, Places, Slots, Groups
<1>21. TrieOK'
  BY <1>18, <1>19, <1>20 DEF TrieOK, Leafy, Address, MAX_DEPTH
<1> QED BY <1>1, <1>18, <1>21 DEF Wrote

LEMMA BetweenAgrees ==
  ASSUME IndInv, AgreeInv, intact, WriteBetween
  PROVE  \E T : Wrote(T)
<1> PICK T : T = Gap
  OBVIOUS
<1>1. Writes(T) /\ IndInv'
  BY BetweenDone, WriteBetweenKeepsInv
<1>2. /\ JoinedOK /\ TrieOK /\ Level \in Nat \ {0} /\ op.pc = "between" /\ free' = free
      /\ entries' = Written({op.path[Level]} \X T, Leaf(op.hop)) /\ ~op.up
      /\ op' = [op EXCEPT !.pc = "redge"] /\ op \in Call /\ Level = Root /\ InGapOn /\ Busy
      /\ Level \in Depths
  BY <1>1, JoinedIs, Walking
  DEF AgreeInv, WriteBetween, Gap, Final, Writes, IndInv, Progress, OpOK, Edges, Busy
<1>3. op'.pc = "redge" /\ op'.path = op.path /\ op'.up = op.up
  BY <1>2 DEF Call
<1>4. GapShape /\ Root' = Root /\ Final' = Final /\ Level' = Level
  BY <1>2, <1>3, GapShaped, GapGoesOn DEF Level
<1>5. Open = {} /\ Open' = {} /\ Edge = op.ledge /\ Edge' = Final
  <2>1. Open' = IF op'.pc \in Edges THEN Root'..(Level' - 1) ELSE {}
    BY DEF Open
  <2>2. Edge' = IF op'.pc = "redge" THEN Final' ELSE op'.ledge
    BY DEF Edge, Final
  <2> QED BY <1>2, <1>3, <1>4, <2>1, <2>2 DEF Open, Edge, Edges
<1>6. \A n \in 1..(Level - 1) : /\ n \in 1..Level /\ Place(n) \in Places /\ Place(n)' = Place(n)
                                /\ Place(n)[1] # op.path[Level]
  <2> TAKE n \in 1..(Level - 1)
  <2>1. n \in 1..Level /\ Level \in 1..Level /\ n # Level
    BY <1>2
  <2>2. Place(n) \in Places /\ Place(n)[1] # op.path[Level]
    BY <1>2, <2>1 DEF JoinedOK, Place
  <2>3. get_idx(op.ledge, n) = get_idx(Final, n)
    <3> DEFINE m == Level - 1
    <3>1. m \in Depths /\ n \in 1..m
      BY <1>2, TableBytes
    <3> HIDE DEF m
    <3>2. Lead(op.ledge, m) = Lead(Final, m)
      BY <1>2, <1>4 DEF GapShape, m
    <3> QED BY <1>4, <3>1, <3>2, LeadOrder DEF GapShape
  <2>4. Place(n)' = <<op'.path[n], get_idx(Edge', n)>>
    BY DEF Place, get_idx, Byte
  <2> QED BY <1>3, <1>5, <2>1, <2>2, <2>3, <2>4 DEF Place
<1>7. \A p \in Places :
        Joined'[p] = IF p \in {op.path[Level]} \X T THEN Leaf(op.hop) ELSE Joined[p]
  <2>1. \A p \in Places : Joined'[p] = entries'[p]
    BY <1>1, <1>5, JoinedNextIs
  <2>2. \A p \in Places : Joined[p] = entries[p]
    BY <1>2, <1>5 DEF JoinedOK
  <2> QED BY <1>2, <2>1, <2>2 DEF Written
<1>8. /\ Agreed' /\ Leafy(Joined') /\ NoneLost'
      /\ \A ip \in Address :
           /\ HopIn(Joined', ip) = IF Target(ip, T) THEN op.hop ELSE HopIn(Joined, ip)
           /\ Target(ip, T) => Within(ip) /\ Exposed(rib, op.key, ip)
           /\ ~Within(ip) => Expected(ip)' = Expected(ip)
  <2>1. IsTables(Joined')
    BY <1>1, JoinedNextIs
  <2> QED BY <1>1, <1>2, <1>7, <2>1, WriteAnswers
<1>9. PathLinked'
  <2>1. \A n \in 1..(Level - 1) : entries'[Place(n)] = Link(op.path[n + 1])
    <3> TAKE n \in 1..(Level - 1)
    <3>1. entries[Place(n)] = Link(op.path[n + 1])
      BY <1>2, <1>5 DEF TrieOK, PathLinked
    <3>2. Place(n) \notin {op.path[Level]} \X T
      BY <1>6
    <3> QED BY <1>2, <1>6, <3>1, <3>2 DEF Written
  <2>2. \A n \in 1..(Level' - 1) : entries'[Place(n)'] = Link(op'.path[n + 1])
    BY <1>3, <1>4, <1>6, <2>1
  <2> QED BY <2>2 DEF PathLinked, Link
<1>10. OnEdge'
  <2>1. Level' <= BottomTable'
    BY <1>2, <1>4, BottomEdgeNext
  <2> QED BY <1>3, <2>1 DEF OnEdge
<1>11. HiddenOld'
  BY <1>5 DEF HiddenOld
<1>12. VariedGroups'
  <2>1. \A p \in Places : Joined'[p].ext =>
          ~Uniform(Joined', Joined'[p].val) \/ Joined'[p].val \in OnPath
    BY <1>2, <1>7, WriteVaried
  <2>2. OnPath' = OnPath
    BY <1>3, <1>4 DEF OnPath
  <2> QED BY <2>1, <2>2 DEF VariedGroups, Uniform, Places, Slots, Groups
<1>13. TrieOK'
  BY <1>8, <1>9, <1>10, <1>11, <1>12 DEF TrieOK, Leafy, Address, MAX_DEPTH
<1> QED BY <1>1, <1>8, <1>13 DEF Wrote

-----------------------------------------------------------------------------
(* Back to tbl24 *)

\* A step back, or the end of the gap.
LEMMA RecycleMoves ==
  ASSUME IndInv, AgreeInv, RecycleRoot
  PROVE  /\ Continued /\ Busy /\ GapOK' /\ CallOK' /\ RoutesOK(rib') /\ Level' \in 1..Level
         /\ \A n \in 1..Level' : op'.path[n] = op.path[n] /\ (op'.pc # "gap" => Place(n)' = Place(n))
         /\ IF Level > 1 THEN op'.pc = "recycle" /\ InGapOn /\ Level' = Level - 1 ELSE op'.pc = "gap"
         /\ \A ip \in Address : Done(ip)' <=> Done(ip)
<1>1. /\ op \in Call /\ op.pc = "recycle" /\ op.up = FALSE /\ op.path \in Seq(Groups \cup {tbl24})
      /\ Level \in Nat \ {0} /\ UNCHANGED Local /\ intact' = intact /\ Edge = op.ledge
  BY Walking DEF RecycleRoot, IndInv, OpOK, Progress, Edges, Edge
<1>2. /\ CallOK /\ GapOK /\ InGap /\ Busy /\ GapShape /\ RoutesOK(rib)
  BY <1>1, GapShaped DEF AgreeInv, GapOK, Busy
<1>3. CASE Level > 1
  <2>1. op' = [op EXCEPT !.path = SubSeq(op.path, 1, Level - 1)]
    BY <1>3 DEF RecycleRoot, Front, Level
  <2>2. /\ SubSeq(op.path, 1, Level - 1) \in Seq(Groups \cup {tbl24})
        /\ Len(SubSeq(op.path, 1, Level - 1)) = Level - 1
        /\ \A n \in 1..(Level - 1) : SubSeq(op.path, 1, Level - 1)[n] = op.path[n]
    <3>1. \A n \in 1..(Level - 1) : op.path[n] \in Groups \cup {tbl24}
      BY <1>1, ElementOfSeq DEF Level
    <3>2. 1 \in Int /\ Level - 1 \in Int /\ 1 <= Level - 1
      BY <1>1, <1>3
    <3>3. Level - 1 - 1 + 1 = Level - 1
      BY <1>1
    <3> QED BY <3>1, <3>2, <3>3, SubSeqProperties
  <2>3. /\ op'.pc = "recycle" /\ op'.path = SubSeq(op.path, 1, Level - 1) /\ op'.up = FALSE
        /\ op'.ledge = op.ledge /\ op'.redge = op.redge /\ op'.key = op.key
        /\ op'.call = op.call /\ op'.hop = op.hop /\ op'.todo = op.todo /\ op'.last = op.last
    BY <1>1, <2>1 DEF Call
  <2>4. Level' = Level - 1
    BY <2>2, <2>3 DEF Level
  <2>5. InGapOn /\ Continued
    BY <1>1, <2>3 DEF InGapOn, Continued, Local
  <2>6. Edge' = op.ledge
    BY <2>3 DEF Edge
  <2>7. \A n \in 1..Level' : op'.path[n] = op.path[n] /\ Place(n)' = Place(n)
    BY <1>1, <2>2, <2>3, <2>4, <2>6 DEF Place, get_idx, Byte
  <2>8. \A ip \in Address : Done(ip)' <=> Done(ip)
    <3> TAKE ip \in Address
    <3>1. DoneIn(ip) /\ DoneIn(ip)'
      BY <1>1, <2>3, DoneNext DEF DoneIn
    <3>2. Within(ip)' <=> Within(ip)
      BY <1>2, <2>5, GapGoesOn
    <3>3. Done(ip)' <=> ip < op'.ledge \/ (Within(ip)' /\ DoneIn(ip)')
      BY <2>3, DoneNext
    <3> QED BY <1>1, <2>3, <3>1, <3>2, <3>3 DEF Done
  <2>9. GapOK' /\ CallOK' /\ RoutesOK(rib')
    BY <1>2, <2>5, GapGoesOn
  <2>10. Level' \in 1..Level
    BY <1>1, <1>3, <2>4
  <2> QED BY <1>2, <1>3, <2>3, <2>4, <2>5, <2>7, <2>8, <2>9, <2>10
<1>4. CASE ~(Level > 1)
  <2>1. op' = [op EXCEPT !.pc = "gap", !.ledge = op.redge]
    BY <1>4 DEF RecycleRoot
  <2>2. /\ op'.pc = "gap" /\ op'.path = op.path /\ op'.ledge = op.redge /\ op'.key = op.key
        /\ op'.call = op.call /\ op'.hop = op.hop /\ op'.todo = op.todo /\ op'.last = op.last
    BY <1>1, <2>1 DEF Call
  <2>3. Level' = Level /\ Continued
    BY <1>1, <2>2 DEF Level, Continued, Local
  <2>4. Pos(op.ledge)' = Pos(op.redge)
    BY <2>2 DEF Pos, MAX_DEPTH
  <2>5. /\ op.key.ip \in Nat /\ op.ledge \in Nat /\ Pos(op.redge) \in Nat
        /\ op.key.ip <= op.ledge /\ op.ledge < Pos(op.redge)
        /\ Pos(op.redge) <= Past(op.key)
    BY <1>2, KeyFacts DEF InGap
  <2>6. GapOK'
    <3>1. \A q \in Nearest(rib, op.key) \ op.todo : Past(q) <= Pos(op.redge)
      <4> TAKE q \in Nearest(rib, op.key) \ op.todo
      <4>1. Past(q) \in Nat
        BY <1>2, RouteFacts
      <4>2. Past(q) <= op.ledge
        BY <1>2 DEF InGap
      <4> QED BY <2>5, <4>1, <4>2
    <3>2. LET at == Pos(op.redge)
          IN  /\ op.key.ip <= at /\ at <= Past(op.key)
              /\ \A q \in op.todo : at <= q.ip
              /\ \A q \in Nearest(rib, op.key) \ op.todo : Past(q) <= at
              /\ op.last => at = Past(op.key)
      BY <1>2, <2>5, <3>1 DEF InGap
    <3>3. BetweenGaps'
      BY <2>2, <2>3, <2>4, <3>2 DEF BetweenGaps, Continued, Past, Size, MAX_DEPTH
    <3> QED BY <1>2, <2>2, <2>3, <3>3 DEF GapOK, Continued
  <2>7. CallOK' /\ RoutesOK(rib')
    BY <1>2, <2>3 DEF CallOK, Continued
  <2>8. \A ip \in Address : Done(ip)' <=> Done(ip)
    <3> TAKE ip \in Address
    <3>1. Done(ip)' <=> ip < Pos(op.redge)
      BY <2>2, <2>4, DoneNext
    <3>2. ip \in Nat
      BY DEF Address
    <3>3. Done(ip) <=> ip < op.ledge \/ Within(ip)
      BY <1>1 DEF Done, DoneIn
    <3>4. Within(ip) <=> op.ledge <= ip /\ ip < Pos(op.redge)
      BY DEF Within
    <3> QED BY <2>5, <3>1, <3>2, <3>3, <3>4
  <2>9. \A n \in 1..Level' : op'.path[n] = op.path[n]
    BY <2>2, <2>3
  <2>10. Level' \in 1..Level
    BY <1>1, <2>3
  <2> QED BY <1>2, <1>4, <2>2, <2>3, <2>6, <2>7, <2>8, <2>9, <2>10
<1> QED BY <1>3, <1>4

\* The effect on the tables: nothing, or the group behind the entry is folded.
LEMMA RecycleTables ==
  ASSUME IndInv, AgreeInv, intact, RecycleRoot
  PROVE  /\ Joined = entries /\ Joined' = entries' /\ Open' = {}
         /\ Here \in Places /\ IsTables(Joined) /\ IsTables(Joined')
         /\ \/ ~(Joined[Here].ext /\ Uniform(Joined, Joined[Here].val))
               /\ Joined' = Joined /\ free' = free
            \/ \E g \in Groups : FoldsTo(Joined, Joined', Here, g) /\ free' = tbl8_put(g)
<1>1. /\ JoinedOK /\ TrieOK /\ Level \in Nat \ {0} /\ op.pc = "recycle" /\ IndInv'
      /\ op'.pc \in {"recycle", "gap"}
  BY JoinedIs, Walking, RecycleMoves, RecycleRootKeepsInv DEF AgreeInv, RecycleRoot, InGapOn
<1>2. Open = {} /\ Open' = {}
  BY <1>1 DEF Open, Edges
<1>3. Here \in Places /\ IsTables(entries) /\ IsTables(Joined)
      /\ IsTables(entries') /\ IsTables(Joined')
  BY <1>1, JoinedNextIs DEF JoinedOK, Here
<1>4. Joined = entries
  <2>1. \A p \in Places : Joined[p] = entries[p]
    BY <1>1, <1>2 DEF JoinedOK
  <2> QED BY <1>3, <2>1 DEF IsTables
<1>5. Joined' = entries'
  <2>1. \A p \in Places : Joined'[p] = entries'[p]
    BY <1>1, <1>2, JoinedNextIs
  <2> QED BY <1>3, <2>1 DEF IsTables
<1> DEFINE e == entries[Here]
           g == e.val
<1>6. CASE ~(e.ext /\ Recyclable(entries, g))
  BY <1>2, <1>3, <1>4, <1>5, <1>6 DEF RecycleRoot, Recyclable, tables
<1>7. CASE e.ext /\ Recyclable(entries, g)
  <2>1. entries' = Folded(entries, Here, g) /\ free' = tbl8_put(g)
    BY <1>7 DEF RecycleRoot
  <2>2. g \in Groups
    BY <1>3, <1>7 DEF IsTables
  <2>3. entries[Here] = Link(g)
    <3>1. e \in [ext : BOOLEAN, val : Hops]
      BY <1>3 DEF IsTables
    <3> QED BY <1>7, <3>1 DEF Link
  <2>4. Here[1] # g
    <3>1. Level = 1 => Here[1] = tbl24
      BY Walking DEF Here, Place
    <3>2. Here[1] = op.path[Level] /\ (Level # 1 => Level \in 2..Level /\ Level - 1 \in 1..(Level - 1))
      BY <1>1 DEF Here, Place
    <3>3. ASSUME Here[1] = g, Level # 1 PROVE FALSE
      <4>1. Here = Place(Level - 1)
        BY <1>1, <1>3, <1>4, <1>7, <3>2, <3>3, OnPathPlace DEF TrieOK
      <4>2. Place(Level)[1] = Place(Level - 1)[1] /\ Level \in 1..Level /\ Level - 1 \in 1..Level
        BY <1>1, <3>3, <4>1 DEF Here
      <4>3. Level = Level - 1
        BY <1>1, <4>2 DEF JoinedOK
      <4> QED BY <1>1, <4>3
    <3> QED BY <2>2, <3>1, <3>3, Sizes
  <2>5. \A p \in Places : p # Here /\ p[1] # g => entries'[p] = entries[p]
    BY <2>1 DEF Folded
  <2>6. entries'[Here] = entries[<<g, 0>>]
    BY <1>3, <2>1 DEF Folded
  <2>7. \A p \in Places : entries[p].ext /\ entries[p].val = g => p = Here
    BY <1>1, <1>3, <1>4, <1>7 DEF JoinedOK, OneLinkIn
  <2> HIDE DEF e, g
  <2>8. FoldsTo(entries, entries', Here, g)
    BY <1>3, <1>7, <2>2, <2>3, <2>4, <2>5, <2>6, <2>7 DEF FoldsTo, Recyclable
  <2> QED BY <1>2, <1>3, <1>4, <1>5, <2>1, <2>2, <2>8
<1> QED BY <1>6, <1>7

LEMMA RecycleAgrees ==
  ASSUME IndInv, AgreeInv, intact, RecycleRoot
  PROVE  /\ TrieOK' /\ \A ip \in Address : HopIn(Joined', ip) = HopIn(Joined, ip)
<1>1. /\ JoinedOK /\ TrieOK /\ Level \in Nat \ {0} /\ op.pc = "recycle" /\ Open = {}
      /\ Level \in Depths /\ op.path[1] = tbl24
  BY JoinedIs, Walking DEF AgreeInv, RecycleRoot, Open, Edges
<1>2. /\ Continued /\ Busy /\ Level' \in 1..Level
      /\ \A n \in 1..Level' : op'.path[n] = op.path[n] /\ (op'.pc # "gap" => Place(n)' = Place(n))
      /\ IF Level > 1 THEN op'.pc = "recycle" /\ InGapOn /\ Level' = Level - 1 ELSE op'.pc = "gap"
      /\ \A ip \in Address : Done(ip)' <=> Done(ip)
  BY RecycleMoves
<1>3. /\ Joined = entries /\ Joined' = entries' /\ Open' = {}
      /\ Here \in Places /\ IsTables(Joined) /\ IsTables(Joined')
  BY RecycleTables
<1>4. \/ ~(Joined[Here].ext /\ Uniform(Joined, Joined[Here].val))
         /\ Joined' = Joined /\ free' = free
      \/ \E g \in Groups : FoldsTo(Joined, Joined', Here, g) /\ free' = tbl8_put(g)
  BY RecycleTables
<1>5. /\ \A ip \in Address : HopIn(Joined', ip) = HopIn(Joined, ip)
      /\ Leafy(Joined')
      /\ Range(free) \cup LinksIn(Joined) \subseteq Range(free') \cup LinksIn(Joined')
  <2>1. Leafy(Joined)
    BY <1>1 DEF TrieOK
  <2>2. CASE \E g \in Groups : FoldsTo(Joined, Joined', Here, g) /\ free' = tbl8_put(g)
    <3> PICK g \in Groups : FoldsTo(Joined, Joined', Here, g) /\ free' = tbl8_put(g)
      BY <2>2
    <3>1. /\ \A ip \in Address : HopIn(Joined', ip) = HopIn(Joined, ip)
          /\ Leafy(Joined')
          /\ LinksIn(Joined) \ {g} \subseteq LinksIn(Joined')
      BY <1>3, <2>1, FoldEffect
    <3>2. Range(free) \cup {g} \subseteq Range(free')
      BY RangeOfPut
    <3> QED BY <3>1, <3>2
  <2> QED BY <1>4, <2>1, <2>2
<1>6. Agreed'
  BY <1>2, <1>5, AnswersKept
<1>7. NoneLost'
  <2>1. Groups \subseteq Range(free) \cup LinksIn(Joined)
    BY <1>1 DEF TrieOK, NoneLost
  <2>2. Groups \subseteq Range(free') \cup LinksIn(Joined')
    BY <1>5, <2>1
  <2> QED BY <2>2 DEF NoneLost, Groups
<1>8. \A n \in 1..(Level - 1) : entries'[Place(n)] = entries[Place(n)]
  <2> TAKE n \in 1..(Level - 1)
  <2>1. n \in 1..Level /\ Level \in 1..Level /\ n # Level
    BY <1>1
  <2>2. Place(n) # Here /\ Place(n) \in Places
    BY <1>1, <2>1 DEF JoinedOK, Here
  <2>3. CASE \E g \in Groups : FoldsTo(Joined, Joined', Here, g) /\ free' = tbl8_put(g)
    <3> PICK g \in Groups : FoldsTo(Joined, Joined', Here, g)
      BY <2>3
    <3>1. ASSUME Place(n)[1] = g PROVE FALSE
      <4>1. n # 1
        BY <1>1, <3>1, Sizes DEF Place
      <4>2. n \in 2..Level /\ n - 1 \in 1..Level /\ n - 1 # Level
        BY <1>1, <2>1, <4>1
      <4>3. Joined[Here].ext /\ Joined[Here].val = op.path[n]
        BY <3>1 DEF FoldsTo, Link, Place
      <4>4. Here = Place(n - 1)
        BY <1>1, <1>3, <4>2, <4>3, OnPathPlace DEF TrieOK
      <4> QED BY <1>1, <2>1, <4>2, <4>4 DEF JoinedOK, Here
    <3>2. Joined'[Place(n)] = Joined[Place(n)]
      BY <2>2, <3>1 DEF FoldsTo
    <3> QED BY <1>3, <3>2
  <2> QED BY <1>3, <1>4, <2>3
<1>9. PathLinked'
  <2> SUFFICES ASSUME NEW n \in 1..(Level' - 1)
               PROVE  entries'[Place(n)'] = Link(op'.path[n + 1])
    BY DEF PathLinked, Link
  <2>1. /\ Level > 1 /\ Level' = Level - 1 /\ n \in 1..(Level - 1)
        /\ n \in 1..Level' /\ n + 1 \in 1..Level' /\ op'.pc # "gap"
    <3> PICK level \in 1..Level : level = Level'
      BY <1>2
    <3>1. n \in 1..(level - 1)
      OBVIOUS
    <3>2. Level > 1 /\ n \in 1..level /\ n + 1 \in 1..level
      <4>1. \A a \in Nat \ {0} : \A b \in 1..a : \A m \in 1..(b - 1) :
              a > 1 /\ m \in 1..b /\ m + 1 \in 1..b
        OBVIOUS
      <4>2. Level \in Nat \ {0} /\ level \in 1..Level
        BY <1>1
      <4> QED BY ONLY <3>1, <4>1, <4>2
    <3>3. op'.pc = "recycle" /\ Level' = Level - 1
      BY <1>2, <3>2
    <3> QED BY <1>1, <3>1, <3>2, <3>3
  <2>2. entries[Place(n)] = Link(op.path[n + 1])
    BY <1>1, <2>1 DEF TrieOK, PathLinked
  <2>3. Place(n)' = Place(n) /\ op'.path[n + 1] = op.path[n + 1]
    BY <1>2, <2>1
  <2> QED BY <1>8, <2>1, <2>2, <2>3
<1>10. OnEdge'
  <2>1. op'.pc \in {"recycle", "gap"}
    BY <1>2
  <2>2. op'.pc = "recycle" => Level' <= Root'
    <3> HAVE op'.pc = "recycle"
    <3>1. InGapOn /\ Level' = Level - 1
      BY <1>2
    <3>2. Root' = Root
      BY <1>2, <3>1, GapGoesOn
    <3>3. Level <= Root /\ Root \in Nat
      BY <1>1 DEF TrieOK, OnEdge, JoinedOK
    <3> QED BY <1>1, <3>1, <3>2, <3>3
  <2> QED BY <2>1, <2>2 DEF OnEdge, Edges
<1>11. HiddenOld'
  BY <1>3 DEF HiddenOld
<1>12. VariedGroups'
  <2> SUFFICES ASSUME NEW p \in Places, Joined'[p].ext
               PROVE  \/ ~Uniform(Joined', Joined'[p].val)
                      \/ Joined'[p].val \in OnPath'
                      \/ op'.pc = "recycle" /\ p = Here'
    BY DEF VariedGroups, Uniform, Places, Slots, Groups
  <2> DEFINE h == Joined'[p].val
  \* On the way, only the group that the step leaves is not on it any more.
  <2>1. ASSUME Joined[p].ext, Joined[p].val = h, h \in OnPath
        PROVE  h \in OnPath' \/ (op'.pc = "recycle" /\ p = Here')
    <3> PICK n \in 2..Level : h = op.path[n]
      BY <2>1 DEF OnPath, Level
    <3>1. Level > 1 /\ Level' = Level - 1 /\ op'.pc = "recycle"
      BY <1>1, <1>2
    <3>2. CASE n = Level
      <4>1. p = Place(Level - 1)
        BY <1>1, <1>3, <2>1, <3>2, OnPathPlace DEF TrieOK
      <4> PICK m : m = Level'
        OBVIOUS
      <4>2. m \in 1..Level' /\ m = Level - 1 /\ op'.pc # "gap"
        BY <1>1, <3>1
      <4>3. Place(m)' = Place(m)
        BY <1>2, <4>2
      <4>4. Here' = Place(m)'
        BY DEF Here, Place
      <4> QED BY <3>1, <4>1, <4>2, <4>3, <4>4
    <3>3. CASE n # Level
      <4>1. n \in 2..Level' /\ n \in 1..Level'
        BY <1>1, <3>1, <3>3
      <4>2. op'.path[n] = op.path[n]
        BY <1>2, <4>1
      <4> QED BY <4>1, <4>2 DEF OnPath, Level
    <3> QED BY <3>2, <3>3
  <2>2. Joined[p].ext => \/ ~Uniform(Joined, Joined[p].val)
                         \/ Joined[p].val \in OnPath
                         \/ p = Here
    BY <1>1 DEF TrieOK, VariedGroups
  <2>3. CASE ~(Joined[Here].ext /\ Uniform(Joined, Joined[Here].val)) /\ Joined' = Joined
    BY <2>1, <2>2, <2>3
  <2>4. CASE \E g \in Groups : FoldsTo(Joined, Joined', Here, g)
    <3> PICK g \in Groups : FoldsTo(Joined, Joined', Here, g)
      BY <2>4
    <3>1. p # Here
      BY DEF FoldsTo, Uniform
    <3>2. p[1] # g
      <4>1. ASSUME p[1] = g PROVE FALSE
        <5>1. entries' = Folded(entries, Here, g) \/ entries' = entries
          BY <1>3 DEF RecycleRoot, tables, FoldsTo, Link
        <5>2. entries' # entries
          <6>1. Joined'[Here] = Joined[<<g, 0>>] /\ Joined[Here].ext /\ ~Joined[<<g, 0>>].ext
            BY DEF FoldsTo, Uniform, Link
          <6> QED BY <1>3, <6>1
        <5>3. entries'[p] = Leaf(0)
          BY <3>1, <4>1, <5>1, <5>2 DEF Folded
        <5> QED BY <1>3, <5>3 DEF Leaf
      <4> QED BY <4>1
    <3>3. Joined'[p] = Joined[p]
      BY <3>1, <3>2 DEF FoldsTo
    <3>4. h # g /\ h \in Groups
      BY <1>3, <3>1, <3>3 DEF FoldsTo, IsTables
    <3>5. CASE h = op.path[Level]
      <4>1. Level # 1
        BY <1>1, <3>4, <3>5, Sizes
      <4>2. Level \in 2..Level
        BY <1>1, <4>1
      <4>3. OnPath = {op.path[n] : n \in 2..Level}
        BY DEF OnPath, Level
      <4>4. op.path[Level] \in OnPath
        BY <4>2, <4>3
      <4> QED BY <2>1, <3>3, <3>5, <4>4
    <3>6. CASE h # op.path[Level]
      <4> HIDE DEF h
      <4>1. \A s \in Slots : Joined'[<<h, s>>] = Joined[<<h, s>>]
        <5> TAKE s \in Slots
        <5>1. <<h, s>> \in Places /\ <<h, s>>[1] = h /\ Here[1] = op.path[Level]
          BY <3>4 DEF Places, Here, Place
        <5>2. <<h, s>> # Here
          BY <3>6, <5>1
        <5> QED BY <3>4, <5>1, <5>2 DEF FoldsTo
      <4>2. ~Uniform(Joined, h) => ~Uniform(Joined', h)
        BY <4>1, Sizes DEF Uniform
      <4> QED BY <2>1, <2>2, <3>1, <3>3, <4>2 DEF h
    <3> QED BY <3>5, <3>6
  <2> QED BY <1>4, <2>3, <2>4
<1>13. TrieOK'
  BY <1>5, <1>6, <1>7, <1>9, <1>10, <1>11, <1>12 DEF TrieOK, Leafy, Address, MAX_DEPTH
<1> QED BY <1>5, <1>13

-----------------------------------------------------------------------------
(* Between two gaps *)

\* At tbl24 the tables and what is said of them are the same.
LEMMA TopKept ==
  ASSUME IndInv, AgreeInv, intact, IndInv', UNCHANGED tables, op.pc \in {"idle", "gap"},
         op'.pc \in {"idle", "gap", "root", "ledge"}, Level' = 1
  PROVE  /\ Joined' = Joined
         /\ PathLinked' /\ OnEdge' /\ HiddenOld' /\ VariedGroups' /\ NoneLost' /\ Leafy(Joined')
<1>1. JoinedOK /\ TrieOK /\ Level = 1
  BY JoinedIs DEF AgreeInv, IndInv, Progress
<1>2. Open = {}
  BY DEF Open, Edges
<1>3. Open' = {}
  <2>1. Open' \subseteq 1..(Level' - 1)
    BY JoinedNextIs
  <2> QED BY <2>1
<1>4. Joined' = Joined
  <2>1. \A p \in Places : Joined[p] = entries[p]
    BY <1>1, <1>2 DEF JoinedOK
  <2>2. \A p \in Places : Joined'[p] = entries'[p]
    BY <1>3, JoinedNextIs
  <2>3. IsTables(Joined) /\ IsTables(Joined')
    BY <1>1, JoinedNextIs DEF JoinedOK
  <2> QED BY <2>1, <2>2, <2>3 DEF IsTables, tables
<1>5. PathLinked' /\ HiddenOld'
  <2>1. \A n \in 1..(Level' - 1) : FALSE
    OBVIOUS
  <2> QED BY <1>3, <2>1 DEF PathLinked, HiddenOld
<1>6. OnEdge'
  <2>1. Level' <= BottomTable'
    <3>1. BottomTable' >= Root' /\ BottomTable' \in Int
      BY BottomEdgeNext
    <3>2. Root' \in Depths
      BY RootTableRange DEF Root
    <3>3. Root' \in Int /\ Root' >= 1
      BY <3>2, TableBytes
    <3> QED BY <3>1, <3>3
  <2> QED BY <2>1 DEF OnEdge, Edges
<1>7. VariedGroups'
  <2>1. OnPath = {} /\ OnPath' = {}
    BY <1>1 DEF OnPath, Level
  <2>2. \A p \in Places : Joined[p].ext => ~Uniform(Joined, Joined[p].val)
    BY <1>1, <2>1 DEF TrieOK, VariedGroups
  <2> QED BY <1>4, <2>2 DEF VariedGroups, Uniform, Places, Slots, Groups
<1>8. NoneLost' /\ Leafy(Joined')
  BY <1>1, <1>4 DEF TrieOK, NoneLost, Groups, tables
<1> QED BY <1>4, <1>5, <1>6, <1>7, <1>8

\* A step between two gaps.
LEMMA GapStep ==
  ASSUME IndInv, AgreeInv, intact, IndInv', UNCHANGED tables, op.pc = "gap", Continued,
         op'.pc \in {"gap", "root", "ledge"}, Level' = 1,
         \A ip \in Address : Exposed(rib, op.key, ip) => (Done(ip)' <=> Done(ip))
  PROVE  TrieOK' /\ Joined' = Joined
<1>1. /\ Joined' = Joined
      /\ PathLinked' /\ OnEdge' /\ HiddenOld' /\ VariedGroups' /\ NoneLost' /\ Leafy(Joined')
  BY TopKept
<1>2. Busy /\ \A ip \in Address : HopIn(Joined', ip) = HopIn(Joined, ip)
  BY <1>1 DEF Busy
<1>3. Agreed'
  BY <1>2, AnswersKept
<1> QED BY <1>1, <1>3 DEF TrieOK, Leafy, Address, MAX_DEPTH

\* A place is behind the addresses that come before it.
LEMMA PlacesApart ==
  ASSUME IndInv, RoutesOK(rib), CallOK, NEW r \in Address, op.ledge # r,
         Pos(op.ledge) <= Pos(r), Pos(r) <= Past(op.key)
  PROVE  Pos(op.ledge) = op.ledge /\ op.ledge < Pos(r)
<1>1. /\ op.ledge \in Nat /\ r \in Nat /\ op.ledge < 2 ^ MAX_DEPTH /\ r < 2 ^ MAX_DEPTH
      /\ 2 ^ MAX_DEPTH \in Nat /\ Past(op.key) <= 2 ^ MAX_DEPTH /\ Past(op.key) \in Nat
  BY KeyFacts DEF Address
<1> QED BY <1>1 DEF Pos

LEMMA GapBegins ==
  ASSUME IndInv, AgreeInv, op.pc = "gap", NEW r \in Address, NEW last \in BOOLEAN,
         op' = Install(op.ledge, r, last), UNCHANGED <<Local, tables, intact>>,
         op.ledge # r, Pos(op.ledge) <= Pos(r),
         Pos(r) <= Past(op.key), \A q \in op.todo : Pos(r) <= q.ip,
         last => op.todo = {} /\ Pos(r) = Past(op.key)
  PROVE  /\ GapOK' /\ Continued /\ op'.pc \in {"gap", "root", "ledge"} /\ Level' = Level
         /\ \A ip \in Address : Done(ip)' <=> Done(ip)
<1>1. /\ RoutesOK(rib) /\ CallOK /\ BetweenGaps /\ op.todo \subseteq Nearest(rib, op.key)
      /\ op \in Call /\ op.up = FALSE
  BY DEF AgreeInv, GapOK, Busy, IndInv, OpOK, Progress, Edges, Call
<1>2. Pos(op.ledge) = op.ledge /\ op.ledge < Pos(r)
  BY <1>1, PlacesApart
<1>3. /\ op'.pc \in {"ledge", "root"} /\ op'.redge = r /\ op'.last = last
      /\ op'.ledge = op.ledge /\ op'.todo = op.todo /\ op'.key = op.key /\ op'.call = op.call
      /\ op'.hop = op.hop /\ op'.path = op.path /\ op'.up = FALSE
  BY <1>1 DEF Install, Call
<1>4. Continued /\ Level' = Level
  BY <1>3 DEF Continued, Local, Level
<1>5. GapOK'
  <2>1. Pos(op.redge)' = Pos(r)
    BY <1>3 DEF Pos, MAX_DEPTH
  <2>2. LET end == Pos(r)
        IN  /\ op.key.ip <= op.ledge /\ op.ledge < end /\ end <= Past(op.key)
            /\ \A q \in op.todo : end <= q.ip
            /\ \A q \in Nearest(rib, op.key) \ op.todo : Past(q) <= op.ledge
            /\ last => end = Past(op.key)
    BY <1>1, <1>2 DEF BetweenGaps
  <2>3. InGap'
    BY <1>3, <1>4, <2>1, <2>2 DEF InGap, Continued, Past, Size, MAX_DEPTH
  <2> QED BY <1>1, <1>3, <1>4, <2>3 DEF GapOK, Continued
<1>6. \A ip \in Address : Done(ip)' <=> Done(ip)
  <2> TAKE ip \in Address
  <2>1. ~DoneIn(ip)'
    BY <1>3, DoneNext
  <2>2. Done(ip)' <=> ip < op'.ledge \/ (Within(ip)' /\ DoneIn(ip)')
    BY <1>3, DoneNext
  <2> QED BY <1>2, <1>3, <2>1, <2>2 DEF Done
<1> QED BY <1>3, <1>4, <1>5, <1>6

LEMMA NextGapAgrees ==
  ASSUME IndInv, AgreeInv, NextGap
  PROVE  /\ GapOK' /\ Continued /\ op'.pc \in {"gap", "root", "ledge"} /\ Level' = Level
         /\ \A ip \in Address : Exposed(rib, op.key, ip) => (Done(ip)' <=> Done(ip))
<1> DEFINE q == First(op.todo)
<1>1. /\ op.pc = "gap" /\ ~op.last /\ op.todo # {} /\ UNCHANGED <<Local, tables, intact>>
      /\ op' = IF op.ledge = q.ip
               THEN [op EXCEPT !.ledge = get_nxt_net(q), !.todo = op.todo \ {q}]
               ELSE Install(op.ledge, q.ip, FALSE)
  BY DEF NextGap, After
<1>2. /\ RoutesOK(rib) /\ CallOK /\ BetweenGaps /\ op.todo \subseteq Nearest(rib, op.key)
      /\ Busy /\ op \in Call
  BY <1>1 DEF AgreeInv, GapOK, Busy, IndInv, OpOK
<1>3. op.todo \in SUBSET Network
  BY <1>2 DEF Call
<1>4. q \in op.todo /\ \A r \in op.todo : q.ip <= r.ip
  BY <1>1, <1>3, FirstIsLowest
<1> HIDE DEF q
<1>5. q \in Nearest(rib, op.key)
  BY <1>2, <1>4
<1>6. /\ IsMasked(q) /\ q.ip \in Nat /\ Past(q) \in Nat /\ q.ip < Past(q)
      /\ op.key.ip <= q.ip /\ Past(q) <= Past(op.key)
      /\ Pos(q.ip) = q.ip /\ Pos(get_nxt_net(q)) = Past(q)
  BY <1>2, <1>5, RouteFacts
<1>7. CASE op.ledge = q.ip
  <2>1. /\ op'.pc = "gap" /\ op'.ledge = get_nxt_net(q) /\ op'.todo = op.todo \ {q}
        /\ op'.last = FALSE /\ op'.key = op.key /\ op'.call = op.call /\ op'.hop = op.hop
        /\ op'.path = op.path
    BY <1>1, <1>2, <1>7 DEF Call
  <2>2. Continued /\ Level' = Level
    BY <1>1, <2>1 DEF Continued, Local, Level
  <2>3. Pos(op.ledge)' = Past(q)
    <3>1. Pos(op.ledge)' = IF op'.ledge = 0 /\ op'.key.ip # 0 THEN 2 ^ MAX_DEPTH ELSE op'.ledge
      BY DEF Pos, MAX_DEPTH
    <3> QED BY <1>6, <2>1, <3>1 DEF Pos
  <2>4. op.key.ip \in Nat /\ Past(op.key) \in Nat
    BY <1>2, KeyFacts
  <2>5. ASSUME NEW r \in op.todo \ {q} PROVE Past(q) <= r.ip
    <3>1. IsMasked(r) /\ ~Inside(r, q) /\ ~Inside(q, r) /\ q.ip <= r.ip
      BY <1>2, <1>4, <1>5, NearestApart DEF CallOK
    <3> QED BY <1>6, <2>5, <3>1, ApartInOrder
  <2>6. ASSUME NEW r \in Nearest(rib, op.key) \ (op.todo \ {q}) PROVE Past(r) <= Past(q)
    <3>1. CASE r = q
      BY <1>6, <3>1
    <3>2. CASE r # q
      <4>1. Past(r) <= Pos(op.ledge) /\ Past(r) \in Nat /\ Pos(op.ledge) = q.ip
        BY <1>2, <1>6, <1>7, <2>6, <3>2, RouteFacts DEF BetweenGaps
      <4> QED BY <1>6, <4>1
    <3> QED BY <3>1, <3>2
  <2>7. GapOK'
    <3>1. op.key.ip <= Past(q)
      BY <1>6, <2>4
    <3>2. LET at == Past(q)
          IN  /\ op.key.ip <= at /\ at <= Past(op.key)
              /\ \A r \in op.todo \ {q} : at <= r.ip
              /\ \A r \in Nearest(rib, op.key) \ (op.todo \ {q}) : Past(r) <= at
      BY <1>6, <2>5, <2>6, <3>1
    <3>3. BetweenGaps'
      BY <2>1, <2>2, <2>3, <3>2 DEF BetweenGaps, Continued, Past, Size, MAX_DEPTH
    <3> QED BY <1>2, <2>1, <2>2, <3>3 DEF GapOK, Continued
  <2>8. ASSUME NEW ip \in Address, Exposed(rib, op.key, ip) PROVE Done(ip)' <=> Done(ip)
    <3>1. Done(ip) <=> ip < q.ip
      BY <1>1, <1>6, <1>7 DEF Done
    <3>2. Done(ip)' <=> ip < Past(q)
      BY <2>1, <2>3, DoneNext
    <3>3. ~Holds(q, ip)
      BY <1>2, <1>5, <2>8, ExposedByNearest DEF CallOK
    <3>4. ~(q.ip <= ip /\ ip < Past(q)) /\ ip \in Nat
      BY <1>6, <3>3, HoldsInterval DEF Address
    <3> QED BY <1>6, <3>1, <3>2, <3>4
  <2> QED BY <2>1, <2>2, <2>7, <2>8
<1>8. CASE op.ledge # q.ip
  <2>1. op' = Install(op.ledge, q.ip, FALSE)
    BY <1>1, <1>8
  <2>2. q.ip \in Address /\ Past(op.key) \in Nat /\ Pos(op.ledge) <= q.ip
    <3>1. q.ip \in Address /\ Past(op.key) \in Nat
      BY <1>2, <1>6, KeyFacts DEF IsMasked, Network
    <3>2. Pos(op.ledge) <= q.ip
      BY <1>2, <1>4 DEF BetweenGaps
    <3> QED BY <3>1, <3>2
  <2>3. Pos(q.ip) <= Past(op.key)
    BY <1>6, <2>2
  <2> QED BY <1>1, <1>4, <1>6, <1>8, <2>1, <2>2, <2>3, GapBegins
<1> QED BY <1>7, <1>8

LEMMA LastGapAgrees ==
  ASSUME IndInv, AgreeInv, LastGap
  PROVE  /\ GapOK' /\ Continued /\ op'.pc \in {"gap", "root", "ledge"} /\ Level' = Level
         /\ \A ip \in Address : Done(ip)' <=> Done(ip)
<1> DEFINE end == End(op.key)
<1>1. /\ op.pc = "gap" /\ ~op.last /\ op.todo = {} /\ UNCHANGED <<Local, tables, intact>>
      /\ op' = IF op.ledge = end THEN [op EXCEPT !.last = TRUE]
                                 ELSE Install(op.ledge, end, TRUE)
  BY DEF LastGap, get_nxt_net
<1>2. /\ RoutesOK(rib) /\ CallOK /\ BetweenGaps /\ Busy /\ op \in Call
      /\ op.todo \subseteq Nearest(rib, op.key)
  BY <1>1 DEF AgreeInv, GapOK, Busy, IndInv, OpOK
<1>3. Pos(end) = Past(op.key) /\ end \in Address /\ Past(op.key) \in Nat
  BY <1>2, KeyFacts, EndAddress DEF Call
<1> HIDE DEF end
<1>4. CASE op.ledge = end
  <2>1. /\ op'.pc = "gap" /\ op'.ledge = op.ledge /\ op'.todo = op.todo /\ op'.path = op.path
        /\ op'.last = TRUE /\ op'.key = op.key /\ op'.call = op.call /\ op'.hop = op.hop
    BY <1>1, <1>2, <1>4 DEF Call
  <2>2. Continued /\ Level' = Level
    BY <1>1, <2>1 DEF Continued, Local, Level
  <2>3. Pos(op.ledge)' = Pos(op.ledge)
    BY <2>1 DEF Pos, MAX_DEPTH
  <2>4. GapOK'
    <3>1. Pos(op.ledge) = Past(op.key)
      BY <1>3, <1>4
    <3>2. BetweenGaps'
      BY <1>2, <2>1, <2>2, <2>3, <3>1 DEF BetweenGaps, Continued, Past, Size, MAX_DEPTH
    <3> QED BY <1>1, <1>2, <2>1, <2>2, <3>2 DEF GapOK, Continued
  <2>5. \A ip \in Address : Done(ip)' <=> Done(ip)
    BY <1>1, <2>1, <2>3, DoneNext DEF Done
  <2> QED BY <2>1, <2>2, <2>4, <2>5
<1>5. CASE op.ledge # end
  <2>1. Pos(op.ledge) <= Pos(end) /\ Pos(end) <= Past(op.key)
    BY <1>2, <1>3 DEF BetweenGaps
  <2>2. op' = Install(op.ledge, end, TRUE)
    BY <1>1, <1>5
  <2> QED BY <1>1, <1>3, <1>5, <2>1, <2>2, GapBegins
<1> QED BY <1>4, <1>5

-----------------------------------------------------------------------------
(* Calls *)

\* trie.c writes a route of depth 0 from address 0 to address 0, which is no
\* gap: modify_dp writes nothing, and the tables disagree with the RIB.
NoDefaultRoute == \A r \in Routes : r.depth # 0

LEMMA CallStarts ==
  ASSUME IndInv, AgreeInv, IndInv', op.pc = "idle", type = "TRIE",
         NEW key, IsMasked(key), key.depth # 0, NEW hop, NEW diff,
         NEW call \in {"add", "change", "delete"},
         modify_dp(call, key, hop, diff), DifferIn(rib, rib', key), key \in DOMAIN rib',
         call = "add" => key \notin DOMAIN rib /\ rib'[key] = hop,
         call # "add" => rib' = rib,
         call = "delete" => hop = ParentHop(rib, key)
  PROVE  AgreeInv'
<1>1. /\ op'.pc = "gap" /\ op'.call = call /\ op'.key = key /\ op'.hop = hop
      /\ op'.ledge = key.ip /\ op'.todo = Nearest(rib, key) /\ op'.last = FALSE
      /\ op'.path = <<tbl24>> /\ UNCHANGED tables /\ intact' = intact /\ type' = type
      /\ Level' = 1
  BY DEF modify_dp, Idle, Level
<1>2. /\ RoutesOK(rib) /\ RoutesOK(rib') /\ key.depth \in Int /\ key.ip \in Nat
      /\ key.ip \in Address
  BY DepthsAreNaturals DEF DifferIn, IsMasked, Network, Address
<1>3. /\ Nearest(rib, key) = Nearest(rib', key)
      /\ ParentHop(rib, key) = ParentHop(rib', key)
      /\ \A ip : Exposed(rib, key, ip) <=> Exposed(rib', key, ip)
  BY <1>2, AroundKept DEF DifferIn
<1>4. CallOK'
  BY <1>1, <1>3 DEF CallOK
<1>5. Pos(op.ledge)' = key.ip
  <2>1. Pos(op.ledge)' = IF op'.ledge = 0 /\ op'.key.ip # 0 THEN 2 ^ MAX_DEPTH ELSE op'.ledge
    BY DEF Pos, MAX_DEPTH
  <2> QED BY <1>1, <2>1
<1>6. GapOK'
  <2>1. key.ip < Past(key) /\ Past(key) \in Nat
    BY <1>2, HoldsInterval DEF Past
  <2>2. \A q \in Nearest(rib', key) : key.ip <= q.ip
    BY <1>2, NearestApart
  <2>3. Past(op.key)' = Past(key) /\ Nearest(rib, op.key)' = Nearest(rib', key)
    BY <1>1 DEF Past, Size, MAX_DEPTH
  <2>4. LET at == key.ip
        IN  /\ key.ip <= at /\ at <= Past(key)
            /\ \A q \in Nearest(rib, key) : at <= q.ip
            /\ \A q \in Nearest(rib', key) \ Nearest(rib, key) : Past(q) <= at
    BY <1>2, <1>3, <2>1, <2>2
  <2>5. BetweenGaps'
    BY <1>1, <1>5, <2>3, <2>4 DEF BetweenGaps, Past, Size, MAX_DEPTH
  <2> QED BY <1>1, <1>3, <2>3, <2>5 DEF GapOK
<1>7. ASSUME intact PROVE TrieOK'
  <2>1. /\ Joined' = Joined
        /\ PathLinked' /\ OnEdge' /\ HiddenOld' /\ VariedGroups' /\ NoneLost' /\ Leafy(Joined')
    BY <1>1, <1>7, TopKept
  <2>2. Agreed'
    <3> SUFFICES ASSUME NEW ip \in Address PROVE HopIn(Joined', ip) = Expected(ip)'
      BY DEF Agreed, Address, MAX_DEPTH
    <3>1. HopIn(Joined', ip) = RibHop(rib, ip)
      BY <1>7, <2>1 DEF AgreeInv, TrieOK, Agreed, Expected
    <3>2. Expected(ip)' = IF ~Exposed(rib', key, ip) THEN RibHop(rib', ip)
                          ELSE IF Done(ip)' THEN hop ELSE Old'
      BY <1>1 DEF Expected
    <3>3. CASE ~Exposed(rib', key, ip)
      BY <1>2, <1>3, <3>1, <3>2, <3>3, CoveredHop DEF DifferIn
    <3>4. CASE Exposed(rib', key, ip)
      <4>1. ~Done(ip)'
        <5>1. Done(ip)' <=> ip < key.ip
          BY <1>1, <1>5, DoneNext
        <5>2. key.ip <= ip /\ ip \in Nat
          BY <3>4, HoldsInterval DEF Exposed, Address
        <5> QED BY <1>2, <5>1, <5>2
      <4>2. Old' = IF call = "add" THEN ParentHop(rib', key) ELSE rib'[key]
        BY <1>1 DEF Old
      <4>3. RibHop(rib, ip) = IF key \in DOMAIN rib THEN rib[key] ELSE ParentHop(rib, key)
        BY <1>2, <1>3, <3>4, ExposedHop
      <4> QED BY <1>3, <3>1, <3>2, <3>4, <4>1, <4>2, <4>3
    <3> QED BY <3>3, <3>4
  <2> QED BY <2>1, <2>2 DEF TrieOK, Leafy, Address, MAX_DEPTH
<1> QED BY <1>1, <1>2, <1>4, <1>6, <1>7 DEF AgreeInv

\* A call that returns without a write.
LEMMA ReturnsAgree ==
  ASSUME IndInv, AgreeInv, IndInv', op.pc = "idle", UNCHANGED <<type, tables, op>>,
         intact' => intact, RoutesOK(rib'),
         type = "TRIE" => \A ip \in Address : RibHop(rib', ip) = RibHop(rib, ip)
  PROVE  AgreeInv'
<1>1. ASSUME intact' PROVE TrieOK'
  <2>1. intact /\ op'.pc = "idle" /\ Level' = 1
    BY <1>1 DEF IndInv, Progress, Level
  <2>2. /\ Joined' = Joined
        /\ PathLinked' /\ OnEdge' /\ HiddenOld' /\ VariedGroups' /\ NoneLost' /\ Leafy(Joined')
    BY <2>1, TopKept
  <2>3. Agreed'
    <3> SUFFICES ASSUME type = "TRIE", NEW ip \in Address
                 PROVE  HopIn(Joined', ip) = Expected(ip)'
      BY DEF Agreed, Address, MAX_DEPTH
    <3>1. Expected(ip)' = RibHop(rib', ip) /\ Expected(ip) = RibHop(rib, ip)
      BY <2>1 DEF Expected
    <3> QED BY <2>1, <2>2, <3>1 DEF AgreeInv, TrieOK, Agreed
  <2> QED BY <2>2, <2>3 DEF TrieOK, Leafy, Address, MAX_DEPTH
<1>2. ~Busy' /\ op'.pc # "failed"
  BY DEF Busy
<1> QED BY <1>1, <1>2 DEF AgreeInv

LEMMA RouteMasked ==
  ASSUME NoDefaultRoute, NEW r \in Routes, r.depth <= MAX_DEPTH
  PROVE  IsMasked(Masked(r)) /\ Masked(r).depth # 0
<1>1. r.ip \in Address /\ r.depth \in 0..MAX_DEPTH /\ r.depth # 0
  BY FibTrieAssumption, DepthsAreNaturals DEF NoDefaultRoute
<1> QED BY <1>1, MaskedRoute

LEMMA AddAgrees ==
  ASSUME NoDefaultRoute, IndInv, AgreeInv, NEW r \in Routes, NEW hop \in NextHops,
         rte_fib6_add(r, hop)
  PROVE  AgreeInv'
<1> DEFINE key == Masked(r)
<1>1. op.pc = "idle" /\ r.depth <= MAX_DEPTH /\ RoutesOK(rib) /\ IndInv'
  BY AddKeepsInv DEF rte_fib6_add, dummy_add, AddSame, Change, AddRefused, Add, Called, AgreeInv
<1>2. IsMasked(key) /\ key.depth # 0
  BY <1>1, RouteMasked
<1> HIDE DEF key
<1>3. ASSUME rib' = rib, UNCHANGED <<type, tables, op>>, intact' => intact PROVE AgreeInv'
  BY <1>1, <1>3, ReturnsAgree
<1>4. DifferIn(rib, WithRule(rib, key, hop), key)
  BY <1>1, <1>2, RuleDiffers
<1>5. /\ key \in DOMAIN WithRule(rib, key, hop) /\ WithRule(rib, key, hop)[key] = hop
  BY DEF WithRule
<1>6. CASE dummy_add(r, hop)
  <2>1. CASE NoNode(r)
    BY <1>3, <2>1 DEF NoNode, Return
  <2>2. CASE ~NoNode(r)
    <3>1. /\ rib' = WithRule(rib, key, hop) /\ type = "DUMMY"
          /\ UNCHANGED <<type, tables, op, intact>>
      BY <1>6, <2>2 DEF dummy_add, Called, Return, key
    <3> QED BY <1>1, <1>4, <3>1, ReturnsAgree DEF DifferIn
  <2> QED BY <2>1, <2>2
<1>7. CASE AddSame(r, hop) \/ AddRefused(r, hop)
  <2>1. rib' = rib /\ UNCHANGED <<type, tables, op>> /\ (intact' => intact)
    <3>1. CASE AddSame(r, hop)
      BY <3>1 DEF AddSame
    <3>2. CASE AddRefused(r, hop)
      BY <3>2 DEF AddRefused, NoNode, Return
    <3> QED BY <1>7, <3>1, <3>2
  <2> QED BY <1>3, <2>1
<1>8. CASE Change(r, hop)
  <2>1. /\ modify_dp("change", key, hop, 0) /\ rib' = rib /\ type = "TRIE"
        /\ key \in DOMAIN rib
    BY <1>8 DEF Change, Called, key
  <2>2. DifferIn(rib, rib', key)
    BY <1>1, <2>1 DEF DifferIn
  <2> QED BY <1>1, <1>2, <2>1, <2>2, CallStarts
<1>9. CASE Add(r, hop)
  <2>1. /\ rib' = WithRule(rib, key, hop) /\ type = "TRIE" /\ key \notin DOMAIN rib
        /\ \/ SameAsAround(key, hop) /\ Return("ok")
           \/ modify_dp("add", key, hop, depth_diff(r))
    BY <1>9 DEF Add, Called, key
  <2>2. CASE SameAsAround(key, hop) /\ Return("ok")
    <3>1. ParentHop(rib, key) = hop
      BY <2>2 DEF SameAsAround
    <3>2. ParentHop(rib', key) = hop
      <4>1. key.depth \in Int
        BY <1>2, DepthsAreNaturals DEF IsMasked, Network
      <4>2. ParentHop(rib, key) = ParentHop(WithRule(rib, key, hop), key)
        BY <1>1, <1>4, <4>1, AroundKept DEF DifferIn
      <4> QED BY <2>1, <3>1, <4>2
    <3>3. DifferIn(rib', rib, key)
      BY <1>4, <2>1 DEF DifferIn
    <3>4. \A ip \in Address : RibHop(rib', ip) = RibHop(rib, ip)
      BY <1>2, <1>5, <2>1, <3>2, <3>3, SameAsParent
    <3> QED BY <1>1, <2>2, <3>3, <3>4, ReturnsAgree DEF Return, DifferIn
  <2>3. CASE modify_dp("add", key, hop, depth_diff(r))
    <3> DEFINE diff == depth_diff(r)
    <3>1. modify_dp("add", key, hop, diff)
      BY <2>3
    <3> HIDE DEF diff
    <3> QED BY <1>1, <1>2, <1>4, <1>5, <2>1, <3>1, CallStarts
  <2> QED BY <2>1, <2>2, <2>3
<1> QED BY <1>6, <1>7, <1>8, <1>9 DEF rte_fib6_add

LEMMA DeleteAgrees ==
  ASSUME NoDefaultRoute, IndInv, AgreeInv, NEW r \in Routes, rte_fib6_delete(r)
  PROVE  AgreeInv'
<1> DEFINE key == Masked(r)
<1>1. op.pc = "idle" /\ r.depth <= MAX_DEPTH /\ RoutesOK(rib) /\ IndInv'
  BY DeleteKeepsInv DEF rte_fib6_delete, dummy_delete, DeleteAbsent, Delete, Called, AgreeInv
<1>2. IsMasked(key) /\ key.depth # 0
  BY <1>1, RouteMasked
<1> HIDE DEF key
<1>3. DifferIn(rib, WithoutRules(rib, {key}), key) /\ key \notin DOMAIN WithoutRules(rib, {key})
  <2>1. key \notin DOMAIN WithoutRules(rib, {key})
    BY DEF WithoutRules
  <2> QED BY <1>1, <1>2, <2>1, RuleDiffers
<1>4. CASE dummy_delete(r)
  <2>1. /\ rib' = WithoutRules(rib, {key}) /\ type = "DUMMY"
        /\ UNCHANGED <<type, tables, op, intact>>
    BY <1>4 DEF dummy_delete, Called, Return, key
  <2> QED BY <1>1, <1>3, <2>1, ReturnsAgree DEF DifferIn
<1>5. CASE DeleteAbsent(r)
  <2>1. rib' = rib /\ UNCHANGED <<type, tables, op, intact>>
    BY <1>5 DEF DeleteAbsent, Return
  <2> QED BY <1>1, <2>1, ReturnsAgree
<1>6. CASE Delete(r) /\ SameAsAround(key, rib[key])
  <2>1. /\ rib' = WithoutRules(rib, {key}) /\ key \in DOMAIN rib
        /\ UNCHANGED <<type, tables, op, intact>>
    BY <1>6 DEF Delete, Removed, Return, key
  <2>2. rib[key] = ParentHop(rib, key)
    BY <1>6 DEF SameAsAround
  <2>3. \A ip \in Address : RibHop(rib, ip) = RibHop(rib', ip)
    BY <1>2, <1>3, <2>1, <2>2, SameAsParent
  <2> QED BY <1>1, <1>3, <2>1, <2>3, ReturnsAgree DEF DifferIn
<1>7. CASE Delete(r) /\ ~SameAsAround(key, rib[key])
  <2> DEFINE hop == ParentHop(rib, key)
             diff == depth_diff(r)
  <2>1. /\ modify_dp("delete", key, hop, diff) /\ hop = ParentHop(rib, key)
        /\ rib' = rib /\ key \in DOMAIN rib /\ type = "TRIE"
    BY <1>7 DEF Delete, Called, key
  <2> HIDE DEF hop, diff
  <2>2. DifferIn(rib, rib', key)
    BY <1>1, <2>1 DEF DifferIn
  <2> QED BY <1>1, <1>2, <2>1, <2>2, CallStarts
<1> QED BY <1>4, <1>5, <1>6, <1>7 DEF rte_fib6_delete, key

\* When an update returns, all of its network is done.
LEMMA SucceedAgrees ==
  ASSUME IndInv, AgreeInv, Succeed
  PROVE  AgreeInv'
<1>1. /\ op.pc = "gap" /\ op.last /\ op' = Idle /\ UNCHANGED <<type, tables, intact>>
      /\ op.call \in {"add", "change", "delete"} /\ IndInv' /\ type = "TRIE"
  BY ReturnsKeepInv DEF Succeed, IndInv, OpOK
<1>2. /\ RoutesOK(rib) /\ CallOK /\ GapOK /\ BetweenGaps
      /\ op.key.depth \in Int /\ IsMasked(op.key) /\ op.key \in DOMAIN rib
  BY <1>1, DepthsAreNaturals DEF AgreeInv, Busy, GapOK, CallOK, IsMasked, Network
<1>3. /\ op.call = "add" => rib' = rib
      /\ op.call = "change" => rib' = WithRule(rib, op.key, op.hop)
      /\ op.call = "delete" => rib' = WithoutRules(rib, {op.key})
  BY DEF Succeed, Removed
<1>4. DifferIn(rib, rib', op.key)
  <2>1. op.call = "add" => DifferIn(rib, rib', op.key)
    BY <1>2, <1>3 DEF DifferIn
  <2> QED BY <1>1, <1>2, <1>3, <2>1, RuleDiffers
<1>5. op'.pc = "idle" /\ ~Busy' /\ Level' = 1
  BY <1>1 DEF Idle, Busy, Level
<1>6. ASSUME intact PROVE TrieOK'
  <2>1. /\ Joined' = Joined
        /\ PathLinked' /\ OnEdge' /\ HiddenOld' /\ VariedGroups' /\ NoneLost' /\ Leafy(Joined')
    BY <1>1, <1>5, <1>6, TopKept
  <2>2. Agreed'
    <3> SUFFICES ASSUME NEW ip \in Address PROVE HopIn(Joined', ip) = RibHop(rib', ip)
      BY <1>5 DEF Agreed, Expected, Address, MAX_DEPTH
    <3>1. HopIn(Joined', ip) = Expected(ip)
      BY <1>1, <1>6, <2>1 DEF AgreeInv, TrieOK, Agreed
    <3>2. /\ ParentHop(rib, op.key) = ParentHop(rib', op.key)
          /\ Exposed(rib, op.key, ip) <=> Exposed(rib', op.key, ip)
      BY <1>2, <1>4, AroundKept DEF DifferIn
    <3>3. CASE ~Exposed(rib, op.key, ip)
      <4>1. RibHop(rib, ip) = RibHop(rib', ip)
        BY <1>2, <1>4, <3>3, CoveredHop DEF DifferIn
      <4> QED BY <1>1, <3>1, <3>3, <4>1 DEF Expected
    <3>4. CASE Exposed(rib, op.key, ip)
      <4>1. Done(ip)
        <5>1. ip < Past(op.key)
          BY <1>2, <3>4, HoldsInterval DEF Exposed
        <5> QED BY <1>1, <1>2, <5>1 DEF BetweenGaps, Done
      <4>2. Expected(ip) = op.hop
        BY <1>1, <3>4, <4>1 DEF Expected
      <4>3. RibHop(rib', ip) = IF op.key \in DOMAIN rib' THEN rib'[op.key]
                               ELSE ParentHop(rib', op.key)
        BY <1>2, <1>4, <3>2, <3>4, ExposedHop DEF DifferIn
      <4>4. CASE op.call = "add"
        BY <1>2, <1>3, <3>1, <4>2, <4>3, <4>4 DEF CallOK
      <4>5. CASE op.call = "change"
        <5>1. op.key \in DOMAIN rib' /\ rib'[op.key] = op.hop
          BY <1>3, <4>5 DEF WithRule
        <5> QED BY <3>1, <4>2, <4>3, <5>1
      <4>6. CASE op.call = "delete"
        <5>1. op.key \notin DOMAIN rib'
          BY <1>3, <4>6 DEF WithoutRules
        <5> QED BY <1>2, <3>1, <3>2, <4>2, <4>3, <4>6, <5>1 DEF CallOK
      <4> QED BY <1>1, <4>4, <4>5, <4>6
    <3> QED BY <3>3, <3>4
  <2> QED BY <2>1, <2>2 DEF TrieOK, Leafy, Address, MAX_DEPTH
<1> QED BY <1>1, <1>4, <1>5, <1>6 DEF AgreeInv, DifferIn

\* Failing gives up agreement.
LEMMA FailingAgrees ==
  ASSUME IndInv, AgreeInv, OutOfGroups \/ Fail
  PROVE  AgreeInv'
<1>1. RoutesOK(rib) /\ op \in Call
  BY DEF AgreeInv, IndInv, OpOK
<1>2. CASE OutOfGroups
  <2>1. op'.pc = "failed" /\ ~intact' /\ rib' = rib
    BY <1>1, <1>2 DEF OutOfGroups, Local, Call
  <2> QED BY <1>1, <2>1 DEF AgreeInv, Busy
<1>3. CASE Fail
  <2>1. op' = Idle /\ ~intact' /\ DOMAIN rib' \subseteq DOMAIN rib
    BY <1>3 DEF Fail, AgreeInv, WithoutRules
  <2>2. op'.pc = "idle" /\ ~Busy' /\ RoutesOK(rib')
    BY <1>1, <2>1 DEF Idle, Busy, RoutesOK
  <2> QED BY <2>1, <2>2 DEF AgreeInv
<1> QED BY <1>2, <1>3

LEMMA CreateAgrees == rte_fib6_create => AgreeInv
<1> SUFFICES ASSUME rte_fib6_create PROVE AgreeInv
  OBVIOUS
<1>1. /\ op.pc = "idle" /\ rib = NoRules /\ DOMAIN rib = {} /\ Level = 1 /\ IndInv /\ ~op.up
      /\ entries = [p \in Places |-> Leaf(IF p[1] = tbl24 THEN DEF_NH ELSE 0)]
      /\ free = [i \in 1..number_tbl8s |-> i - 1]
  BY CreateEstablishesInv DEF rte_fib6_create, trie_create, Idle, NoRules, Level
<1>2. JoinedOK /\ Open = {}
  BY <1>1, JoinedIs DEF Open, Edges
<1>3. \A p \in Places : Joined[p] = Leaf(IF p[1] = tbl24 THEN DEF_NH ELSE 0)
  BY <1>1, <1>2 DEF JoinedOK
<1>4. \A p \in Places : ~Joined[p].ext
  <2>1. \A v : Leaf(v).ext = FALSE
    BY DEF Leaf
  <2> QED BY <1>3, <2>1
<1>5. IsTables(Joined)
  BY <1>2 DEF JoinedOK
<1>6. Leafy(Joined) /\ VariedGroups
  <2>1. \A ip \in Address : PathIn(Joined, ip)[Deepest] \in Places
    BY <1>5, TableBytes, PathStep, Sizes
  <2> QED BY <1>4, <2>1 DEF Leafy, VariedGroups
<1>7. NoneLost
  <2> SUFFICES ASSUME NEW g \in Groups PROVE g \in Range(free)
    BY DEF NoneLost
  <2>1. PICK i \in 1..number_tbl8s : i - 1 = g
    BY Sizes DEF Groups
  <2>2. i \in DOMAIN free /\ free[i] = g
    BY <1>1, <2>1
  <2> QED BY <2>2 DEF Range
<1>8. Agreed
  <2> SUFFICES ASSUME NEW ip \in Address PROVE HopIn(Joined, ip) = Expected(ip)
    BY DEF Agreed
  <2>1. Expected(ip) = DEF_NH
    BY <1>1 DEF Expected, RibHop, Matching
  <2>2. 1 \in Depths /\ Deepest \in Depths /\ 1 <= Deepest
    BY Sizes, TableBytes
  <2> DEFINE p == PathIn(Joined, ip)[1]
  <2>3. p \in Places /\ p[1] = tbl24
    BY <1>5, <2>2, PathStep
  <2>4. PathIn(Joined, ip)[Deepest] = p
    BY <1>4, <1>5, <2>2, <2>3, WaysEnd
  <2> HIDE DEF p
  <2>5. HopIn(Joined, ip) = Leaf(DEF_NH).val
    BY <1>3, <2>3, <2>4 DEF HopIn
  <2> QED BY <2>1, <2>5 DEF Leaf
<1>9. PathLinked /\ OnEdge /\ HiddenOld
  BY <1>1, <1>2 DEF PathLinked, OnEdge, HiddenOld, Edges
<1> QED BY <1>1, <1>6, <1>7, <1>8, <1>9 DEF AgreeInv, TrieOK, RoutesOK, Busy

-----------------------------------------------------------------------------
(* What a lookup sees between two steps *)

\* Its way leads over a group that is not linked yet.
Hidden(ip) == \E k \in Open : ~entries[Place(k)].ext /\ Lead(ip, k) = Lead(Edge, k)

LEMMA HiddenSeen ==
  ASSUME IndInv, AgreeInv, intact, NEW ip \in Address, Hidden(ip)
  PROVE  TableHop(ip) = Old
<1>1. JoinedOK /\ PathLinked /\ HiddenOld /\ IsTables(entries) /\ op.path[1] = tbl24
      /\ Level \in Nat \ {0}
  BY JoinedIs, Walking DEF AgreeInv, TrieOK, JoinedOK
<1>2. Edge \in Address
  <2>1. op \in Call
    BY DEF IndInv, OpOK
  <2> QED BY <2>1, LastInAddress DEF Edge, Call
<1> DEFINE Bare == {k \in Open : ~entries[Place(k)].ext}
<1>3. PICK k \in Bare : \A j \in Bare : k <= j
  <2>1. \A j \in Open : j \in Nat
    BY <1>1 DEF JoinedOK
  <2>2. Bare \in SUBSET Nat /\ Bare # {}
    BY <2>1 DEF Hidden
  <2> HIDE DEF Bare
  <2> QED BY <2>2, LeastNatural
<1>4. k \in 1..(Level - 1) /\ k \in 1..Level /\ k \in Depths /\ k \in Open /\ ~entries[Place(k)].ext
  BY <1>1, <1>3 DEF JoinedOK
<1>5. Lead(ip, k) = Lead(Edge, k)
  <2>1. PICK j \in Bare : Lead(ip, j) = Lead(Edge, j)
    BY DEF Hidden
  <2>2. j \in Depths /\ k \in 1..j
    <3>1. j \in 1..Level /\ k <= j
      BY <1>1, <1>3 DEF JoinedOK
    <3> QED BY <1>1, <1>4, <3>1 DEF JoinedOK
  <2> QED BY <1>2, <2>1, <2>2, LeadOrder
<1>6. \A n \in 1..k : n \in Depths /\ get_idx(ip, n) = get_idx(Edge, n)
  BY <1>2, <1>4, <1>5, LeadOrder
<1> DEFINE v == PathIn(entries, ip)
           Wrong == {n \in 1..k : v[n] # Place(n)}
<1>7. Wrong = {}
  <2> SUFFICES ASSUME Wrong # {} PROVE FALSE
    OBVIOUS
  <2>1. PICK n \in Wrong : \A m \in Wrong : n <= m
    <3>1. Wrong \in SUBSET Nat
      OBVIOUS
    <3> HIDE DEF Wrong
    <3> QED BY <3>1, LeastNatural
  <2>2. n # 1
    <3> SUFFICES ASSUME n = 1 PROVE FALSE
      OBVIOUS
    <3>1. v[1] = <<tbl24, get_idx(ip, 1)>>
      BY <1>1, <1>6, PathStep
    <3> QED BY <1>1, <1>6, <2>1, <3>1 DEF Place
  <2>3. n - 1 \in 1..k /\ n - 1 \in 1..(Level - 1) /\ ~(n <= n - 1) /\ (n - 1) + 1 = n
    BY <1>1, <1>4, <2>1, <2>2
  <2>4. v[n - 1] = Place(n - 1)
    BY <2>1, <2>3
  <2>5. entries[Place(n - 1)] = Link(op.path[n])
    <3>1. n - 1 \notin Bare
      BY <1>3, <1>4, <2>1, <2>3
    <3> QED BY <1>1, <2>3, <3>1 DEF PathLinked
  <2>6. v[n] = <<op.path[n], get_idx(ip, n)>>
    <3>1. entries[v[n - 1]].ext /\ entries[v[n - 1]].val = op.path[n]
      BY <2>4, <2>5 DEF Link
    <3> QED BY <1>1, <1>6, <2>1, <2>2, <3>1, PathStep
  <2> QED BY <1>6, <2>1, <2>6 DEF Place
<1>8. v[k] = Place(k)
  <2>1. k \in 1..k
    BY <1>4
  <2> QED BY <1>7, <2>1
<1>9. v[Deepest] = Place(k)
  <2>1. Deepest \in Depths /\ k <= Deepest
    BY <1>4, TableBytes
  <2> QED BY <1>1, <1>4, <1>8, <2>1, WaysEnd
<1>10. TableHop(ip) = entries[Place(k)].val
  BY <1>1, <1>9, TableHopIs DEF HopIn
<1> QED BY <1>1, <1>4, <1>10 DEF HiddenOld

LEMMA JoinedSeen ==
  ASSUME IndInv, AgreeInv, intact, NEW ip \in Address, ~Hidden(ip)
  PROVE  TableHop(ip) = HopIn(Joined, ip)
<1>1. JoinedOK /\ PathLinked /\ Leafy(Joined) /\ IsTables(entries) /\ IsTables(Joined)
      /\ OneLinkIn(Joined) /\ Level \in Nat \ {0}
  BY JoinedIs, Walking DEF AgreeInv, TrieOK, JoinedOK
<1>2. Edge \in Address
  <2>1. op \in Call
    BY DEF IndInv, OpOK
  <2> QED BY <2>1, LastInAddress DEF Edge, Call
<1>3. ASSUME NEW n \in Depths
      PROVE  entries[PathIn(Joined, ip)[n]] = Joined[PathIn(Joined, ip)[n]]
  <2> DEFINE p == PathIn(Joined, ip)[n]
  <2>1. p \in Places
    BY <1>1, PathStep
  <2>2. ASSUME NEW k \in Open, p = Place(k) PROVE entries[p] = Joined[p]
    <3>1. k \in 1..Level /\ k \in Depths /\ k \in 1..(Level - 1)
      BY <1>1 DEF JoinedOK
    <3>2. PathIn(Joined, Edge)[k] = p /\ Reaches(Joined, Edge, k)
      BY <1>1, <2>2, <3>1, EdgeReaches
    <3>3. PICK m \in 1..n : /\ m \in Depths /\ Reaches(Joined, ip, m)
                            /\ PathIn(Joined, ip)[m] = p
      BY <1>1, ReachedBefore
    <3> HIDE DEF p
    <3>4. Lead(ip, k) = Lead(Edge, k)
      <4>1. PathIn(Joined, ip)[m] = PathIn(Joined, Edge)[k]
        BY <3>2, <3>3
      <4>2. m = k /\ Lead(ip, m) = Lead(Edge, k)
        BY <1>1, <1>2, <3>1, <3>2, <3>3, <4>1, PathsMeet
      <4> QED BY <4>2
    <3>5. entries[Place(k)].ext
      BY <3>4 DEF Hidden
    <3> QED BY <1>1, <2>2, <3>1, <3>5 DEF PathLinked, JoinedOK
  <2> QED BY <1>1, <2>1, <2>2 DEF JoinedOK
<1>4. \A n \in Depths : PathIn(entries, ip)[n] = PathIn(Joined, ip)[n]
  BY <1>1, <1>3, SameWay
<1>5. Deepest \in Depths
  BY Sizes, TableBytes
<1> QED BY <1>1, <1>3, <1>4, <1>5, TableHopIs DEF HopIn

\* On the way down nothing that is hidden has been written.
LEMMA HiddenUndone ==
  ASSUME IndInv, AgreeInv, intact, NEW ip \in Address, Hidden(ip)
  PROVE  /\ Within(ip) \/ Expected(ip) = Old
         /\ ~op.up => Expected(ip) = Old
<1>1. Open # {} /\ TrieOK
  BY DEF Hidden, AgreeInv
<1>2. op.pc \in Edges /\ JoinedOK /\ GapShape
  BY <1>1, JoinedIs, GapShaped DEF Open, Edges, Busy
<1>3. Within(ip) \/ Expected(ip) = Old
  BY <1>1 DEF TrieOK, HiddenOld, Hidden
<1>4. ASSUME ~op.up, Within(ip) PROVE Expected(ip) = Old
  <2>1. PICK k \in Open : Lead(ip, k) = Lead(Edge, k)
    BY DEF Hidden
  <2>2. /\ k \in Depths /\ Root \in 1..k /\ Root # Deepest
    <3>1. /\ k \in 1..Level /\ k \in 1..(Level - 1) /\ Root <= k /\ Level \in Depths
          /\ Root \in Nat \ {0}
      BY <1>2, Walking DEF JoinedOK, Open
    <3>2. Level <= Deepest /\ k \in Depths /\ Level \in Nat /\ Deepest \in Nat
      BY <1>2, <3>1, TableBytes DEF JoinedOK
    <3> QED BY <3>1, <3>2
  <2>3. ASSUME op.pc = "redge"
        PROVE  /\ ~(Lead(ip, Root) = Lead(op.ledge, Root))
               /\ ~(Lead(ip, Root) < Lead(Final, Root))
    <3>1. Edge = Final /\ Final \in Address /\ op.ledge \in Address
      BY <1>2, <2>3 DEF Edge, Final, GapShape
    <3>2. Lead(ip, Root) = Lead(Final, Root)
      BY <2>1, <2>2, <3>1, LeadOrder
    <3>3. Lead(op.ledge, Root) < Lead(Final, Root)
      BY <1>2, <2>2 DEF GapShape
    <3>4. Lead(op.ledge, Root) \in Nat /\ Lead(Final, Root) \in Nat
      BY <1>2, <3>1, LeadOfTable DEF GapShape
    <3> QED BY <3>2, <3>3, <3>4
  <2>4. ~DoneIn(ip)
    BY <1>2, <1>4, <2>3 DEF DoneIn, Edges
  <2>5. ~(ip < op.ledge)
    <3>1. ip \in Nat /\ op.ledge \in Nat /\ op.ledge <= ip
      BY <1>2, <1>4 DEF GapShape, Address
    <3> QED BY <3>1
  <2>6. ~Done(ip) /\ Exposed(rib, op.key, ip) /\ op.pc # "idle"
    BY <1>2, <1>4, <2>4, <2>5 DEF Done, GapShape, Edges
  <2> QED BY <2>6 DEF Expected
<1> QED BY <1>3, <1>4

\* An address that lies behind a group that is not linked has what it had
\* before, and every other one what it is to have.
SeenOK ==
  type = "TRIE" => \A ip \in Address :
    /\ TableHop(ip) = IF Hidden(ip) THEN Old ELSE Expected(ip)
    /\ Hidden(ip) => Within(ip) \/ Expected(ip) = Old
    /\ Hidden(ip) /\ ~op.up => Expected(ip) = Old

LEMMA SeenIs == IndInv /\ AgreeInv /\ intact => SeenOK
<1> SUFFICES ASSUME IndInv, AgreeInv, intact, type = "TRIE", NEW ip \in Address
             PROVE  /\ TableHop(ip) = IF Hidden(ip) THEN Old ELSE Expected(ip)
                    /\ Hidden(ip) => Within(ip) \/ Expected(ip) = Old
                    /\ Hidden(ip) /\ ~op.up => Expected(ip) = Old
  BY DEF SeenOK
<1>1. HopIn(Joined, ip) = Expected(ip)
  BY DEF AgreeInv, TrieOK, Agreed
<1>2. CASE Hidden(ip)
  <2>1. TableHop(ip) = Old
    BY <1>2, HiddenSeen
  <2>2. (Within(ip) \/ Expected(ip) = Old) /\ (~op.up => Expected(ip) = Old)
    BY <1>2, HiddenUndone
  <2> QED BY <1>2, <2>1, <2>2
<1>3. CASE ~Hidden(ip)
  <2>1. TableHop(ip) = HopIn(Joined, ip)
    BY <1>3, JoinedSeen
  <2> QED BY <1>1, <1>3, <2>1
<1> QED BY <1>2, <1>3

LEMMA SeenIsNext == IndInv' /\ AgreeInv' /\ intact' => SeenOK'
BY SeenIs, PTL

\* A lookup goes the same way as far as the entries on it are the same.
LEMMA WaySoFar ==
  ASSUME NEW E, NEW F, IsTables(E), IsTables(F), NEW ip \in Address, NEW m \in Depths,
         \A k \in Depths : k < m => F[PathIn(E, ip)[k]] = E[PathIn(E, ip)[k]]
  PROVE  PathIn(F, ip)[m] = PathIn(E, ip)[m]
<1> DEFINE v == PathIn(E, ip)
           w == PathIn(F, ip)
           Wrong == {n \in 1..m : w[n] # v[n]}
<1>0. m \in Nat /\ 1 <= m /\ \A n \in 1..m : n \in Depths
  BY Sizes DEF Depths
<1> SUFFICES ASSUME Wrong # {} PROVE FALSE
  BY <1>0
<1>1. PICK n \in Wrong : \A k \in Wrong : n <= k
  <2>1. Wrong \in SUBSET Nat
    OBVIOUS
  <2> HIDE DEF Wrong
  <2> QED BY <2>1, LeastNatural
<1>2. n \in Depths /\ n \in 1..m /\ w[n] # v[n]
  BY <1>0, <1>1
<1>3. n # 1
  BY <1>2, PathStep
<1>4. n - 1 \in Depths /\ n - 1 \in 1..m /\ ~(n <= n - 1) /\ n - 1 < m
  BY <1>0, <1>2, <1>3
<1>5. w[n - 1] = v[n - 1]
  BY <1>1, <1>4
<1>6. /\ F[w[n - 1]].ext => w[n] = <<F[w[n - 1]].val, get_idx(ip, n)>>
      /\ ~F[w[n - 1]].ext => w[n] = w[n - 1]
      /\ E[v[n - 1]].ext => v[n] = <<E[v[n - 1]].val, get_idx(ip, n)>>
      /\ ~E[v[n - 1]].ext => v[n] = v[n - 1]
  BY <1>2, <1>3, PathStep
<1>7. F[v[n - 1]] = E[v[n - 1]]
  BY <1>4
<1> HIDE DEF v, w
<1> QED BY <1>2, <1>5, <1>6, <1>7

AnswersOK == IndInv => \A ip \in Address : TableHop(ip) = HopIn(entries, ip)

LEMMA AnswersAre == AnswersOK
BY JoinedIs, TableHopIs DEF JoinedOK, AnswersOK

LEMMA AnswersAreNext ==
  ASSUME IndInv', NEW ip \in Address
  PROVE  TableHop(ip)' = HopIn(entries', ip)
<1>1. AnswersOK'
  BY AnswersAre, PTL
<1> QED BY <1>1 DEF AnswersOK, Address, MAX_DEPTH

\* The tables when write_edge has filled the rest of a group and, if it can be
\* folded, emptied it, but has not stored the entry above.
Rest == Written({op.path[Level]} \X Beside, Leaf(op.hop))
Folds == Recyclable(Rest, op.path[Level])
Half == IF Folds THEN Emptied(Rest, op.path[Level]) ELSE Rest

\* Lookups in these see what they saw before or what they see afterwards, but
\* for those behind an entry that links the group that is folded: 0.
LEMMA FoldWindow ==
  ASSUME IndInv, AgreeInv, intact, FoldRest, NEW ip \in Address
  PROVE  \/ HopIn(Half, ip) = TableHop(ip)
         \/ HopIn(Half, ip) = TableHop(ip)'
         \/ /\ HopIn(Half, ip) = 0 /\ TableHop(ip)' = op.hop
            /\ Folds /\ entries[Place(Level - 1)].ext
            /\ \A n \in 1..(Level - 1) : get_idx(ip, n) = get_idx(Edge, n)
<1> DEFINE g == op.path[Level]
           level == Level - 1
           q == Place(level)
           v == PathIn(entries, ip)
           Met == {n \in Depths : v[n][1] = g}
<1>1. /\ JoinedOK /\ TrieOK /\ GapShape /\ op.pc \in Edges /\ op.up /\ Level > Root
      /\ IsTables(entries) /\ IsTables(Joined) /\ type = "TRIE" /\ op \in Call
      /\ op.pc # "idle" /\ Busy
  <2>1. op.pc \in Edges /\ op.up
    BY DEF FoldRest, Edges
  <2>2. Busy /\ op.pc # "gap" /\ op.pc # "idle"
    BY <2>1 DEF Busy, Edges
  <2> QED BY <2>1, <2>2, JoinedIs, GapShaped DEF IndInv, OpOK, Progress, AgreeInv, JoinedOK
<1>2. /\ Level \in Nat /\ Root \in Nat \ {0} /\ level \in Nat \ {0} /\ level \in 1..Level
      /\ level >= Root /\ level + 1 = Level /\ Level \in 2..Level /\ Level \in Depths
      /\ level \in Depths
  BY <1>1 DEF JoinedOK
<1>3. /\ g \in Groups /\ q \in Places /\ q[1] # g
      /\ \A n \in Slots : <<g, n>> \in Places
  <2>1. g \in Groups /\ q \in Places
    BY <1>2, Walking
  <2>2. q[1] # g
    <3>1. q[1] = op.path[level] /\ level # Level
      BY <1>2 DEF Place
    <3> QED BY <1>1, <1>2, <3>1 DEF IndInv, LinksOK, NoLoop
  <2> QED BY <2>1, <2>2 DEF Places
<1>4. \A p \in Places : entries[p].ext /\ entries[p].val = g => p = q
  <2>1. Level > Root /\ Level \in 2..Level
    BY <1>1, <1>2
  <2> QED BY <1>1, <2>1 DEF IndInv, LinksOK, LinkedOnTheWay, Linkers
<1>5. entries[q].ext => entries[q] = Link(g)
  BY <1>1, <1>2 DEF TrieOK, PathLinked
<1>6. /\ \A p \in Places : p[1] # g => Rest[p] = entries[p] /\ Half[p] = entries[p]
      /\ Folds => \A p \in Places : p[1] = g => Half[p] = Leaf(0)
      /\ IsTables(Half) /\ IsTables(Rest)
  <2>1. \A p \in Places : p[1] # g => Rest[p] = entries[p]
    BY DEF Rest, Written
  <2>2. IsTables(Rest)
    BY <1>1, WrittenLeaves DEF Rest, IsTables
  <2>3. 0 \in Hops /\ ~Leaf(0).ext /\ Leaf(0) \in [ext : BOOLEAN, val : Hops]
    BY Sizes, FibTrieAssumption DEF Hops, Leaf
  <2>4. IsTables(Half)
    BY <2>2, <2>3 DEF Half, Emptied, IsTables
  <2> QED BY <2>1, <2>2, <2>4 DEF Half, Emptied
<1>7. Deepest \in Depths /\ \A n \in Depths : n <= Deepest
  BY Sizes DEF Depths, Deepest
<1>8. TableHop(ip) = HopIn(entries, ip)
  BY <1>1, TableHopIs
<1>9. CASE Met = {}
  <2>1. \A n \in Depths : v[n] \in Places /\ Half[v[n]] = entries[v[n]]
    BY <1>1, <1>6, <1>9, PathStep
  <2>2. \A n \in Depths : PathIn(Half, ip)[n] = v[n]
    BY <1>1, <1>6, <2>1, SameWay
  <2> QED BY <1>7, <1>8, <2>1, <2>2 DEF HopIn
<1>10. CASE Met # {}
  <2>1. PICK n \in Met : \A k \in Met : n <= k
    <3>1. Met \in SUBSET Nat
      BY DEF Depths
    <3> HIDE DEF Met
    <3> QED BY <1>10, <3>1, LeastNatural
  <2>2. n \in Depths /\ v[n][1] = g /\ v[n] \in Places /\ n \in Nat
    BY <1>1, <2>1, PathStep DEF Depths
  <2>3. n # 1
    <3>1. n = 1 => v[n][1] = tbl24
      BY <1>1, <2>2, PathStep
    <3> QED BY <1>3, <2>2, <3>1, Sizes
  <2>4. n - 1 \in Depths /\ n - 1 < n
    BY <2>2, <2>3, TableBytes
  <2>5. \A k \in Depths : k < n => v[k][1] # g /\ v[k] \in Places
    <3> TAKE k \in Depths
    <3>1. v[k] \in Places
      BY <1>1, PathStep
    <3>2. k < n => ~(n <= k)
      BY <2>2 DEF Depths
    <3> QED BY <2>1, <3>1, <3>2
  <2>6. entries[v[n - 1]].ext /\ v[n - 1] = q /\ v[n - 1] \in Places
    <3>1. v[n - 1][1] # g /\ v[n - 1] \in Places
      BY <2>4, <2>5
    <3>2. entries[v[n - 1]].ext /\ entries[v[n - 1]].val = g
      BY <1>1, <2>2, <2>3, <3>1, PathStep
    <3> QED BY <1>4, <3>1, <3>2
  <2>7. Reaches(entries, ip, n)
    BY <2>6 DEF Reaches
  <2>8. ByHere(ip)
    <3>1. \A k \in Depths : k < n => Joined[v[k]] = entries[v[k]]
      <4> TAKE k \in Depths
      <4> SUFFICES ASSUME k < n PROVE Joined[v[k]] = entries[v[k]]
        OBVIOUS
      <4>1. k <= n /\ v[k] \in Places
        BY <2>2, <2>5 DEF Depths
      <4>2. entries[v[k]].ext
        BY <1>1, <2>2, <2>7, <4>1, WaysEnd
      <4>3. CASE \E j \in Open : v[k] = Place(j)
        <5>1. PICK j \in Open : v[k] = Place(j)
          BY <4>3
        <5>2. j \in 1..(Level - 1) /\ Joined[v[k]] = Link(op.path[j + 1])
          BY <1>1, <5>1 DEF JoinedOK
        <5> QED BY <1>1, <4>2, <5>1, <5>2 DEF TrieOK, PathLinked
      <4> QED BY <1>1, <4>1, <4>3 DEF JoinedOK
    <3>2. PathIn(Joined, ip)[n] = v[n]
      <4> HIDE DEF v
      <4> QED BY <1>1, <2>2, <3>1, WaySoFar DEF v
    <3> QED BY <1>1, <2>2, <3>2, ComesOnly DEF TrieOK
  <2>9. \A k \in 1..level : get_idx(ip, k) = get_idx(Edge, k)
    <3>1. Lead(ip, level) = Lead(Edge, level) /\ Edge \in Address
      <4>1. Edge \in Address
        BY <1>1, LastInAddress DEF Edge, Call
      <4> QED BY <1>2, <2>8, <4>1 DEF ByHere
    <3> QED BY <1>2, <3>1, LeadOrder
  <2>10. entries[q] = Link(g)
    BY <1>5, <2>6
  <2>11. CASE ~Folds
    <3>1. entries' = [Rest EXCEPT ![q] = Link(g)]
      BY <2>11 DEF FoldRest, Rest, Folds
    <3>2. Rest[q] = Link(g) /\ Rest \in [Places -> [ext : BOOLEAN, val : Hops]]
      BY <1>3, <1>6, <2>10 DEF IsTables
    <3>3. entries' = Rest
      BY <3>1, <3>2
    <3>4. TableHop(ip)' = HopIn(entries', ip)
      BY WriteRestKeepsInv, AnswersAreNext
    <3> QED BY <2>11, <3>3, <3>4 DEF Half
  <2>12. CASE Folds
    <3>1. HopIn(Half, ip) = 0
      <4>1. \A k \in Depths : k < n => Half[v[k]] = entries[v[k]]
        BY <1>6, <2>5
      <4>2. PathIn(Half, ip)[n] = v[n]
        <5> HIDE DEF v
        <5> QED BY <1>1, <1>6, <2>2, <4>1, WaySoFar DEF v
      <4>3. Half[v[n]] = Leaf(0) /\ ~Leaf(0).ext /\ Leaf(0).val = 0
        BY <1>6, <2>2, <2>12 DEF Leaf
      <4>4. PathIn(Half, ip)[Deepest] = v[n]
        BY <1>6, <1>7, <2>2, <4>2, <4>3, WaysEnd
      <4> QED BY <4>3, <4>4 DEF HopIn
    <3>2. entries' = Folded(Rest, q, g) /\ IsTables(entries')
      <4>1. entries' = Folded(Rest, q, g)
        BY <2>12 DEF FoldRest, Rest, Folds
      <4> QED BY <4>1, WriteRestKeepsInv, JoinedNextIs
    <3>3. entries'[q] = Rest[<<g, 0>>] /\ ~Rest[<<g, 0>>].ext
      BY <1>3, <2>12, <3>2 DEF Folded, Folds, Recyclable, Uniform
    <3>4. Rest[<<g, 0>>].val = op.hop
      <4>1. PathIn(Joined, Edge)[Level] = Place(Level) /\ Edge \in Address
        <5>1. Edge \in Address
          BY <1>1, LastInAddress DEF Edge, Call
        <5>2. Level \in 1..Level
          BY <1>2
        <5> QED BY <1>1, <5>1, <5>2, EdgeReaches DEF TrieOK
      <4>2. Place(Level) = <<g, get_idx(Edge, Level)>> /\ get_idx(Edge, Level) \in Slots
            /\ Place(Level) \in Places
        <5>1. Place(Level) \in Places /\ Place(Level) = <<g, get_idx(Edge, Level)>>
          BY <1>1, <1>2 DEF JoinedOK, Place
        <5> QED BY <1>3, <5>1, PlaceParts
      <4>3. Rest[Place(Level)] = Rest[<<g, 0>>]
        BY <2>12, <4>2 DEF Folds, Recyclable, Uniform
      <4>4. Joined[Place(Level)] = Rest[<<g, 0>>]
        <5>1. get_idx(Edge, Level) \notin Beside
          BY <4>2, Sizes DEF Beside, Slots
        <5>2. Rest[Place(Level)] = entries[Place(Level)]
          BY <4>2, <5>1 DEF Rest, Written
        <5>3. \A k \in Open : Place(Level) # Place(k)
          <6> TAKE k \in Open
          <6>1. k \in 1..Level /\ k # Level /\ Level \in 1..Level
            BY <1>1, <1>2 DEF JoinedOK
          <6> QED BY <1>1, <6>1 DEF JoinedOK
        <5> QED BY <1>1, <4>2, <4>3, <5>2, <5>3 DEF JoinedOK
      <4>5. HopIn(Joined, Edge) = Rest[<<g, 0>>].val
        <5>1. PathIn(Joined, Edge)[Deepest] = Place(Level)
          BY <1>1, <1>2, <1>7, <3>3, <4>1, <4>4, WaysEnd
        <5> QED BY <4>4, <5>1 DEF HopIn
      <4>6. Expected(Edge) = op.hop
        <5>1. Within(Edge)
          <6>1. Edge = op.ledge \/ Edge = Final
            BY DEF Edge, Final
          <6> QED BY <1>1, <4>1, <6>1 DEF GapShape, Address
        <5>2. DoneIn(Edge)
          BY <1>1 DEF DoneIn, Edge, Final, Edges
        <5>3. Done(Edge) /\ Exposed(rib, op.key, Edge)
          BY <1>1, <4>1, <5>1, <5>2 DEF Done, GapShape, Edges
        <5> QED BY <1>1, <5>3 DEF Expected
      <4> QED BY <1>1, <4>1, <4>5, <4>6 DEF TrieOK, Agreed
    <3>5. TableHop(ip)' = op.hop
      <4>1. \A k \in Depths : k < n - 1 => entries'[v[k]] = entries[v[k]]
        <5> TAKE k \in Depths
        <5> SUFFICES ASSUME k < n - 1 PROVE entries'[v[k]] = entries[v[k]]
          OBVIOUS
        <5>1. k < n /\ k + 1 < n /\ k + 1 \in Depths /\ k + 1 # 1 /\ (k + 1) - 1 = k
          BY <2>2, <2>4, Sizes DEF Depths
        <5>2. v[k][1] # g /\ v[k] \in Places /\ v[k + 1][1] # g
          BY <2>5, <5>1
        <5>3. v[k] # q
          <6>1. v[k] = q => v[k + 1] = <<g, get_idx(ip, k + 1)>>
            <7>1. Link(g).ext /\ Link(g).val = g
              BY DEF Link
            <7> QED BY <1>1, <2>10, <5>1, <7>1, PathStep
          <6> QED BY <5>2, <6>1
        <5> QED BY <1>6, <3>2, <5>2, <5>3 DEF Folded
      <4>2. PathIn(entries', ip)[n - 1] = q
        <5>1. PathIn(entries', ip)[n - 1] = v[n - 1]
          <6> HIDE DEF v
          <6> QED BY <1>1, <2>4, <3>2, <4>1, WaySoFar DEF v
        <5> QED BY <2>6, <5>1
      <4>3. PathIn(entries', ip)[Deepest] = q
        BY <1>7, <2>4, <3>2, <3>3, <4>2, WaysEnd
      <4>4. TableHop(ip)' = HopIn(entries', ip)
        BY WriteRestKeepsInv, AnswersAreNext
      <4> QED BY <3>3, <3>4, <4>3, <4>4 DEF HopIn
    <3> QED BY <2>6, <2>9, <2>12, <3>1, <3>5
  <2> QED BY <2>11, <2>12
<1> QED BY <1>9, <1>10

\* What an update may do to the answers of lookups.
NoStrayWrite ==
  intact' => \A ip \in Address :
    TableHop(ip)' # TableHop(ip) =>
      /\ TableHop(ip)' = op.hop
      /\ Holds(op.key, ip)
      /\ \A q \in Longer(rib, op.key) : ~Holds(q, ip)

LEMMA SeenChanges ==
  ASSUME IndInv, AgreeInv, IndInv', AgreeInv', intact, Busy, Continued,
         \A ip \in Address : Exposed(rib, op.key, ip) /\ Done(ip) => Done(ip)',
         op'.up => \A ip \in Address : Hidden(ip)' => Hidden(ip)
  PROVE  NoStrayWrite
<1> SUFFICES ASSUME NEW ip \in Address, TableHop(ip)' # TableHop(ip)
             PROVE  TableHop(ip)' = op.hop /\ Exposed(rib, op.key, ip)
  BY DEF NoStrayWrite, Exposed
<1>1. type = "TRIE" /\ type' = "TRIE" /\ op.pc # "idle" /\ op'.pc # "idle" /\ intact'
      /\ rib' = rib /\ op'.key = op.key /\ op'.hop = op.hop /\ Old' = Old
  BY DEF Busy, Continued, IndInv, OpOK, Old
<1>2. /\ TableHop(ip) = IF Hidden(ip) THEN Old ELSE Expected(ip)
      /\ Hidden(ip) => Within(ip) \/ Expected(ip) = Old
  BY <1>1, SeenIs DEF SeenOK
<1>3. /\ TableHop(ip)' = IF Hidden(ip)' THEN Old ELSE Expected(ip)'
      /\ Hidden(ip)' /\ ~op'.up => Expected(ip)' = Old
  <2>1. SeenOK'
    BY <1>1, SeenIsNext
  <2> QED BY <1>1, <2>1 DEF SeenOK, Address, MAX_DEPTH
<1>4. Hidden(ip) /\ Within(ip) => Exposed(rib, op.key, ip)
  <2> SUFFICES ASSUME Hidden(ip), Within(ip) PROVE Exposed(rib, op.key, ip)
    OBVIOUS
  <2>1. op.pc # "gap"
    BY DEF Hidden, Open, Edges
  <2> QED BY <2>1, GapShaped DEF GapShape
<1> DEFINE X == Exposed(rib, op.key, ip)
<1>5. /\ Expected(ip) = IF ~X THEN RibHop(rib, ip) ELSE IF Done(ip) THEN op.hop ELSE Old
      /\ Expected(ip)' = IF ~X THEN RibHop(rib, ip) ELSE IF Done(ip)' THEN op.hop ELSE Old
      /\ X /\ Done(ip) => Done(ip)'
  BY <1>1 DEF Expected
<1>6. op'.up /\ Hidden(ip)' => Hidden(ip)
  OBVIOUS
<1> HIDE DEF X
<1> QED BY <1>2, <1>3, <1>4, <1>5, <1>6 DEF X

\* A table that the edge comes back to leaves the open ones above it alone.
LEMMA HiddenStays ==
  ASSUME IndInv, AgreeInv, intact, FoldBottom \/ FoldRest, op'.up
  PROVE  \A ip \in Address : Hidden(ip)' => Hidden(ip)
<1>1. /\ JoinedOK /\ Level \in Nat \ {0} /\ op.path \in Seq(Groups \cup {tbl24})
      /\ entries \in [Places -> [ext : BOOLEAN, val : Hops]]
  BY JoinedIs, Walking DEF IndInv, TablesOK
<1> PICK level : level = IF FoldBottom THEN Level ELSE Level - 1
  OBVIOUS
<1>2. Moved(level)
  BY BottomMoves, RestDone
<1>3. /\ level \in Nat \ {0} /\ level \in 1..Level /\ Level' = level
      /\ \A n \in 1..(level - 1) : n \in 1..Level /\ Place(n)' = Place(n)
      /\ Open' \subseteq Open /\ Open' \subseteq 1..(level - 1)
      /\ Open' # {} => Edge' = Edge
  BY <1>2, MovedPlaces
<1>4. ASSUME NEW k \in Open'
      PROVE  /\ k \in Open /\ Place(k)' = Place(k) /\ Edge' = Edge
             /\ entries'[Place(k)] = entries[Place(k)]
  <2>1. /\ k \in Open /\ k \in 1..(level - 1) /\ Place(k)' = Place(k) /\ Edge' = Edge
        /\ k \in 1..Level
    BY <1>3
  <2>2. Place(k) \in Places
    BY <1>1, <2>1 DEF JoinedOK
  <2>3. CASE FoldBottom
    <3>1. Place(k) # Here
      <4>1. k # Level /\ Level \in 1..Level
        BY <1>1, <1>3, <2>1, <2>3
      <4> QED BY <1>1, <2>1, <4>1 DEF JoinedOK, Here
    <3> QED BY <2>1, <2>2, <2>3, <3>1 DEF FoldBottom, Written
  <2>4. CASE ~FoldBottom
    <3>1. FoldRest /\ level = Level - 1
      BY <2>4
    <3>2. /\ k # Level /\ Level \in 1..Level /\ k # Level - 1 /\ Level - 1 \in 1..Level
      BY <1>1, <1>3, <2>1, <3>1
    <3>3. Place(k)[1] # op.path[Level] /\ Place(k) # Place(Level - 1)
      <4>1. Place(Level)[1] = op.path[Level]
        BY DEF Place
      <4> QED BY <1>1, <2>1, <3>2, <4>1 DEF JoinedOK
    <3> DEFINE g == op.path[Level]
               filled == Written({g} \X Beside, Leaf(op.hop))
               q == Place(Level - 1)
    <3>4. \/ entries' = Folded(filled, q, g)
          \/ entries' = [filled EXCEPT ![q] = Link(g)]
      BY <3>1 DEF FoldRest
    <3>5. filled[Place(k)] = entries[Place(k)] /\ DOMAIN filled = Places
      <4>1. Place(k) \notin {g} \X Beside
        BY <3>3
      <4> QED BY <2>2, <4>1 DEF Written
    <3> HIDE DEF filled
    <3>6. ASSUME entries' = Folded(filled, q, g) PROVE entries'[Place(k)] = filled[Place(k)]
      BY <2>2, <3>3, <3>5, <3>6 DEF Folded
    <3>7. ASSUME entries' = [filled EXCEPT ![q] = Link(g)]
          PROVE  entries'[Place(k)] = filled[Place(k)]
      BY <2>2, <3>3, <3>5, <3>7
    <3> QED BY <2>1, <3>4, <3>5, <3>6, <3>7
  <2> QED BY <2>3, <2>4
<1> TAKE ip \in Address
<1>5. ASSUME Hidden(ip)' PROVE Hidden(ip)
  <2>1. PICK k \in Open' : ~entries'[Place(k)'].ext /\ Lead(ip, k) = Lead(Edge', k)
    BY <1>5 DEF Hidden, Lead, Leading, Size, MAX_DEPTH
  <2> QED BY <1>4, <2>1 DEF Hidden
<1> QED BY <1>5

LEMMA WritesDone ==
  ASSUME AgreeInv, Busy, NEW T, Writes(T), NEW ip \in Address, Done(ip)
  PROVE  Done(ip)'
<1>1. /\ InGapOn /\ op.pc # "gap" /\ op'.pc # "gap" /\ op'.ledge = op.ledge
  BY DEF Writes, InGapOn
<1>2. Within(ip)' <=> Within(ip)
  BY <1>1, GapGoesOn
<1>3. Done(ip)' <=> ip < op'.ledge \/ (Within(ip)' /\ DoneIn(ip)')
  BY <1>1, DoneNext
<1>4. Within(ip) /\ DoneIn(ip) => DoneIn(ip)'
  BY DEF Writes
<1> QED BY <1>1, <1>2, <1>3, <1>4 DEF Done

-----------------------------------------------------------------------------
(* The agreement of tables and RIB *)

\* Every step of an update but the failing ones and the last goes on with it.
LEMMA StepMoves ==
  ASSUME IndInv, AgreeInv,
         NextGap \/ LastGap \/ Follow \/ tbl8_alloc \/ FoldBottom \/ FoldRest
           \/ WriteBetween \/ RecycleRoot
  PROVE  Continued /\ Busy /\ GapOK' /\ CallOK' /\ RoutesOK(rib') /\ Busy' /\ op'.pc # "failed"
<1>1. CASE NextGap \/ LastGap
  <2>1. GapOK' /\ Continued
    BY <1>1, NextGapAgrees, LastGapAgrees
  <2>2. Busy
    BY <1>1 DEF Busy, NextGap, LastGap
  <2>3. CallOK /\ RoutesOK(rib)
    BY <2>2 DEF AgreeInv
  <2>4. CallOK' /\ RoutesOK(rib')
    BY <2>1, <2>3 DEF CallOK, Continued
  <2> QED BY <2>1, <2>2, <2>4 DEF Continued, Busy
<1>2. ASSUME InGapOn, Busy PROVE Continued /\ GapOK' /\ CallOK' /\ RoutesOK(rib') /\ Busy'
                                 /\ op'.pc # "failed"
  BY <1>2, GapGoesOn DEF InGapOn
<1>3. CASE Follow
  <2>1. entries[Here].val \in Groups /\ Descending /\ Enter(entries[Here].val)
        /\ UNCHANGED Local /\ intact' = intact
    BY <1>3, Walking DEF Follow, Here, IndInv, TablesOK
  <2>2. InGapOn /\ Busy
    BY <2>1, EnterMoves
  <2> QED BY <1>2, <2>2
<1>4. CASE tbl8_alloc
  <2>1. PICK g : g = Head(free)
    OBVIOUS
  <2>2. InGapOn /\ Busy
    BY <1>4, <2>1, AllocTables, EnterMoves
  <2> QED BY <1>2, <2>2
<1>5. CASE FoldBottom
  BY <1>2, <1>5, BottomMoves DEF Moved
<1>6. CASE FoldRest
  <2>1. op.pc \in Edges /\ Level - 1 \in 1..Level /\ Level - 1 >= Root /\ FoldAscend(Level - 1)
        /\ UNCHANGED Local /\ intact' = intact
    <3>1. op.pc \in Edges /\ op.up /\ FoldAscend(Level - 1) /\ UNCHANGED Local /\ intact' = intact
      BY <1>6 DEF FoldRest, Edges
    <3>2. Level > Root /\ Root \in Nat \ {0} /\ Level \in Nat \ {0}
      BY <3>1, Walking DEF IndInv, Progress
    <3> QED BY <3>1, <3>2
  <2>2. InGapOn /\ Busy
    BY <2>1, AscendMoves DEF Moved
  <2> QED BY <1>2, <2>2
<1>7. CASE WriteBetween
  <2>1. op.pc = "between" /\ op' = [op EXCEPT !.pc = "redge"] /\ UNCHANGED Local /\ intact' = intact
    BY <1>7 DEF WriteBetween
  <2>2. op \in Call
    BY DEF IndInv, OpOK
  <2>3. InGapOn /\ Busy
    BY <2>1, <2>2 DEF InGapOn, Continued, Busy, Call, Local
  <2> QED BY <1>2, <2>3
<1>8. CASE RecycleRoot
  BY <1>8, RecycleMoves DEF Continued, Busy
<1> QED BY <1>1, <1>3, <1>4, <1>5, <1>6, <1>7, <1>8

\* The tables agree after it, and lookups see only what it may write.
LEMMA StepAgreesOn ==
  ASSUME IndInv, AgreeInv, IndInv',
         NextGap \/ LastGap \/ Follow \/ tbl8_alloc \/ FoldBottom \/ FoldRest
           \/ WriteBetween \/ RecycleRoot
  PROVE  AgreeInv' /\ [NoStrayWrite]_entries
<1>1. Continued /\ Busy /\ GapOK' /\ CallOK' /\ RoutesOK(rib') /\ Busy' /\ op'.pc # "failed"
  BY StepMoves
<1>2. CASE ~intact
  <2>1. ~intact'
    BY <1>1, <1>2 DEF Continued
  <2> QED BY <1>1, <2>1 DEF AgreeInv, NoStrayWrite
<1>3. CASE intact
  <2>1. ASSUME TrieOK' PROVE AgreeInv'
    BY <1>1, <2>1 DEF AgreeInv
  <2>2. ASSUME TrieOK', \A ip \in Address : Exposed(rib, op.key, ip) /\ Done(ip) => Done(ip)',
               op'.up => \A ip \in Address : Hidden(ip)' => Hidden(ip)
        PROVE  AgreeInv' /\ NoStrayWrite
    BY <1>1, <1>3, <2>1, <2>2, SeenChanges
  <2>3. CASE NextGap \/ LastGap
    <3>1. UNCHANGED tables /\ op.pc = "gap"
      BY <2>3 DEF NextGap, LastGap
    <3>2. Level = 1
      BY <3>1 DEF IndInv, Progress
    <3>3. /\ op'.pc \in {"gap", "root", "ledge"} /\ Level' = 1
          /\ \A ip \in Address : Exposed(rib, op.key, ip) => (Done(ip)' <=> Done(ip))
      BY <2>3, <3>2, NextGapAgrees, LastGapAgrees
    <3>4. TrieOK'
      BY <1>1, <1>3, <3>1, <3>3, GapStep
    <3> QED BY <2>1, <3>1, <3>4 DEF tables
  <2>4. CASE Follow \/ tbl8_alloc
    <3>1. TrieOK' /\ InGapOn /\ \A ip : Done(ip)' <=> Done(ip)
      BY <1>3, <2>4, FollowAgrees, AllocAgrees
    <3>2. PICK g \in Groups : Descending /\ Enter(g) /\ UNCHANGED Local /\ intact' = intact
      <4>1. CASE Follow
        BY <4>1, Walking DEF Follow, Here, IndInv, TablesOK
      <4>2. CASE tbl8_alloc
        <5>1. PICK g : g = Head(free)
          OBVIOUS
        <5> QED BY <4>2, <5>1, AllocTables
      <4> QED BY <2>4, <4>1, <4>2
    <3>3. ~op'.up
      BY <3>2, EnterMoves
    <3> QED BY <2>2, <3>1, <3>3
  <2>5. CASE FoldBottom \/ FoldRest \/ WriteBetween
    <3>1. PICK T : Wrote(T)
      BY <1>3, <2>5, BottomAgrees, RestAgrees, BetweenAgrees
    <3>2. TrieOK' /\ Writes(T)
      BY <3>1 DEF Wrote
    <3>3. \A ip \in Address : Done(ip) => Done(ip)'
      BY <1>1, <3>2, WritesDone
    <3>4. op'.up => \A ip \in Address : Hidden(ip)' => Hidden(ip)
      <4>1. CASE FoldBottom \/ FoldRest
        BY <1>3, <4>1, HiddenStays
      <4>2. CASE WriteBetween
        <5>1. op.pc = "between" /\ op' = [op EXCEPT !.pc = "redge"] /\ op \in Call
          BY <4>2 DEF WriteBetween, IndInv, OpOK
        <5>2. ~op.up
          BY <5>1 DEF IndInv, Progress, Edges
        <5>3. ~op'.up
          BY <5>1, <5>2 DEF Call
        <5> QED BY <5>3
      <4> QED BY <2>5, <4>1, <4>2
    <3> QED BY <2>2, <3>2, <3>3, <3>4
  <2>6. CASE RecycleRoot
    <3>1. TrieOK' /\ \A ip \in Address : Done(ip)' <=> Done(ip)
      BY <1>3, <2>6, RecycleMoves, RecycleAgrees
    <3>2. op'.pc \in {"recycle", "gap"}
      BY <2>6, RecycleMoves
    <3>3. ~op'.up
      BY <3>2 DEF IndInv, Progress, Edges
    <3> QED BY <2>2, <3>1, <3>3
  <2> QED BY <2>3, <2>4, <2>5, <2>6
<1> QED BY <1>2, <1>3

LEMMA StepAgrees ==
  ASSUME IndInv, AgreeInv, IndInv', FoldStep
  PROVE  AgreeInv' /\ [NoStrayWrite]_entries
<1>1. CASE OutOfGroups \/ Fail
  <2>1. UNCHANGED entries
    BY <1>1 DEF OutOfGroups, Fail, tables
  <2> QED BY <1>1, <2>1, FailingAgrees
<1>2. CASE Succeed
  <2>1. UNCHANGED entries
    BY <1>2 DEF Succeed, tables
  <2> QED BY <1>2, <2>1, SucceedAgrees
<1> QED BY <1>1, <1>2, StepAgreesOn DEF FoldStep

\* A step that leaves everything alone.
LEMMA StutterAgrees ==
  ASSUME AgreeInv, UNCHANGED vars
  PROVE  AgreeInv'
<1>1. UNCHANGED <<type, rib, entries, free, op, intact>>
  BY DEF vars, tables
<1>2. CallOK' <=> CallOK
  BY <1>1 DEF CallOK
<1>3. Root' = Root /\ Edge' = Edge /\ Level' = Level /\ Open' = Open
      /\ BottomTable' = BottomTable /\ OnPath' = OnPath /\ Old' = Old
  BY <1>1 DEF Root, Edge, Level, Open, BottomTable, OnPath, Old, RootTable, LastIn,
              common_bytes, Byte, MAX_DEPTH, Filler
<1>4. \A n : Place(n)' = Place(n)
  BY <1>1, <1>3 DEF Place, get_idx, Byte
<1>5. Joined' = Joined /\ Here' = Here
  BY <1>1, <1>3, <1>4 DEF Joined, Closed, At, Here, Place, Places, Groups, Slots, Link, get_idx, Byte
<1>6. /\ \A a : Pos(a)' = Pos(a)
      /\ Final' = Final
      /\ GapOK' <=> GapOK
  BY <1>1 DEF Pos, Final, LastIn, MAX_DEPTH, GapOK, BetweenGaps, InGap, Past, Size
<1>7. ASSUME NEW ip
      PROVE  (Within(ip)' <=> Within(ip)) /\ (Done(ip)' <=> Done(ip)) /\ Expected(ip)' = Expected(ip)
  <2>1. Within(ip)' <=> Within(ip)
    BY <1>1, <1>6 DEF Within
  <2>2. DoneIn(ip)' <=> DoneIn(ip)
    <3>1. DoneIn(ip)' <=>
              \/ op'.pc = "ledge" /\ op'.up /\ Lead(ip, Level') = Lead(op'.ledge, Level')
              \/ op'.pc \in {"between", "redge"} /\ Lead(ip, Root') = Lead(op'.ledge, Root')
              \/ op'.pc = "redge" /\ Lead(ip, Root') < Lead(Final', Root')
              \/ op'.pc = "redge" /\ op'.up /\ Lead(ip, Level') = Lead(Final', Level')
              \/ op'.pc = "recycle"
      BY DoneNext
    <3>2. op' = op /\ Level' = Level /\ Root' = Root /\ Final' = Final
      BY <1>1, <1>3, <1>6
    <3> HIDE DEF Level, Root, Final
    <3>3. /\ Lead(ip, Level') = Lead(ip, Level) /\ Lead(op'.ledge, Level') = Lead(op.ledge, Level)
          /\ Lead(ip, Root') = Lead(ip, Root) /\ Lead(op'.ledge, Root') = Lead(op.ledge, Root)
          /\ Lead(Final', Root') = Lead(Final, Root) /\ Lead(Final', Level') = Lead(Final, Level)
      BY <3>2
    <3> QED BY <3>1, <3>2, <3>3 DEF DoneIn
  <2>3. Done(ip)' <=> Done(ip)
    BY <1>1, <1>6, <2>1, <2>2, DoneNext DEF Done
  <2>4. Expected(ip)' = Expected(ip)
    <3>1. op'.pc = "idle" \/ ~Exposed(rib', op'.key, ip) <=> op.pc = "idle" \/ ~Exposed(rib, op.key, ip)
      BY <1>1
    <3>2. RibHop(rib', ip) = RibHop(rib, ip) /\ op'.hop = op.hop /\ Old' = Old
      BY <1>1, <1>3
    <3>3. Expected(ip)' = IF op'.pc = "idle" \/ ~Exposed(rib', op'.key, ip) THEN RibHop(rib', ip)
                          ELSE IF Done(ip)' THEN op'.hop ELSE Old'
      BY DEF Expected
    <3> QED BY <2>3, <3>1, <3>2, <3>3 DEF Expected
  <2> QED BY <2>1, <2>3, <2>4
<1>8. TrieOK => TrieOK'
  <2> SUFFICES ASSUME TrieOK PROVE TrieOK'
    OBVIOUS
  <2>1. PathLinked'
    BY <1>1, <1>3, <1>4 DEF TrieOK, PathLinked, Link
  <2>2. OnEdge'
    BY <1>1, <1>3 DEF TrieOK, OnEdge
  <2>3. HiddenOld'
    BY <1>1, <1>3, <1>4, <1>7 DEF TrieOK, HiddenOld, Address, MAX_DEPTH, Lead, Leading, Size
  <2>4. VariedGroups'
    BY <1>1, <1>3, <1>5 DEF TrieOK, VariedGroups, Uniform, Places, Groups, Slots
  <2>5. NoneLost' /\ Leafy(Joined')
    BY <1>1, <1>5 DEF TrieOK, NoneLost, Groups
  <2>6. Agreed'
    <3>1. \A ip \in Address : HopIn(Joined', ip) = Expected(ip)' \/ type # "TRIE"
      BY <1>5, <1>7 DEF TrieOK, Agreed
    <3>2. Agreed' <=> (type' = "TRIE" => \A ip \in Address : HopIn(Joined', ip) = Expected(ip)')
      BY DEF Agreed, HopIn, PathIn, Behind, Address, MAX_DEPTH, Depths, Deepest, get_idx, Byte
    <3> QED BY <1>1, <3>1, <3>2
  <2> QED BY <2>1, <2>2, <2>3, <2>4, <2>5, <2>6 DEF TrieOK
<1> QED BY <1>1, <1>2, <1>6, <1>8 DEF AgreeInv, Busy

LEMMA NextAgrees ==
  ASSUME NoDefaultRoute
  PROVE  IndInv /\ AgreeInv /\ [FoldNext]_vars => AgreeInv' /\ [NoStrayWrite]_entries
<1> SUFFICES ASSUME IndInv, AgreeInv, [FoldNext]_vars
             PROVE  AgreeInv' /\ [NoStrayWrite]_entries
  OBVIOUS
<1>i. IndInv'
  BY NextKeepsInv
<1>1. ASSUME NEW r \in Routes,
             RejectDepth(r) \/ (\E hop \in NextHops : rte_fib6_add(r, hop)) \/ rte_fib6_delete(r)
      PROVE  AgreeInv' /\ UNCHANGED entries
  <2>1. CASE RejectDepth(r)
    <3>1. op.pc = "idle" /\ rib' = rib /\ UNCHANGED <<type, tables, op, intact>>
      BY <2>1 DEF RejectDepth, Return
    <3> QED BY <3>1, <1>i, ReturnsAgree DEF AgreeInv, tables
  <2>2. CASE \E hop \in NextHops : rte_fib6_add(r, hop)
    <3>1. UNCHANGED entries
      BY <2>2 DEF rte_fib6_add, dummy_add, AddSame, Change, AddRefused, Add,
                  NoNode, Return, modify_dp, tables
    <3> QED BY <2>2, <3>1, AddAgrees
  <2>3. CASE rte_fib6_delete(r)
    <3>1. UNCHANGED entries
      BY <2>3 DEF rte_fib6_delete, dummy_delete, DeleteAbsent, Delete, Return, modify_dp, tables
    <3> QED BY <2>3, <3>1, DeleteAgrees
  <2> QED BY <1>1, <2>1, <2>2, <2>3
<1>2. CASE \E ip \in Probes : rte_fib6_lookup_bulk(ip)
  <2>1. op.pc = "idle" /\ rib' = rib /\ UNCHANGED <<type, tables, op, intact>>
    BY <1>2 DEF rte_fib6_lookup_bulk
  <2> QED BY <2>1, <1>i, ReturnsAgree DEF AgreeInv, tables
<1>3. CASE FoldStep
  BY <1>i, <1>3, StepAgrees
<1>4. CASE UNCHANGED vars
  BY <1>4, StutterAgrees DEF vars, tables
<1> QED BY <1>1, <1>2, <1>3, <1>4 DEF FoldNext

LEMMA AgreeInvariant ==
  ASSUME NoDefaultRoute
  PROVE  FoldSpec => [](IndInv /\ AgreeInv)
BY CreateEstablishesInv, CreateAgrees, NextKeepsInv, NextAgrees, PTL DEF FoldSpec

LEMMA AgreeInvSuffices ==
  IndInv /\ AgreeInv => LookupAgrees /\ NoGroupMissing
<1> SUFFICES ASSUME IndInv, AgreeInv PROVE LookupAgrees /\ NoGroupMissing
  OBVIOUS
<1>1. LookupAgrees
  <2> SUFFICES ASSUME op.pc = "idle", intact, NEW ip \in Address
               PROVE  LookupHop(ip) = RibHop(rib, ip)
    BY DEF LookupAgrees
  <2>1. type \in {"DUMMY", "TRIE"}
    BY FibTrieAssumption DEF IndInv
  <2>2. CASE type = "DUMMY"
    BY <2>2 DEF LookupHop
  <2>3. CASE type = "TRIE"
    <3>1. SeenOK /\ ~Hidden(ip)
      BY <2>3, SeenIs DEF Hidden, Open, Edges
    <3>2. Expected(ip) = RibHop(rib, ip)
      BY DEF Expected
    <3> QED BY <2>3, <3>1, <3>2 DEF SeenOK, LookupHop
  <2> QED BY <2>1, <2>2, <2>3
<1>2. NoGroupMissing
  <2> SUFFICES ASSUME intact
               PROVE  Groups = Range(free) \cup {entries[p].val : p \in Linkers} \cup OnPath
    BY DEF NoGroupMissing
  <2>1. JoinedOK /\ TrieOK
    BY JoinedIs DEF AgreeInv
  <2>2. ASSUME NEW g \in Groups
        PROVE  g \in Range(free) \cup {entries[p].val : p \in Linkers} \cup OnPath
    <3>1. CASE g \in Range(free)
      BY <3>1
    <3>2. CASE g \in LinksIn(Joined)
      <4>1. PICK ip \in Address, n \in Depths : Joined[PathIn(Joined, ip)[n]] = Link(g)
        BY <3>2 DEF LinksIn
      <4> DEFINE p == PathIn(Joined, ip)[n]
      <4>2. p \in Places
        BY <2>1, PathStep DEF JoinedOK
      <4>3. Link(g).ext /\ Link(g).val = g
        BY DEF Link
      <4>4. CASE \E k \in Open : p = Place(k)
        <5>1. PICK k \in Open : p = Place(k)
          BY <4>4
        <5>2. Joined[p] = Link(op.path[k + 1]) /\ k \in 1..(Level - 1) /\ Level \in Nat
          BY <2>1, <5>1 DEF JoinedOK
        <5>3. Link(op.path[k + 1]).val = op.path[k + 1]
          BY DEF Link
        <5>4. g = op.path[k + 1] /\ k + 1 \in 2..Level
          BY <4>1, <4>3, <5>2, <5>3
        <5> QED BY <5>4 DEF OnPath, Level
      <4>5. CASE \A k \in Open : p # Place(k)
        <5>1. Joined[p] = entries[p]
          BY <2>1, <4>2, <4>5 DEF JoinedOK
        <5> QED BY <4>1, <4>2, <4>3, <5>1 DEF Linkers
      <4> QED BY <4>4, <4>5
    <3> QED BY <2>1, <3>1, <3>2 DEF TrieOK, NoneLost
  <2>3. Range(free) \subseteq Groups
    <3>1. free \in Seq(Groups)
      BY DEF IndInv, TablesOK
    <3> QED BY <3>1 DEF Range
  <2>4. {entries[p].val : p \in Linkers} \subseteq Groups
    BY DEF IndInv, TablesOK, Linkers
  <2>5. OnPath \subseteq Groups
    BY DEF OnPath, IndInv, OpOK, Level
  <2> QED BY <2>2, <2>3, <2>4, <2>5
<1> QED BY <1>1, <1>2

\* After every history of insertions, changes and deletions, between calls,
\* each address is answered as the RIB does, for callers that use no default
\* route and as long as no update has run out of groups (trie_modify,
\* install_to_dp, write_edge).
THEOREM LookupsAgree ==
  ASSUME NoDefaultRoute
  PROVE  FoldSpec => []LookupAgrees
BY AgreeInvariant, AgreeInvSuffices, PTL

\* If write_edge stored the entry above a group as it fills the group, a step of
\* an update would change an answer only to the next hop that is written, and
\* only under the route and outside its longer routes (build_common_root,
\* recycle_root_path).  FibTrieStepsProof says what it does.
THEOREM UpdatesStayInTheirGaps ==
  ASSUME NoDefaultRoute
  PROVE  FoldSpec => NoStrayFolds
<1>1. IndInv /\ AgreeInv /\ [FoldNext]_vars => [NoStrayWrite]_entries
  BY NextAgrees
<1> QED BY <1>1, AgreeInvariant, PTL DEF FoldSpec, NoStrayFolds, NoStrayWrite

\* No group is lost while no update runs out of them: what the edges take is
\* linked or folded back in the end (tbl8_get, write_edge, tbl8_recycle).
THEOREM NoGroupIsLost ==
  ASSUME NoDefaultRoute
  PROVE  FoldSpec => []NoGroupMissing
BY AgreeInvariant, AgreeInvSuffices, PTL

-----------------------------------------------------------------------------
(* The nodes of the RIB are enough *)

\* RIB and running call keep to masked routes, finitely many of them.
NodesInv ==
  /\ RoutesOK(rib)
  /\ IsFiniteSet(DOMAIN rib)
  /\ op.pc # "idle" => IsMasked(op.key)
  /\ NodesSuffice

\* What a step may do to what NodesInv is about.
LEMMA RibStays ==
  ASSUME NodesInv, rib' = rib, op'.pc # "idle" => op.pc # "idle" /\ op'.key = op.key,
         ret' = ret \/ ret'.status # "ENOMEM"
  PROVE  NodesInv'
BY DEF NodesInv, NodesSuffice

LEMMA RibChanges ==
  ASSUME NodesInv, NEW key, IsMasked(key), op'.pc # "idle" => op'.key = key,
         ret'.status # "ENOMEM",
         \/ \E hop : rib' = WithRule(rib, key, hop)
         \/ rib' = WithoutRules(rib, {key})
         \/ rib' = rib
  PROVE  NodesInv'
<1>1. DOMAIN rib' \subseteq DOMAIN rib \cup {key}
  BY DEF WithRule, WithoutRules
<1>2. IsFiniteSet(DOMAIN rib \cup {key})
  BY FS_AddElement DEF NodesInv
<1>3. IsFiniteSet(DOMAIN rib')
  BY <1>1, <1>2, FS_Subset
<1> QED BY <1>1, <1>3 DEF NodesInv, RoutesOK, NodesSuffice

LEMMA LackOfNodes ==
  ASSUME NodesInv, NEW r, IsMasked(Masked(r)), NoNode(r)
  PROVE  NodesInv'
<1>1. rib' = rib /\ op' = op /\ RibFull(rib, Masked(r))
  BY DEF NoNode, Return
<1>2. Cardinality(DOMAIN rib) >= MAX_ROUTES
  BY <1>1, FullOfRoutes, FibTrieAssumption DEF NodesInv
<1> QED BY <1>1, <1>2 DEF NodesInv, NodesSuffice

\* How a call ends or begins.
LEMMA CallShape ==
  ASSUME NEW key
  PROVE  /\ \A status : Return(status) => op' = op /\ ret'.status = status
         /\ \A call, hop, diff : modify_dp(call, key, hop, diff) =>
              op'.key = key /\ ret'.status = "pending"
<1>1. ASSUME NEW status, Return(status) PROVE op' = op /\ ret'.status = status
  BY <1>1 DEF Return, Answer
<1>2. ASSUME NEW call, NEW hop, NEW diff, modify_dp(call, key, hop, diff)
      PROVE  op'.key = key /\ ret'.status = "pending"
  BY <1>2 DEF modify_dp, Answer, Idle
<1> QED BY <1>1, <1>2

LEMMA NodesAtAdd ==
  ASSUME IndInv, NodesInv, NEW r \in Routes, NEW hop, rte_fib6_add(r, hop)
  PROVE  NodesInv'
<1> DEFINE key == Masked(r)
<1>1. op = Idle /\ op.pc = "idle" /\ r.depth <= MAX_DEPTH
  BY DEF IndInv, OpOK, rte_fib6_add, dummy_add, AddSame, Change,
         AddRefused, Add, Called, Idle
<1>2. IsMasked(key)
  <2>1. r.ip \in Address /\ r.depth \in 0..MAX_DEPTH
    BY <1>1, FibTrieAssumption, DepthsAreNaturals
  <2> QED BY <2>1, MaskedRoute
<1>3. CASE NoNode(r)
  BY <1>2, <1>3, LackOfNodes
<1>4. CASE ~NoNode(r)
  <2>1. rib' = rib \/ rib' = WithRule(rib, key, hop)
    BY <1>4 DEF rte_fib6_add, dummy_add, AddSame, Change, AddRefused, Add
  <2>2. \/ AddSame(r, hop)
        \/ \E status \in {"ok", "EINVAL", "ENOSPC"} : Return(status)
        \/ \E call, h, diff : modify_dp(call, key, h, diff)
    BY <1>4 DEF rte_fib6_add, dummy_add, Change, AddRefused, Add
  <2>3. AddSame(r, hop) => op' = op /\ ret'.status = "ok"
    BY DEF AddSame, Answer
  <2> HIDE DEF key
  <2> QED BY <1>1, <1>2, <2>1, <2>2, <2>3, CallShape, RibChanges
<1> QED BY <1>3, <1>4

LEMMA NodesAtDelete ==
  ASSUME IndInv, NodesInv, NEW r \in Routes, rte_fib6_delete(r)
  PROVE  NodesInv'
<1> DEFINE key == Masked(r)
<1>1. op = Idle /\ op.pc = "idle" /\ r.depth <= MAX_DEPTH
  BY DEF IndInv, OpOK, rte_fib6_delete, dummy_delete, DeleteAbsent, Delete, Called, Idle
<1>2. IsMasked(key)
  <2>1. r.ip \in Address /\ r.depth \in 0..MAX_DEPTH
    BY <1>1, FibTrieAssumption, DepthsAreNaturals
  <2> QED BY <2>1, MaskedRoute
<1>3. rib' = rib \/ rib' = WithoutRules(rib, {key})
  BY DEF rte_fib6_delete, dummy_delete, DeleteAbsent, Delete, Removed
<1>4. \/ \E status \in {"ok", "ENOENT"} : Return(status)
      \/ \E call, h, diff : modify_dp(call, key, h, diff)
  BY DEF rte_fib6_delete, dummy_delete, DeleteAbsent, Delete
<1> HIDE DEF key
<1> QED BY <1>1, <1>2, <1>3, <1>4, CallShape, RibChanges

LEMMA NodesAtStep ==
  ASSUME IndInv, NodesInv, FoldStep
  PROVE  NodesInv'
<1>1. op \in Call /\ op.pc # "idle"
  BY DEF IndInv, OpOK, FoldStep, NextGap, LastGap, Follow, tbl8_alloc, FoldBottom, FoldRest,
         WriteBetween, RecycleRoot, Descending, OutOfGroups, Succeed, Fail
<1>2. CASE Succeed \/ Fail
  <2>1. /\ op'.pc = "idle" /\ ret'.status # "ENOMEM" /\ IsMasked(op.key)
        /\ \/ rib' = rib
           \/ rib' = WithRule(rib, op.key, op.hop)
           \/ rib' = WithoutRules(rib, {op.key})
    BY <1>1, <1>2 DEF Succeed, Fail, Removed, Answer, Idle, NodesInv
  <2> QED BY <2>1, RibChanges
<1>3. CASE ~(Succeed \/ Fail)
  <2>1. UNCHANGED <<rib, ret>>
    BY <1>3 DEF FoldStep, NextGap, LastGap, Follow, tbl8_alloc, FoldBottom, FoldRest,
                WriteBetween, RecycleRoot, Enter, FoldAscend, OutOfGroups, Local
  <2>2. op'.key = op.key
    BY <1>1, <1>3 DEF FoldStep, NextGap, LastGap, Follow, tbl8_alloc, FoldBottom, FoldRest,
                WriteBetween, RecycleRoot, Enter, FoldAscend, OutOfGroups, Install, Call
  <2> QED BY <1>1, <2>1, <2>2, RibStays
<1> QED BY <1>2, <1>3

\* No route is refused for lack of memory below the number of routes that the
\* fib was created for, because a tree over n routes has at most 2n - 1 nodes
\* (rte_fib6_create, rte_rib6_insert).
THEOREM RoutesFit == FoldSpec => []NodesSuffice
<1>1. rte_fib6_create => NodesInv
  <2> SUFFICES ASSUME rte_fib6_create PROVE NodesInv
    OBVIOUS
  <2>1. DOMAIN rib = {} /\ op.pc = "idle" /\ ret.status = "ok"
    BY DEF rte_fib6_create, NoRules, Idle, Answer
  <2> QED BY <2>1, FS_EmptySet DEF NodesInv, RoutesOK, NodesSuffice
<1>2. IndInv /\ NodesInv /\ [FoldNext]_vars => NodesInv'
  <2> SUFFICES ASSUME IndInv, NodesInv, [FoldNext]_vars PROVE NodesInv'
    OBVIOUS
  <2>1. ASSUME NEW r \in Routes, RejectDepth(r) PROVE NodesInv'
    <3>1. UNCHANGED <<rib, op>> /\ ret'.status # "ENOMEM"
      BY <2>1 DEF RejectDepth, Return, Answer
    <3> QED BY <3>1, RibStays
  <2>2. ASSUME NEW ip \in Probes, rte_fib6_lookup_bulk(ip) PROVE NodesInv'
    <3>1. UNCHANGED <<rib, op>> /\ ret'.status # "ENOMEM"
      BY <2>2 DEF rte_fib6_lookup_bulk
    <3> QED BY <3>1, RibStays
  <2>3. CASE UNCHANGED vars
    <3>1. UNCHANGED <<rib, op, ret>>
      BY <2>3 DEF vars
    <3> QED BY <3>1, RibStays
  <2> QED BY <2>1, <2>2, <2>3, NodesAtAdd, NodesAtDelete, NodesAtStep DEF FoldNext
<1>3. NodesInv => NodesSuffice
  BY DEF NodesInv
<1> QED BY <1>1, <1>2, <1>3, CreateEstablishesInv, NextKeepsInv, PTL DEF FoldSpec

\* The updates of the tables implement the abstract fib: a dictionary of routes
\* in which an update takes effect as it returns and every lookup answers with
\* the most specific route (rte_fib6_add, rte_fib6_delete,
\* rte_fib6_lookup_bulk).
THEOREM TablesImplementFib ==
  ASSUME NoDefaultRoute
  PROVE  FoldSpec => ImplementsFib
BY LookupsAgree, RoutesFit, LookupsCompletePromise, PTL

-----------------------------------------------------------------------------
(* The tables that the routes need *)

\* The network behind the entry that an address uses in the table n.
TableBehind(ip, n) == TableOf(ip, TBL24_BYTES + n - 1)

LEMMA TableIs ==
  ASSUME NEW a \in Address, NEW n \in Depths
  PROVE  /\ IsMasked(TableBehind(a, n)) /\ TableBehind(a, n) \in Network
         /\ TableBehind(a, n).depth = BYTE_SIZE * (TBL24_BYTES + n - 1)
         /\ \A b \in Address : Holds(TableBehind(a, n), b) <=> Lead(b, n) = Lead(a, n)
         /\ \A b \in Address : Lead(b, n) = Lead(a, n) <=> TableBehind(b, n) = TableBehind(a, n)
<1> DEFINE m == TBL24_BYTES + n - 1
           d == BYTE_SIZE * m
<1>1. m \in 1..IPV6_ADDR_SIZE
  BY TableBytes
<1> HIDE DEF m
<1>2. m \in 0..IPV6_ADDR_SIZE
  BY <1>1
<1>3. d \in 0..MAX_DEPTH /\ Size(d) \in Nat \ {0}
  BY <1>2, BytesOfAddress
<1>4. ASSUME NEW b \in Address
      PROVE  ip6_mask_addr(b, d) = Size(d) * Leading(b, m) /\ Leading(b, m) \in Nat
  <2>1. Leading(b, m) \in Nat /\ Size(d) * Leading(b, m) <= b
        /\ b < Size(d) * Leading(b, m) + Size(d)
    BY <1>2, LeadingIs
  <2> HIDE DEF d
  <2>2. Leading(b, m) \in Int
    BY <2>1
  <2> QED BY <1>3, <2>1, <2>2, MaskFrom
<1>5. ASSUME NEW x \in Nat, NEW y \in Nat
      PROVE  Size(d) * x = Size(d) * y <=> x = y
  <2> DEFINE z == Size(d)
  <2>1. z \in Nat \ {0}
    BY <1>3
  <2> HIDE DEF z
  <2>2. x < y => z * x + z <= z * y
    BY <2>1, MultiplesApart
  <2>3. y < x => z * y + z <= z * x
    BY <2>1, MultiplesApart
  <2>4. z * x \in Nat /\ z * y \in Nat
    BY <2>1
  <2>5. z * x = z * y => x = y
    BY <2>1, <2>2, <2>3, <2>4
  <2> QED BY <2>5 DEF z
<1>6. TableBehind(a, n) = [ip |-> ip6_mask_addr(a, d), depth |-> d]
  BY DEF TableBehind, TableOf, m
<1>7. IsMasked(TableBehind(a, n))
  <2> DEFINE r == [ip |-> a, depth |-> d]
  <2>1. r.ip \in Address /\ r.depth \in 0..MAX_DEPTH
    BY <1>3
  <2>2. Masked(r) = TableBehind(a, n)
    BY <1>6 DEF Masked
  <2> QED BY <2>1, <2>2, MaskedRoute
<1>8. ASSUME NEW b \in Address
      PROVE  /\ Holds(TableBehind(a, n), b) <=> Lead(b, n) = Lead(a, n)
             /\ Lead(b, n) = Lead(a, n) <=> TableBehind(b, n) = TableBehind(a, n)
  <2>1. ip6_mask_addr(b, d) = ip6_mask_addr(a, d) <=> Leading(b, m) = Leading(a, m)
    BY <1>4, <1>5
  <2>2. Lead(b, n) = Leading(b, m) /\ Lead(a, n) = Leading(a, m)
    BY DEF Lead, m
  <2>3. TableBehind(b, n) = [ip |-> ip6_mask_addr(b, d), depth |-> d]
    BY DEF TableBehind, TableOf, m
  <2> HIDE DEF d
  <2> QED BY <1>6, <2>1, <2>2, <2>3 DEF Holds
<1> QED BY <1>6, <1>7, <1>8 DEF IsMasked, m

\* A route below such an entry needs the table.
LEMMA LongerNeeds ==
  ASSUME RoutesOK(rib), NEW a \in Address, NEW n \in Depths, Longer(rib, TableBehind(a, n)) # {}
  PROVE  TableBehind(a, n) \in Needed
<1> DEFINE m == TBL24_BYTES + n - 1
<1>1. PICK q \in DOMAIN rib : Inside(q, TableBehind(a, n))
  BY DEF Longer
<1>2. TableBehind(a, n).depth = BYTE_SIZE * m /\ IsMasked(q)
  BY <1>1, TableIs DEF RoutesOK
<1>3. m \in 1..IPV6_ADDR_SIZE /\ m >= TBL24_BYTES /\ TBL24_BYTES \in Nat
  BY TableBytes, Sizes DEF Depths
<1> HIDE DEF m
<1>4. q.depth > BYTE_SIZE * m /\ ip6_mask_addr(q.ip, BYTE_SIZE * m) = TableBehind(a, n).ip
  BY <1>1, <1>2 DEF Inside
<1>5. TableOf(q.ip, m) = TableBehind(a, n)
  <2>1. TableBehind(a, n) = [ip |-> ip6_mask_addr(a, BYTE_SIZE * m), depth |-> BYTE_SIZE * m]
    BY DEF TableBehind, TableOf, m
  <2> QED BY <1>4, <2>1 DEF TableOf
<1>6. m <= (q.depth - 1) \div BYTE_SIZE
  <2> DEFINE e == q.depth - 1
             k == e \div BYTE_SIZE
  <2>1. q.depth \in Nat /\ BYTE_SIZE \in Nat \ {0} /\ BYTE_SIZE * m \in Nat
    BY <1>2, <1>3, Sizes DEF IsMasked, Network
  <2>2. e \in Nat /\ BYTE_SIZE * m <= e
    BY <1>4, <2>1
  <2> HIDE DEF e
  <2>3. k \in Nat /\ e < BYTE_SIZE * k + BYTE_SIZE
    BY <2>1, <2>2, RoundedDown
  <2> HIDE DEF k
  <2>4. k < m => BYTE_SIZE * k + BYTE_SIZE <= BYTE_SIZE * m
    BY <1>3, <2>1, <2>3, MultiplesApart
  <2>5. BYTE_SIZE * k \in Nat
    BY <2>1, <2>3
  <2>6. ~(k < m)
    BY <2>1, <2>2, <2>3, <2>4, <2>5
  <2> QED BY <1>3, <2>3, <2>6 DEF k, e
<1>7. m \in TBL24_BYTES..((q.depth - 1) \div BYTE_SIZE)
  <2>1. (q.depth - 1) \div BYTE_SIZE \in Int
    <3>1. q.depth \in Nat /\ BYTE_SIZE \in Nat \ {0}
      BY <1>2, Sizes DEF IsMasked, Network
    <3> QED BY <3>1
  <2> QED BY <1>3, <1>6, <2>1
<1> QED BY <1>1, <1>5, <1>7 DEF Needed

LEMMA EdgeIsAddress ==
  IndInv => Edge \in Address
BY LastInAddress DEF IndInv, OpOK, Edge, Call

\* Each place on the way of a call links the next table.
LEMMA PlaceLinks ==
  ASSUME IndInv, PathLinked
  PROVE  \A n \in 1..(Level - 1) : Joined[Place(n)].ext /\ Joined[Place(n)].val = op.path[n + 1]
<1> SUFFICES ASSUME NEW n \in 1..(Level - 1)
             PROVE  Joined[Place(n)].ext /\ Joined[Place(n)].val = op.path[n + 1]
  OBVIOUS
<1>1. JoinedOK /\ Edge \in Address
  BY JoinedIs, EdgeIsAddress
<1>2. /\ n \in 1..Level /\ n + 1 \in 1..Level /\ n + 1 # 1 /\ (n + 1) - 1 = n
      /\ n + 1 \in Depths /\ IsTables(Joined)
  BY <1>1 DEF JoinedOK
<1>3. PathIn(Joined, Edge)[n] = Place(n) /\ PathIn(Joined, Edge)[n + 1] = Place(n + 1)
      /\ Reaches(Joined, Edge, n + 1)
  BY <1>2, EdgeReaches
<1>4. Joined[Place(n)].ext
  BY <1>2, <1>3 DEF Reaches
<1>5. PathIn(Joined, Edge)[n + 1] = <<Joined[Place(n)].val, get_idx(Edge, n + 1)>>
  BY ZenonT(30), <1>1, <1>2, <1>3, <1>4, PathStep
<1>6. Place(n + 1) = <<op.path[n + 1], get_idx(Edge, n + 1)>>
  BY DEF Place
<1> QED BY <1>3, <1>4, <1>5, <1>6

\* A group that is not on the way of a call is one that the answers below it
\* differ in.
LEMMA VariedBelow ==
  ASSUME IndInv, AgreeInv, intact, op.pc # "recycle", NEW a \in Address, NEW n \in Depths,
         Joined[PathIn(Joined, a)[n]].ext, Joined[PathIn(Joined, a)[n]].val \notin OnPath
  PROVE  \E b, c \in Address : /\ Lead(b, n) = Lead(a, n) /\ Lead(c, n) = Lead(a, n)
                               /\ HopIn(Joined, b) # HopIn(Joined, c)
<1>1. JoinedOK /\ TrieOK /\ IsTables(Joined) /\ OneLinkIn(Joined) /\ Leafy(Joined)
  BY JoinedIs DEF AgreeInv, TrieOK, JoinedOK
<1>2. ASSUME NEW b \in Address, NEW m \in Depths, m >= n, Lead(b, n) = Lead(a, n),
             Joined[PathIn(Joined, b)[m]].ext
      PROVE  ~Uniform(Joined, Joined[PathIn(Joined, b)[m]].val)
  <2> DEFINE p == PathIn(Joined, b)[m]
  <2>1. p \in Places
    BY <1>1, PathStep
  <2>2. Joined[p].val \notin OnPath
    <3> SUFFICES ASSUME Joined[p].val \in OnPath PROVE FALSE
      OBVIOUS
    <3>1. PICK k \in 2..Level : Joined[p].val = op.path[k]
      BY DEF OnPath, Level
    <3>2. p = Place(k - 1)
      BY <1>1, <1>2, <2>1, <3>1, OnPathPlace DEF TrieOK
    <3>3. Level \in Nat /\ k \in 1..Level /\ k - 1 \in 1..Level /\ k - 1 \in Depths /\ k \in Depths
      BY <1>1, <3>1 DEF JoinedOK
    <3>4. /\ PathIn(Joined, Edge)[k - 1] = Place(k - 1) /\ Reaches(Joined, Edge, k - 1)
      BY <1>1, <3>3, EdgeReaches DEF TrieOK
    <3>5. Reaches(Joined, b, m)
      BY <1>1, <1>2, WaysEnd
    <3>6. Edge \in Address
      BY EdgeIsAddress
    <3>7. k - 1 = m /\ Lead(Edge, k - 1) = Lead(b, m)
      <4> DEFINE j == k - 1
      <4>1. j \in Depths /\ Reaches(Joined, Edge, j)
            /\ PathIn(Joined, Edge)[j] = PathIn(Joined, b)[m]
        BY <3>2, <3>3, <3>4
      <4> HIDE DEF j, p
      <4> QED BY <1>1, <3>5, <3>6, <4>1, PathsMeet DEF j
    <3>8. n \in 1..m /\ Lead(Edge, n) = Lead(b, n)
      BY <1>2, <3>6, <3>7, LeadOrder DEF Depths
    <3>9. PathIn(Joined, Edge)[n] = PathIn(Joined, a)[n]
      BY <1>1, <1>2, <3>6, <3>8, PathsAlike
    <3>10. n \in 1..(Level - 1) /\ n \in 1..Level /\ Level \in Nat /\ n + 1 \in 2..Level
      BY <3>3, <3>7, <3>8
    <3>11. PathIn(Joined, a)[n] = Place(n)
      BY <1>1, <3>9, <3>10, EdgeReaches DEF TrieOK
    <3>12. Joined[Place(n)].val = op.path[n + 1]
      BY <1>1, <3>10, PlaceLinks DEF TrieOK
    <3> QED BY <3>10, <3>11, <3>12 DEF OnPath, Level
  <2> QED BY <1>1, <1>2, <2>1, <2>2 DEF TrieOK, VariedGroups
<1>3. \A ip \in Address : ~Joined[PathIn(Joined, ip)[Deepest]].ext
  BY <1>1 DEF Leafy
<1> QED BY <1>1, <1>2, <1>3, VariedAnswers

\* The dummy data plane leaves the tables as they were created.
DummyUntouched == type = "DUMMY" => Linkers = {}

\* Two addresses that come by a table nobody needs are treated alike.
LEMMA DividedTable ==
  ASSUME RoutesOK(rib), NEW a \in Address, NEW n \in Depths, NEW b \in Address, NEW c \in Address,
         Lead(b, n) = Lead(a, n), Lead(c, n) = Lead(a, n)
  PROVE  \/ TableBehind(a, n) \in Needed
         \/ /\ RibHop(rib, b) = RibHop(rib, c)
            /\ \A key \in DOMAIN rib : Exposed(rib, key, b) <=> Exposed(rib, key, c)
<1> DEFINE p == TableBehind(a, n)
<1>1. IsMasked(p) /\ Holds(p, b) /\ Holds(p, c)
  BY TableIs
<1>2. Longer(rib, p) # {} => p \in Needed
  BY LongerNeeds
<1> HIDE DEF p
<1>3. Longer(rib, p) = {} => /\ RibHop(rib, b) = RibHop(rib, c)
                             /\ \A key \in DOMAIN rib : Exposed(rib, key, b) <=> Exposed(rib, key, c)
  BY <1>1, Undivided
<1> QED BY <1>2, <1>3 DEF p

\* Between calls the answers below every group differ.
LEMMA IdleNeeds == IndInv /\ AgreeInv /\ DummyUntouched => GroupsNeeded
<1> SUFFICES ASSUME IndInv, AgreeInv, DummyUntouched, op.pc = "idle", intact,
                    NEW ip \in Address, NEW n \in Depths, Walk(ip)[n].ext
             PROVE  TableBehind(ip, n) \in Needed
  BY DEF GroupsNeeded, TableBehind
<1>1. JoinedOK /\ TrieOK /\ RoutesOK(rib) /\ IsTables(entries) /\ IsTables(Joined)
  BY JoinedIs DEF AgreeInv, JoinedOK
<1>2. Joined = entries
  <2>1. \A p \in Places : Joined[p] = entries[p]
    BY <1>1 DEF JoinedOK, Open, Edges
  <2> QED BY <1>1, <2>1 DEF IsTables
<1>3. Joined[PathIn(Joined, ip)[n]].ext /\ PathIn(Joined, ip)[n] \in Places
  BY <1>1, <1>2, WalkIs, PathStep
<1>4. type = "TRIE"
  <2>1. type \in {"DUMMY", "TRIE"}
    BY FibTrieAssumption DEF IndInv
  <2> QED BY <1>2, <1>3, <2>1 DEF DummyUntouched, Linkers
<1>5. OnPath = {}
  <2>1. Level = 1
    BY DEF IndInv, Progress
  <2> QED BY <2>1 DEF OnPath, Level
<1>6. PICK b, c \in Address : /\ Lead(b, n) = Lead(ip, n) /\ Lead(c, n) = Lead(ip, n)
                              /\ HopIn(Joined, b) # HopIn(Joined, c)
  BY <1>3, <1>5, VariedBelow
<1>7. RibHop(rib, b) # RibHop(rib, c)
  <2>1. HopIn(Joined, b) = RibHop(rib, b) /\ HopIn(Joined, c) = RibHop(rib, c)
    BY <1>1, <1>4 DEF TrieOK, Agreed, Expected
  <2> QED BY <1>6, <2>1
<1> QED BY <1>1, <1>6, <1>7, DividedTable

-----------------------------------------------------------------------------
(* The edges of the gaps *)

\* Where a route starts, or the first address behind one.
RouteEdge(R, a) == \E q \in DOMAIN R : a = q.ip \/ a = End(q)

\* The edges of a gap are those of routes.
EdgesKnown ==
  Busy => /\ RouteEdge(rib, op.ledge)
          /\ op.pc # "gap" => RouteEdge(rib, op.redge)

\* What one call or step may do to them.
LEMMA EdgesStep ==
  ASSUME IndInv, AgreeInv, [FoldNext]_vars
  PROVE  \/ op'.pc \in {"idle", "failed"}
         \/ op'.pc = "gap" /\ op'.ledge = op'.key.ip
         \/ UNCHANGED <<rib, op>>
         \/ NextGap \/ LastGap
         \/ op.pc # "gap" /\ op'.pc # "gap" /\ op'.ledge = op.ledge /\ op'.redge = op.redge
              /\ rib' = rib /\ Busy
         \/ op'.pc = "gap" /\ op'.ledge = op.redge /\ rib' = rib /\ Busy /\ op.pc # "gap"
<1>1. op \in Call
  BY DEF IndInv, OpOK
<1>2. ASSUME NEW r \in Routes,
             RejectDepth(r) \/ (\E hop \in NextHops : rte_fib6_add(r, hop)) \/ rte_fib6_delete(r)
      PROVE  op'.pc = "idle" \/ (op'.pc = "gap" /\ op'.ledge = op'.key.ip)
  <2>2. ASSUME NEW call, NEW key, NEW hop, NEW diff, modify_dp(call, key, hop, diff)
        PROVE  op'.pc = "gap" /\ op'.ledge = op'.key.ip
    BY <2>2 DEF modify_dp, Idle
  <2>3. CASE RejectDepth(r)
    BY <2>3 DEF RejectDepth, Return
  <2>4. CASE \E hop \in NextHops : rte_fib6_add(r, hop)
    <3>1. PICK hop \in NextHops : rte_fib6_add(r, hop)
      BY <2>4
    <3>2. CASE dummy_add(r, hop) \/ AddSame(r, hop) \/ AddRefused(r, hop)
      BY <3>2 DEF dummy_add, AddSame, AddRefused, NoNode, Called, Return
    <3>3. CASE Change(r, hop)
      BY <2>2, <3>3 DEF Change
    <3>4. CASE Add(r, hop)
      <4> DEFINE key == Masked(r)
                 diff == depth_diff(r)
      <4>1. op.pc = "idle" /\ (Return("ok") \/ modify_dp("add", key, hop, diff))
        BY <3>4 DEF Add, Called
      <4>2. CASE Return("ok")
        BY <4>1, <4>2 DEF Return
      <4>3. CASE modify_dp("add", key, hop, diff)
        <5> HIDE DEF key, diff
        <5> QED BY <2>2, <4>3
      <4> HIDE DEF key, diff
      <4> QED BY <4>1, <4>2, <4>3
    <3> QED BY <3>1, <3>2, <3>3, <3>4 DEF rte_fib6_add
  <2>5. CASE rte_fib6_delete(r)
    <3> DEFINE key == Masked(r)
               hop == ParentHop(rib, key)
               diff == depth_diff(r)
    <3>1. op.pc = "idle" /\ (op' = op \/ modify_dp("delete", key, hop, diff))
      BY <2>5 DEF rte_fib6_delete, dummy_delete, DeleteAbsent, Delete, Called, Return
    <3> HIDE DEF key, hop, diff
    <3> QED BY <2>2, <3>1
  <2> QED BY <1>2, <2>3, <2>4, <2>5
<1>3. CASE OutOfGroups \/ Succeed \/ Fail
  BY <1>1, <1>3 DEF OutOfGroups, Succeed, Fail, Idle, Call
<1>4. CASE (\E ip \in Probes : rte_fib6_lookup_bulk(ip)) \/ UNCHANGED vars
  BY <1>4 DEF rte_fib6_lookup_bulk, vars
<1>5. CASE Follow \/ tbl8_alloc \/ FoldBottom \/ FoldRest \/ WriteBetween
  <2>1. rib' = rib /\ Busy /\ op.pc # "gap"
    BY <1>5 DEF Follow, tbl8_alloc, FoldBottom, FoldRest, WriteBetween, Local, Busy, Descending
  <2>2. op'.pc # "gap" /\ op'.ledge = op.ledge /\ op'.redge = op.redge
    <3>1. ASSUME NEW g, Enter(g) PROVE op'.ledge = op.ledge /\ op'.redge = op.redge
                                       /\ (op'.pc = op.pc \/ op'.pc = "ledge")
      BY <1>1, <3>1 DEF Enter, Call
    <3>2. ASSUME NEW k, FoldAscend(k) PROVE op'.ledge = op.ledge /\ op'.redge = op.redge
                                       /\ (op'.pc = op.pc \/ op'.pc = "between" \/ op'.pc = "recycle")
      BY <1>1, <3>2 DEF FoldAscend, Call
    <3>3. CASE Follow \/ tbl8_alloc
      <4>1. \E g : Enter(g)
        BY <3>3 DEF Follow, tbl8_alloc
      <4> QED BY <2>1, <3>1, <4>1
    <3>4. CASE FoldBottom
      <4>1. op' = [op EXCEPT !.up = TRUE] \/ FoldAscend(Level)
        BY <3>4 DEF FoldBottom
      <4> QED BY <1>1, <2>1, <3>2, <4>1 DEF Call
    <3>5. CASE FoldRest
      <4>1. FoldAscend(Level - 1)
        BY <3>5 DEF FoldRest
      <4> QED BY <2>1, <3>2, <4>1
    <3>6. CASE WriteBetween
      BY <1>1, <3>6 DEF WriteBetween, Call
    <3> QED BY <1>5, <3>3, <3>4, <3>5, <3>6
  <2> QED BY <2>1, <2>2
<1>6. CASE RecycleRoot
  <2>1. rib' = rib /\ Busy /\ op.pc = "recycle"
    BY <1>6 DEF RecycleRoot, Local, Busy
  <2>2. op' = [op EXCEPT !.path = Front(@)] \/ op' = [op EXCEPT !.pc = "gap", !.ledge = op.redge]
    BY <1>6 DEF RecycleRoot
  <2> QED BY <1>1, <2>1, <2>2 DEF Call
<1> QED BY <1>2, <1>3, <1>4, <1>5, <1>6 DEF FoldNext, FoldStep

\* A gap starts and ends where routes do.
LEMMA EdgesKept ==
  ASSUME IndInv, AgreeInv, EdgesKnown, AgreeInv', [FoldNext]_vars
  PROVE  EdgesKnown'
<1>1. op \in Call
  BY DEF IndInv, OpOK
<1>2. CASE op'.pc \in {"idle", "failed"}
  BY <1>2 DEF EdgesKnown, Busy
<1>3. CASE op'.pc = "gap" /\ op'.ledge = op'.key.ip
  <2>1. op'.key \in DOMAIN rib'
    BY <1>3 DEF AgreeInv, Busy, CallOK
  <2>2. RouteEdge(rib', op'.ledge)
    BY <1>3, <2>1 DEF RouteEdge
  <2> QED BY <1>3, <2>2 DEF EdgesKnown, RouteEdge, End, MAX_DEPTH
<1>5. ASSUME rib' = rib, Busy, RouteEdge(rib, op'.ledge),
             op'.pc # "gap" => RouteEdge(rib, op'.redge)
      PROVE  EdgesKnown'
  BY <1>5 DEF EdgesKnown, RouteEdge, End, MAX_DEPTH
<1>4. CASE UNCHANGED <<rib, op>>
  BY <1>4, <1>5 DEF EdgesKnown, Busy, RouteEdge, End, MAX_DEPTH
<1>6. CASE NextGap
  <2> DEFINE q == First(op.todo)
             next == get_nxt_net(q)
             todo == After(q)
  <2>1. /\ op' = IF op.ledge = q.ip
                 THEN [op EXCEPT !.ledge = next, !.todo = todo]
                 ELSE Install(op.ledge, q.ip, FALSE)
        /\ rib' = rib /\ Busy /\ op.pc = "gap"
        /\ op.todo # {} /\ op.todo \in SUBSET Network
    BY <1>1, <1>6 DEF NextGap, Local, Busy, Call
  <2>2. q \in op.todo /\ next = End(q)
    BY <2>1, FirstIsMember DEF get_nxt_net
  <2> HIDE DEF q, next, todo
  <2>3. q \in DOMAIN rib
    BY <2>1, <2>2 DEF AgreeInv, GapOK, Nearest, Longer
  <2>4. RouteEdge(rib, q.ip) /\ RouteEdge(rib, next) /\ RouteEdge(rib, op.ledge)
    BY <2>1, <2>2, <2>3 DEF EdgesKnown, RouteEdge
  <2>5. CASE op.ledge = q.ip
    <3>1. op'.ledge = next /\ op'.pc = "gap"
      BY <1>1, <2>1, <2>5 DEF Call
    <3> QED BY <1>5, <2>1, <2>4, <3>1
  <2>6. CASE op.ledge # q.ip
    <3>1. op'.ledge = op.ledge /\ op'.redge = q.ip
      BY <1>1, <2>1, <2>6 DEF Call, Install
    <3> QED BY <1>5, <2>1, <2>4, <3>1
  <2> QED BY <2>5, <2>6
<1>7. CASE LastGap
  <2> DEFINE end == get_nxt_net(op.key)
  <2>1. /\ op' = IF op.ledge = end THEN [op EXCEPT !.last = TRUE]
                 ELSE Install(op.ledge, end, TRUE)
        /\ rib' = rib /\ Busy /\ op.pc = "gap"
    BY <1>7 DEF LastGap, Local, Busy
  <2>2. op.key \in DOMAIN rib /\ end = End(op.key)
    BY <2>1 DEF AgreeInv, CallOK, get_nxt_net
  <2>3. RouteEdge(rib, end) /\ RouteEdge(rib, op.ledge)
    BY <2>1, <2>2 DEF EdgesKnown, RouteEdge
  <2> HIDE DEF end
  <2>4. CASE op.ledge = end
    <3>1. op'.ledge = op.ledge /\ op'.pc = "gap"
      BY <1>1, <2>1, <2>4 DEF Call
    <3> QED BY <1>5, <2>1, <2>3, <3>1
  <2>5. CASE op.ledge # end
    <3>1. op'.ledge = op.ledge /\ op'.redge = end
      BY <1>1, <2>1, <2>5 DEF Call, Install
    <3> QED BY <1>5, <2>1, <2>3, <3>1
  <2> QED BY <2>4, <2>5
<1>8. CASE op.pc # "gap" /\ op'.pc # "gap" /\ op'.ledge = op.ledge /\ op'.redge = op.redge
             /\ rib' = rib /\ Busy
  BY <1>5, <1>8 DEF EdgesKnown
<1>9. CASE op'.pc = "gap" /\ op'.ledge = op.redge /\ rib' = rib /\ Busy /\ op.pc # "gap"
  BY <1>5, <1>9 DEF EdgesKnown
<1> QED BY <1>2, <1>3, <1>4, <1>6, <1>7, <1>8, <1>9, EdgesStep

LEMMA DummyKept ==
  ASSUME IndInv, DummyUntouched, [FoldNext]_vars
  PROVE  DummyUntouched'
<1>1. type' = type
  BY ZenonT(30) DEF FoldNext, rte_fib6_add, dummy_add, AddSame, Change, AddRefused, Add, NoNode,
         rte_fib6_delete, dummy_delete, DeleteAbsent, Delete, RejectDepth, Return, modify_dp,
         rte_fib6_lookup_bulk, FoldStep, NextGap, LastGap, Follow, tbl8_alloc, FoldBottom, FoldRest,
         WriteBetween, RecycleRoot, OutOfGroups, Succeed, Fail, Local, vars
<1>2. SUFFICES ASSUME type = "DUMMY" PROVE entries' = entries
  BY <1>1 DEF DummyUntouched, Linkers, Places, Groups, Slots
<1>3. op.pc = "idle"
  BY <1>2 DEF IndInv, OpOK
<1>4. ~FoldStep
  BY <1>3 DEF FoldStep, NextGap, LastGap, Follow, tbl8_alloc, FoldBottom, FoldRest,
         WriteBetween, RecycleRoot, OutOfGroups, Succeed, Fail, Descending
<1> QED
  BY ZenonT(30), <1>4 DEF FoldNext, rte_fib6_add, dummy_add, AddSame, Change, AddRefused, Add, NoNode,
              rte_fib6_delete, dummy_delete, DeleteAbsent, Delete, RejectDepth, Return,
              modify_dp, rte_fib6_lookup_bulk, vars, tables

-----------------------------------------------------------------------------
(* The groups that are held when the pool is empty *)

\* The edge of a route within the network behind an entry.
LEMMA EdgeNeeds ==
  ASSUME RoutesOK(rib), NEW x \in Address, RouteEdge(rib, x), NEW b \in Address, b < x,
         NEW n \in Depths, Lead(b, n) = Lead(x, n)
  PROVE  TableBehind(x, n) \in Needed
<1> DEFINE p == TableBehind(x, n)
<1>1. IsMasked(p) /\ Holds(p, x) /\ Holds(p, b)
  BY TableIs
<1> HIDE DEF p
<1>2. p.ip <= b /\ x < Past(p) /\ p.ip \in Nat /\ Past(p) <= 2 ^ MAX_DEPTH
  BY <1>1, HoldsInterval
<1>3. x \in Nat /\ b \in Nat /\ 2 ^ MAX_DEPTH \in Nat
  BY DepthsAreNaturals DEF Address
<1>4. PICK q \in DOMAIN rib : x = q.ip \/ x = End(q)
  BY DEF RouteEdge
<1>5. IsMasked(q)
  BY <1>4 DEF RoutesOK
<1>6. x = q.ip \/ x = Past(q)
  BY <1>2, <1>3, <1>4, <1>5, NetworkEndIs
<1>7. \/ p.ip < q.ip /\ q.ip < Past(p)
      \/ p.ip < Past(q) /\ Past(q) < Past(p)
  BY <1>2, <1>3, <1>6
<1>8. q \in Longer(rib, p)
  BY <1>1, <1>4, <1>7, EdgeWithin
<1> QED BY <1>8, LongerNeeds DEF p

\* An address beside the gap that comes by the table of one of its edges.
LEMMA BesideGap ==
  ASSUME IndInv, AgreeInv, EdgesKnown, Busy, op.pc # "gap", NEW b \in Address, NEW n \in Depths
  PROVE  /\ b < op.ledge /\ Lead(b, n) = Lead(op.ledge, n) => TableBehind(op.ledge, n) \in Needed
         /\ Final < b /\ Lead(b, n) = Lead(Final, n) => TableBehind(Final, n) \in Needed
<1>1. /\ RoutesOK(rib) /\ GapShape /\ RouteEdge(rib, op.ledge) /\ RouteEdge(rib, op.redge)
      /\ op.redge \in Address
  BY GapShaped DEF AgreeInv, EdgesKnown, IndInv, OpOK, Call
<1>2. CASE b < op.ledge /\ Lead(b, n) = Lead(op.ledge, n)
  <2>1. ~(Final < b)
    BY <1>1, <1>2 DEF GapShape, Address
  <2> QED BY <1>1, <1>2, <2>1, EdgeNeeds DEF GapShape
<1>3. CASE Final < b /\ Lead(b, n) = Lead(Final, n)
  <2>1. Final = IF op.redge = 0 THEN 2 ^ MAX_DEPTH - 1 ELSE op.redge - 1
    BY <1>1, LastIs DEF Final
  <2>2. Final \in Nat /\ op.redge \in Nat /\ b \in Nat /\ b <= 2 ^ MAX_DEPTH - 1 /\ 2 ^ MAX_DEPTH \in Nat
    BY <1>1, DepthsAreNaturals DEF GapShape, Address
  <2>3. Final < op.redge /\ op.redge <= b
    BY <1>3, <2>1, <2>2
  <2>4. n \in 1..n
    BY DEF Depths
  <2>5. Lead(Final, n) <= Lead(op.redge, n) /\ Lead(op.redge, n) <= Lead(b, n)
    BY <1>1, <2>2, <2>3, <2>4, LeadOrder DEF GapShape
  <2>6. Lead(Final, n) \in Nat /\ Lead(op.redge, n) \in Nat /\ Lead(b, n) \in Nat
    BY <1>1, LeadOfTable DEF GapShape
  <2>7. Lead(op.redge, n) = Lead(Final, n)
    BY <1>3, <2>5, <2>6
  <2>8. TableBehind(op.redge, n) \in Needed
    BY <1>1, <2>3, <2>7, EdgeNeeds DEF GapShape
  <2>9. TableBehind(op.redge, n) = TableBehind(Final, n)
    BY <1>1, <2>7, TableIs DEF GapShape
  <2>10. ~(b < op.ledge)
    BY <1>1, <1>3, <2>2 DEF GapShape, Address
  <2> QED BY <2>8, <2>9, <2>10
<1> QED BY <1>2, <1>3

\* An edge that leads below the first of its groups does so for a byte that is
\* not that of the end of the table.
LEMMA BottomDiffers ==
  ASSUME IndInv, op.pc \in Edges, Level < BottomTable, Level # 1
  PROVE  /\ TBL24_BYTES + BottomTable - 2 \in 0..(IPV6_ADDR_SIZE - 1)
         /\ Byte(Edge, TBL24_BYTES + BottomTable - 2) # Filler
<1> DEFINE common == common_bytes(op.ledge, LastIn(op.redge))
           first == Max({common, TBL24_BYTES})
           used == {i \in (first + 1)..(IPV6_ADDR_SIZE - 1) : Byte(Edge, i) # Filler}
           last == Max(used \cup {first})
<1>1. common \in 0..(IPV6_ADDR_SIZE - 1) /\ TBL24_BYTES \in 1..(IPV6_ADDR_SIZE - 1)
      /\ IPV6_ADDR_SIZE \in Nat
  BY CommonRange, Sizes
<1>2. BottomTable = last - TBL24_BYTES + 2
  BY DEF BottomTable
<1>3. Root = IF common < TBL24_BYTES THEN 1 ELSE common - TBL24_BYTES + 2
  BY DEF Root, RootTable
<1> HIDE DEF common
<1>4. first \in {common, TBL24_BYTES} /\ first >= common /\ first >= TBL24_BYTES
  <2> DEFINE S == {common, TBL24_BYTES}
  <2>1. IPV6_ADDR_SIZE \in Nat /\ S \in SUBSET (0..IPV6_ADDR_SIZE) /\ S # {}
    BY <1>1
  <2>2. common \in S /\ TBL24_BYTES \in S
    OBVIOUS
  <2> HIDE DEF S
  <2>3. Max(S) \in S /\ \A x \in S : Max(S) >= x
    BY <2>1, MaxIsMember
  <2>4. Max(S) \in S /\ Max(S) >= common /\ Max(S) >= TBL24_BYTES
    BY <2>2, <2>3
  <2> QED BY <2>4 DEF S
<1> HIDE DEF first
<1>5. last \in used \cup {first}
  <2> DEFINE S == used \cup {first}
  <2>1. IPV6_ADDR_SIZE \in Nat /\ S \in SUBSET (0..IPV6_ADDR_SIZE) /\ S # {}
    BY <1>1, <1>4
  <2> HIDE DEF S
  <2>2. Max(S) \in S
    BY <2>1, MaxIsMember
  <2> QED BY <2>2 DEF S
<1> HIDE DEF last
<1>6. Level \in Nat \ {0} /\ Level >= Root
  BY Walking DEF IndInv, Progress
<1>7. last # first
  BY <1>1, <1>2, <1>3, <1>4, <1>6
<1>8. last \in used
  BY <1>5, <1>7
<1>9. TBL24_BYTES + BottomTable - 2 = last
  BY <1>1, <1>2, <1>4, <1>8
<1> QED BY <1>1, <1>4, <1>8, <1>9

\* So the groups on the way of an edge that leads further down are needed.
LEMMA BelowEdge ==
  ASSUME IndInv, AgreeInv, EdgesKnown, op.pc \in Edges, Level < BottomTable,
         NEW n \in 1..(Level - 1)
  PROVE  TableBehind(Edge, n) \in Needed
<1> DEFINE i == TBL24_BYTES + BottomTable - 2
           m == TBL24_BYTES + n - 1
<1>1. JoinedOK /\ Level \in Nat /\ n \in Depths /\ Edge \in Address /\ Level # 1 /\ n \in Nat \ {0}
  BY JoinedIs, EdgeIsAddress DEF JoinedOK
<1>2. i \in 0..(IPV6_ADDR_SIZE - 1) /\ Byte(Edge, i) # Filler
  BY <1>1, BottomDiffers
<1>3. IPV6_ADDR_SIZE \in Nat /\ TBL24_BYTES \in Nat \ {0} /\ BottomTable \in Int
  BY Sizes, BottomTableRange DEF Depths
<1>4. m \in 0..i
  BY <1>1, <1>3
<1> HIDE DEF i
<1>5. i \in 0..IPV6_ADDR_SIZE /\ i + 1 \in 0..IPV6_ADDR_SIZE /\ i \in Nat
  BY <1>2, <1>3
<1>6. Byte(Edge, i) \in Slots /\ Filler \in Slots /\ 2 ^ BYTE_SIZE \in Nat \ {0}
  BY <1>1, <1>2, LeadingStep, Sizes DEF Filler, Slots
<1>7. PICK b \in Address : Leading(b, i) = Leading(Edge, i) /\ Byte(b, i) = Filler
  BY <1>1, <1>2, <1>6, EveryByte
<1>8. Lead(b, n) = Lead(Edge, n)
  <2>1. Leading(b, m) = Leading(Edge, m)
    BY <1>1, <1>4, <1>5, <1>7, LeadingOrder
  <2> QED BY <2>1 DEF Lead
<1> HIDE DEF m
<1>9. IF op.pc = "redge" THEN Edge < b ELSE b < Edge
  <2> DEFINE x == 2 ^ BYTE_SIZE * Leading(Edge, i)
  <2>1. Leading(Edge, i + 1) = x + Byte(Edge, i) /\ Leading(b, i + 1) = x + Filler
    BY <1>1, <1>2, <1>7, LeadingStep
  <2>2. Leading(Edge, i) \in Nat
    BY <1>1, <1>5, LeadingIs
  <2>3. x \in Nat
    BY <1>6, <2>2
  <2> HIDE DEF x
  <2>4. IF op.pc = "redge" THEN Leading(Edge, i + 1) < Leading(b, i + 1)
                           ELSE Leading(b, i + 1) < Leading(Edge, i + 1)
    BY <1>2, <1>6, <2>1, <2>3 DEF Filler, Slots
  <2>5. ASSUME NEW u \in Address, NEW v \in Address, Leading(u, i + 1) < Leading(v, i + 1)
        PROVE  u < v
    <3> DEFINE k == i + 1
    <3>1. k \in 0..IPV6_ADDR_SIZE /\ IPV6_ADDR_SIZE \in 0..IPV6_ADDR_SIZE
      BY <1>3, <1>5
    <3> HIDE DEF k
    <3>2. Leading(v, IPV6_ADDR_SIZE) <= Leading(u, IPV6_ADDR_SIZE) => Leading(v, k) <= Leading(u, k)
      BY <3>1, LeadingOrder
    <3>3. Leading(v, IPV6_ADDR_SIZE) = v /\ Leading(u, IPV6_ADDR_SIZE) = u
      BY LeadingEnds
    <3>4. Leading(u, k) \in Nat /\ Leading(v, k) \in Nat
      BY <3>1, LeadingIs
    <3>5. Leading(u, k) < Leading(v, k)
      BY <2>5 DEF k
    <3>6. u \in Nat /\ v \in Nat
      BY DEF Address
    <3> QED BY <3>2, <3>3, <3>4, <3>5, <3>6
  <2> QED BY <1>1, <2>4, <2>5
<1>10. Busy /\ op.pc # "gap"
  BY DEF Busy, Edges
<1>11. CASE op.pc = "redge"
  <2>1. Edge = Final
    BY <1>11 DEF Edge, Final
  <2> QED BY <1>1, <1>8, <1>9, <1>10, <1>11, <2>1, BesideGap
<1>12. CASE op.pc # "redge"
  <2>1. Edge = op.ledge
    BY <1>12 DEF Edge
  <2> QED BY <1>1, <1>8, <1>9, <1>10, <1>12, <2>1, BesideGap
<1> QED BY <1>11, <1>12

\* The edges part below the tables on the way to their root table, so that one
\* of them lies within these.
LEMMA AboveRoot ==
  ASSUME IndInv, AgreeInv, EdgesKnown, op.pc = "root", NEW n \in 1..(Level - 1)
  PROVE  TableBehind(Edge, n) \in Needed
<1>1. /\ JoinedOK /\ Level \in Nat /\ n \in Depths /\ Edge = op.ledge /\ n \in Nat \ {0}
      /\ Level < Root /\ Root \in Depths /\ Root \in Nat
  BY JoinedIs, RootTableRange DEF JoinedOK, Edge, IndInv, Progress, Root, Depths
<1>2. Busy /\ op.pc # "gap" /\ GapShape
  BY GapShaped DEF Busy
<1> DEFINE k == n + 1
<1>3. /\ k \in Depths /\ k # 1 /\ k - 1 = n /\ Root - 1 \in Depths /\ k \in 1..(Root - 1)
      /\ Root # 1 /\ n \in 1..k
  <2>1. IPV6_ADDR_SIZE \in Nat /\ TBL24_BYTES \in Nat
    BY Sizes
  <2> QED BY <1>1, <2>1 DEF Depths
<1> HIDE DEF k
<1>4. op.ledge \in Address /\ Final \in Address /\ op.ledge <= Final
      /\ Lead(op.ledge, Root - 1) = Lead(Final, Root - 1)
  BY <1>2, <1>3 DEF GapShape
<1>5. Lead(op.ledge, k) = Lead(Final, k)
  BY <1>3, <1>4, LeadOrder
<1>6. Lead(op.ledge, n) = Lead(Final, n)
  BY <1>3, <1>4, <1>5, LeadOrder
<1>7. PICK s \in Slots : s # get_idx(op.ledge, k)
  <2>1. 2 ^ BYTE_SIZE \in Nat /\ 2 ^ BYTE_SIZE >= 2
    <3>1. BYTE_SIZE \in Nat \ {0} /\ IPV6_ADDR_SIZE \in Nat \ {0}
      BY Sizes
    <3>2. 0 \in 0..MAX_DEPTH /\ BYTE_SIZE \in 0..MAX_DEPTH /\ 0 < BYTE_SIZE /\ BYTE_SIZE - 0 = BYTE_SIZE
      <4>1. 1 \in 0..IPV6_ADDR_SIZE /\ BYTE_SIZE * 1 = BYTE_SIZE
        BY <3>1
      <4>2. BYTE_SIZE * 1 \in 0..MAX_DEPTH
        BY <4>1, BytesOfAddress
      <4>3. 0 \in 0..MAX_DEPTH
        BY DepthsAreNaturals
      <4> QED BY <3>1, <4>1, <4>2, <4>3
    <3>3. 2 ^ (BYTE_SIZE - 0) >= 2 /\ 2 ^ (BYTE_SIZE - 0) \in Nat \ {0}
      BY <3>2, SizesDivide
    <3> QED BY <3>2, <3>3
  <2>2. 0 \in Slots /\ 1 \in Slots
    BY <2>1 DEF Slots
  <2> QED BY <2>2
<1>8. PICK b \in Address : Lead(b, n) = Lead(op.ledge, n) /\ get_idx(b, k) = s
  <2>1. \E b \in Address : Lead(b, k - 1) = Lead(op.ledge, k - 1) /\ get_idx(b, k) = s
    BY <1>3, <1>4, EverySlot
  <2> QED BY <1>3, <2>1
<1>9. Lead(b, k) # Lead(op.ledge, k)
  <2>1. k \in 1..k
    BY <1>3 DEF Depths
  <2> QED BY <1>3, <1>4, <1>7, <1>8, <2>1, LeadOrder
<1>10. b < op.ledge \/ Final < b
  <2> SUFFICES ASSUME op.ledge <= b, b <= Final PROVE FALSE
    BY <1>4 DEF Address
  <2>1. Lead(op.ledge, k) <= Lead(b, k) /\ Lead(b, k) <= Lead(Final, k)
    <3>1. k \in 1..k
      BY <1>3 DEF Depths
    <3> QED BY <1>3, <1>4, <3>1, LeadOrder
  <2>2. Lead(op.ledge, k) \in Nat /\ Lead(b, k) \in Nat
    BY <1>3, <1>4, LeadOfTable
  <2> QED BY <1>5, <1>9, <2>1, <2>2
<1>11. CASE b < op.ledge
  BY <1>1, <1>2, <1>8, <1>11, BesideGap
<1>12. CASE Final < b
  <2>1. TableBehind(Final, n) \in Needed
    BY <1>1, <1>2, <1>6, <1>8, <1>12, BesideGap
  <2>2. TableBehind(Final, n) = TableBehind(op.ledge, n)
    BY <1>1, <1>4, <1>6, TableIs
  <2> QED BY <1>1, <2>1, <2>2
<1> QED BY <1>10, <1>11, <1>12

\* What is done on the way down ends at the edges of the gap and of the root
\* table's entries.
LEMMA DoneApart ==
  ASSUME IndInv, AgreeInv, EdgesKnown, Descending, NEW b \in Address, NEW c \in Address,
         NEW n \in Depths, Lead(b, n) = Lead(c, n), Done(b), ~Done(c)
  PROVE  \/ TableBehind(b, n) \in Needed
         \/ op.pc = "redge" /\ n < Root /\ Lead(b, n) = Lead(Final, n)
<1>1. Busy /\ op.pc # "gap" /\ GapShape /\ op.pc # "between" /\ op.pc # "recycle" /\ ~op.up
  BY GapShaped DEF Descending, Busy, IndInv, Progress, Edges
<1>2. op.ledge \in Address /\ Final \in Address
  BY <1>1 DEF GapShape
<1>3. b < op.ledge \/ (Within(b) /\ DoneIn(b))
  BY <1>1 DEF Done
<1>4. ~(c < op.ledge) /\ ~(Within(c) /\ DoneIn(c))
  BY <1>1 DEF Done
<1>5. b \in Nat /\ c \in Nat /\ op.ledge \in Nat /\ Final \in Nat
  BY <1>2 DEF Address
<1>6. n \in 1..n
  BY DEF Depths
<1>7. CASE b < op.ledge
  <2>1. b <= op.ledge /\ op.ledge <= c
    BY <1>4, <1>5, <1>7
  <2>2. Lead(b, n) <= Lead(op.ledge, n) /\ Lead(op.ledge, n) <= Lead(c, n)
    BY <1>2, <1>6, <2>1, LeadOrder
  <2>3. Lead(b, n) \in Nat /\ Lead(op.ledge, n) \in Nat
    BY <1>2, LeadOfTable
  <2>4. Lead(b, n) = Lead(op.ledge, n)
    BY <2>2, <2>3
  <2>5. TableBehind(op.ledge, n) \in Needed
    BY <1>1, <1>7, <2>4, BesideGap
  <2>6. TableBehind(op.ledge, n) = TableBehind(b, n)
    BY <1>2, <2>4, TableIs
  <2> QED BY <2>5, <2>6
<1>8. CASE ~(b < op.ledge)
  <2>1. Within(b) /\ DoneIn(b)
    BY <1>3, <1>8
  <2>2. op.pc = "redge"
    BY <1>1, <2>1 DEF DoneIn
  <2>3. Lead(b, Root) = Lead(op.ledge, Root) \/ Lead(b, Root) < Lead(Final, Root)
    BY <1>1, <2>1, <2>2 DEF DoneIn
  <2>4. op.ledge <= b /\ b <= Final
    BY <1>1, <2>1 DEF GapShape
  <2>5. CASE Final < c
    <3>1. Lead(b, n) <= Lead(Final, n) /\ Lead(Final, n) <= Lead(c, n)
      BY <1>2, <1>5, <1>6, <2>4, <2>5, LeadOrder
    <3>2. Lead(b, n) \in Nat /\ Lead(Final, n) \in Nat
      BY <1>2, LeadOfTable
    <3>3. Lead(c, n) = Lead(Final, n)
      BY <3>1, <3>2
    <3>4. TableBehind(Final, n) \in Needed
      BY <1>1, <2>5, <3>3, BesideGap
    <3>5. TableBehind(Final, n) = TableBehind(b, n)
      BY <1>2, <3>3, TableIs
    <3> QED BY <3>4, <3>5
  <2>6. CASE ~(Final < c)
    <3>1. Within(c)
      BY <1>1, <1>4, <1>5, <2>6 DEF GapShape
    <3>2. ~(Lead(c, Root) = Lead(op.ledge, Root)) /\ ~(Lead(c, Root) < Lead(Final, Root))
      BY <1>4, <2>2, <3>1 DEF DoneIn
    <3>3. Root \in Depths /\ Root \in Nat /\ n \in Nat /\ Root >= 1
      BY <1>1 DEF GapShape, Depths
    <3>4. Root <= n => Lead(b, Root) = Lead(c, Root)
      <4> SUFFICES ASSUME Root <= n PROVE Lead(b, Root) = Lead(c, Root)
        OBVIOUS
      <4>1. Root \in 1..n
        BY <3>3
      <4> QED BY <4>1, LeadOrder
    <3>5. n < Root
      BY <2>3, <3>2, <3>3, <3>4
    <3> DEFINE r == Root - 1
    <3>6. r \in Depths /\ Root # 1 /\ n \in 1..r
      <4>1. IPV6_ADDR_SIZE \in Nat /\ TBL24_BYTES \in Nat
        BY Sizes
      <4> QED BY <3>3, <3>5, <4>1 DEF Depths
    <3>7. Lead(op.ledge, r) = Lead(Final, r)
      BY <1>1, <3>6 DEF GapShape
    <3> HIDE DEF r
    <3>8. Lead(op.ledge, r) <= Lead(b, r) /\ Lead(b, r) <= Lead(Final, r)
      <4>1. r \in 1..r
        BY <3>6 DEF Depths
      <4> QED BY <1>2, <2>4, <3>6, <4>1, LeadOrder
    <3>9. Lead(b, r) \in Nat /\ Lead(Final, r) \in Nat
      BY <1>2, <3>6, LeadOfTable
    <3>10. Lead(b, r) = Lead(Final, r)
      BY <3>7, <3>8, <3>9
    <3> QED BY <1>2, <2>2, <3>5, <3>6, <3>10, LeadOrder
  <2> QED BY <2>5, <2>6
<1> QED BY <1>7, <1>8

\* On the way down each group that lookups come by is needed.
LEMMA HeldNeeded ==
  ASSUME IndInv, AgreeInv, EdgesKnown, intact, Descending, NEW a \in Address, NEW n \in Depths,
         Joined[PathIn(Joined, a)[n]].ext
  PROVE  TableBehind(a, n) \in Needed
<1> DEFINE p == PathIn(Joined, a)[n]
<1>1. JoinedOK /\ TrieOK /\ RoutesOK(rib) /\ Edge \in Address /\ type = "TRIE"
      /\ op.pc \notin {"idle", "gap", "recycle"} /\ Busy
  BY JoinedIs, EdgeIsAddress DEF AgreeInv, IndInv, OpOK, Descending, Edges, Busy
<1>2. p \in Places /\ Reaches(Joined, a, n)
  <2>1. IsTables(Joined)
    BY <1>1 DEF JoinedOK
  <2>2. n <= n
    BY DEF Depths
  <2>3. p \in Places
    BY <2>1, PathStep
  <2> QED BY <2>1, <2>2, <2>3, WaysEnd
<1>3. ASSUME Joined[p].val \in OnPath PROVE TableBehind(a, n) \in Needed
  <2>1. PICK k \in 2..Level : Joined[p].val = op.path[k]
    BY <1>3 DEF OnPath, Level
  <2> DEFINE j == k - 1
  <2>2. Level \in Nat /\ j \in 1..Level /\ j \in 1..(Level - 1) /\ j \in Depths
    BY <1>1, <2>1 DEF JoinedOK
  <2>3. p = Place(j)
    BY <1>1, <1>2, <2>1, OnPathPlace DEF TrieOK
  <2> HIDE DEF j
  <2>4. PathIn(Joined, Edge)[j] = Place(j) /\ Reaches(Joined, Edge, j)
    BY <1>1, <2>2, EdgeReaches DEF TrieOK
  <2>5. j = n /\ Lead(Edge, j) = Lead(a, n)
    <3>1. IsTables(Joined) /\ OneLinkIn(Joined)
      BY <1>1 DEF JoinedOK
    <3>2. PathIn(Joined, Edge)[j] = PathIn(Joined, a)[n]
      BY <2>3, <2>4
    <3> HIDE DEF p
    <3> QED BY <1>1, <1>2, <2>2, <2>4, <3>1, <3>2, PathsMeet
  <2>6. TableBehind(Edge, n) \in Needed
    <3>1. CASE op.pc = "root"
      BY <2>2, <2>5, <3>1, AboveRoot
    <3>2. CASE op.pc # "root"
      <4>1. op.pc \in Edges /\ Level < BottomTable
        BY <3>2 DEF Descending, Edges
      <4> QED BY <2>2, <2>5, <4>1, BelowEdge
    <3> QED BY <3>1, <3>2
  <2>7. TableBehind(Edge, n) = TableBehind(a, n)
    BY <1>1, <2>5, TableIs
  <2> QED BY <2>6, <2>7
<1>4. ASSUME Joined[p].val \notin OnPath PROVE TableBehind(a, n) \in Needed
  <2> SUFFICES ASSUME TableBehind(a, n) \notin Needed PROVE FALSE
    OBVIOUS
  <2>1. PICK b, c \in Address : /\ Lead(b, n) = Lead(a, n) /\ Lead(c, n) = Lead(a, n)
                                /\ HopIn(Joined, b) # HopIn(Joined, c)
    BY <1>1, <1>4, VariedBelow
  <2>2. Expected(b) # Expected(c)
    BY <1>1, <2>1 DEF TrieOK, Agreed
  <2>3. /\ RibHop(rib, b) = RibHop(rib, c)
        /\ Exposed(rib, op.key, b) <=> Exposed(rib, op.key, c)
    <3>1. op.key \in DOMAIN rib
      BY <1>1 DEF AgreeInv, CallOK
    <3> QED BY <1>1, <2>1, <3>1, DividedTable
  <2>4. ~(Done(b) <=> Done(c))
    BY <1>1, <2>2, <2>3 DEF Expected
  <2>5. TableBehind(b, n) = TableBehind(a, n) /\ TableBehind(c, n) = TableBehind(a, n)
    BY <2>1, TableIs
  <2>6. op.pc = "redge" /\ n < Root /\ Lead(a, n) = Lead(Final, n)
    BY <2>1, <2>4, <2>5, DoneApart
  <2>7. Edge = Final
    BY <2>6 DEF Edge, Final
  <2>8. Level \in Nat /\ Root \in Nat /\ Root <= Level
    BY <1>1, <2>6 DEF JoinedOK, IndInv, Progress, Edges
  <2>9. n \in 1..(Level - 1) /\ n \in 1..Level /\ n + 1 \in 2..Level
    BY <2>6, <2>8 DEF Depths
  <2>10. PathIn(Joined, Edge)[n] = Place(n) /\ Joined[Place(n)].val = op.path[n + 1]
    BY <1>1, <2>9, EdgeReaches, PlaceLinks DEF TrieOK
  <2>11. PathIn(Joined, Edge)[n] = PathIn(Joined, a)[n]
    <3>1. IsTables(Joined)
      BY <1>1 DEF JoinedOK
    <3> HIDE DEF p
    <3> QED BY <1>1, <2>6, <2>7, <3>1, PathsAlike
  <2> QED BY <1>4, <2>9, <2>10, <2>11 DEF OnPath, Level
<1> QED BY <1>3, <1>4

\* As the networks are finitely many, so are the tables that are needed.
LEMMA NeededFinite ==
  RibOK => IsFiniteSet(Needed)
<1> SUFFICES ASSUME RibOK PROVE IsFiniteSet(Needed)
  OBVIOUS
<1> DEFINE D == 0..MAX_DEPTH
           f == [x \in Address \X D |-> [ip |-> x[1], depth |-> x[2]]]
<1>1. IsFiniteSet(Address) /\ IsFiniteSet(D)
  <2>1. MAX_DEPTH \in Int /\ 2 ^ MAX_DEPTH - 1 \in Int /\ 0 \in Int
    BY DepthsAreNaturals
  <2> QED BY <2>1, FS_Interval DEF Address
<1>2. IsFiniteSet(Address \X D)
  BY <1>1, FS_Product
<1>3. f \in Surjection(Address \X D, Network)
  <2>1. f \in [Address \X D -> Network]
    BY DEF Network
  <2>2. ASSUME NEW t \in Network PROVE \E x \in Address \X D : f[x] = t
    <3>1. <<t.ip, t.depth>> \in Address \X D /\ t = [ip |-> t.ip, depth |-> t.depth]
      BY DEF Network
    <3>2. f[<<t.ip, t.depth>>] = t
      BY <3>1
    <3> QED BY <3>1, <3>2
  <2> HIDE DEF f, D
  <2> QED BY <2>1, <2>2 DEF Surjection
<1>4. IsFiniteSet(Network)
  <2> HIDE DEF f, D
  <2> QED BY <1>2, <1>3, FS_Surjection
<1>5. Needed \subseteq Network
  <2> SUFFICES ASSUME NEW q \in DOMAIN rib,
                      NEW n \in TBL24_BYTES..((q.depth - 1) \div BYTE_SIZE)
               PROVE  TableOf(q.ip, n) \in Network
    BY DEF Needed
  <2>1. q \in Network /\ q.depth \in 0..MAX_DEPTH /\ q.ip \in Address
    BY DEF RibOK, Network
  <2>2. BYTE_SIZE \in Nat \ {0} /\ TBL24_BYTES \in Nat \ {0} /\ MAX_DEPTH \in Nat
    BY Sizes, DepthsAreNaturals
  <2> DEFINE e == q.depth - 1
             k == e \div BYTE_SIZE
  <2>3. e \in Int /\ e < MAX_DEPTH
    BY <2>1, <2>2
  <2> HIDE DEF e
  <2>4. k \in Int /\ BYTE_SIZE * k <= e
    BY <2>2, <2>3
  <2> HIDE DEF k
  <2>5. n \in Nat /\ n <= k
    BY <2>2, <2>4 DEF k, e
  <2>6. BYTE_SIZE * n <= BYTE_SIZE * k /\ BYTE_SIZE * n \in Nat /\ BYTE_SIZE * k \in Int
    <3>1. n < k => BYTE_SIZE * n + BYTE_SIZE <= BYTE_SIZE * k
      BY <2>2, <2>4, <2>5, MultiplesApart
    <3>2. BYTE_SIZE * n \in Nat /\ BYTE_SIZE * k \in Int
      BY <2>2, <2>4, <2>5
    <3> QED BY <2>2, <2>4, <2>5, <3>1, <3>2
  <2>7. BYTE_SIZE * n \in 0..MAX_DEPTH
    BY <2>2, <2>3, <2>4, <2>6
  <2> DEFINE d == BYTE_SIZE * n
  <2> HIDE DEF d
  <2>8. d \in 0..MAX_DEPTH
    BY <2>7 DEF d
  <2>9. ip6_mask_addr(q.ip, d) \in Address
    BY <2>1, <2>8, MaskAddress
  <2>10. TableOf(q.ip, n) = [ip |-> ip6_mask_addr(q.ip, d), depth |-> d]
    BY DEF TableOf, d
  <2> QED BY <2>8, <2>9, <2>10 DEF Network
<1> QED BY <1>4, <1>5, FS_Subset

\* With an empty pool lookups come by every group, each behind an entry of its
\* own: the routes need as many tables as there are groups.
LEMMA DryOnlyWhenFull ==
  ASSUME IndInv, AgreeInv, EdgesKnown, intact, Descending, free = <<>>
  PROVE  Cardinality(Needed) >= number_tbl8s
<1>1. JoinedOK /\ TrieOK /\ IsTables(Joined) /\ OneLinkIn(Joined)
  BY JoinedIs DEF AgreeInv, JoinedOK
<1>2. Groups \subseteq LinksIn(Joined)
  <2>1. Range(free) = {}
    BY DEF Range
  <2> QED BY <1>1, <2>1 DEF TrieOK, NoneLost
<1> DEFINE Behinds(g, t) == \E a \in Address, n \in Depths :
                              /\ t = TableBehind(a, n)
                              /\ Joined[PathIn(Joined, a)[n]] = Link(g)
           f == [g \in Groups |-> CHOOSE t \in Needed : Behinds(g, t)]
<1>3. \A g : Link(g).ext /\ Link(g).val = g
  BY DEF Link
<1>4. ASSUME NEW g \in Groups PROVE \E t \in Needed : Behinds(g, t)
  <2>1. PICK a \in Address, n \in Depths : Joined[PathIn(Joined, a)[n]] = Link(g)
    BY <1>2 DEF LinksIn
  <2>2. TableBehind(a, n) \in Needed
    BY <1>3, <2>1, HeldNeeded
  <2> QED BY <2>1, <2>2
<1>5. ASSUME NEW g, NEW h, NEW t, Behinds(g, t), Behinds(h, t) PROVE g = h
  <2>1. PICK a \in Address, n \in Depths :
          t = TableBehind(a, n) /\ Joined[PathIn(Joined, a)[n]] = Link(g)
    BY <1>5
  <2>2. PICK b \in Address, m \in Depths :
          t = TableBehind(b, m) /\ Joined[PathIn(Joined, b)[m]] = Link(h)
    BY <1>5
  <2>3. m = n
    <3> DEFINE i == TBL24_BYTES + n - 1
               j == TBL24_BYTES + m - 1
    <3>1. BYTE_SIZE * i = BYTE_SIZE * j
      <4>1. TableBehind(a, n).depth = BYTE_SIZE * i
        BY TableIs
      <4>2. TableBehind(b, m).depth = BYTE_SIZE * j
        BY TableIs
      <4>3. TableBehind(a, n) = TableBehind(b, m)
        BY <2>1, <2>2
      <4> QED BY <4>1, <4>2, <4>3
    <3>2. i \in Int /\ j \in Int /\ BYTE_SIZE \in Nat \ {0} /\ (i = j => n = m)
      BY Sizes DEF Depths
    <3> HIDE DEF i, j
    <3>3. /\ i < j => BYTE_SIZE * i + BYTE_SIZE <= BYTE_SIZE * j
          /\ j < i => BYTE_SIZE * j + BYTE_SIZE <= BYTE_SIZE * i
      BY <3>2, MultiplesApart
    <3>4. BYTE_SIZE * i \in Int
      BY <3>2
    <3> QED BY <3>1, <3>2, <3>3, <3>4
  <2>4. Lead(a, n) = Lead(b, n)
    BY <2>1, <2>2, <2>3, TableIs
  <2>5. PathIn(Joined, a)[n] = PathIn(Joined, b)[n]
    BY <1>1, <2>4, PathsAlike
  <2>6. Link(g) = Link(h)
    BY <2>1, <2>2, <2>3, <2>5
  <2> QED BY <1>3, <2>6
<1> HIDE DEF Behinds
<1>6. \A g \in Groups : f[g] \in Needed /\ Behinds(g, f[g])
  BY <1>4
<1>7. f \in Injection(Groups, Needed)
  <2>1. f \in [Groups -> Needed]
    BY <1>6
  <2>2. \A g, h \in Groups : f[g] = f[h] => g = h
    <3> HIDE DEF f
    <3> QED BY <1>5, <1>6
  <2> HIDE DEF f
  <2> QED BY <2>1, <2>2 DEF Injection, IsInjective
<1>8. IsFiniteSet(Needed)
  BY NeededFinite DEF IndInv
<1>9. Cardinality(Groups) <= Cardinality(Needed) /\ Cardinality(Groups) = number_tbl8s
      /\ IsFiniteSet(Groups)
  <2> HIDE DEF f
  <2>1. number_tbl8s \in Nat \ {0}
    BY Sizes
  <2>2. Cardinality(Groups) = number_tbl8s /\ IsFiniteSet(Groups)
    BY <2>1, FS_Interval DEF Groups
  <2> QED BY <1>7, <1>8, <2>2, FS_Injection
<1>10. Cardinality(Needed) \in Nat
  BY <1>8, FS_CardinalityType
<1> QED BY <1>9, <1>10

\* The agreement, and that gaps lie between routes.
EdgeInv == IndInv /\ AgreeInv /\ EdgesKnown /\ DummyUntouched

LEMMA EdgeInvariant ==
  ASSUME NoDefaultRoute
  PROVE  FoldSpec => []EdgeInv
<1>1. rte_fib6_create => EdgeInv
  <2> SUFFICES ASSUME rte_fib6_create PROVE EdgeInv
    OBVIOUS
  <2>1. IndInv /\ AgreeInv /\ op.pc = "idle"
    BY CreateEstablishesInv, CreateAgrees DEF rte_fib6_create, Idle
  <2>2. Linkers = {}
    BY DEF rte_fib6_create, trie_create, Linkers, Leaf
  <2> QED BY <2>1, <2>2 DEF EdgeInv, EdgesKnown, DummyUntouched, Busy
<1>2. EdgeInv /\ [FoldNext]_vars => EdgeInv'
  BY NextKeepsInv, NextAgrees, EdgesKept, DummyKept DEF EdgeInv
<1> QED BY <1>1, <1>2, PTL DEF FoldSpec

\* Between calls each table below tbl24 is one that a longer route makes
\* necessary: the update that takes the last one away has folded the group
\* back (tbl8_recycle, write_edge, recycle_root_path).
THEOREM GroupsAreNeeded ==
  ASSUME NoDefaultRoute
  PROVE  FoldSpec => []GroupsNeeded
<1>1. EdgeInv => GroupsNeeded
  BY IdleNeeds DEF EdgeInv
<1> QED BY <1>1, EdgeInvariant, PTL

\* The groups run out for an update only if the routes need at least as many
\* tables as there are groups: no group is held in vain when it does, not even
\* by the gap that is being written (install_to_dp, build_common_root,
\* write_edge).
THEOREM DryOnlyWhenNeeded ==
  ASSUME NoDefaultRoute
  PROVE  FoldSpec => RunsDryOnlyWhenFull
<1> DEFINE Dry == op.pc # "idle" /\ intact /\ ~intact' => Cardinality(Needed) >= number_tbl8s
<1>1. EdgeInv /\ [FoldNext]_vars => [Dry]_vars
  <2> SUFFICES ASSUME EdgeInv, FoldNext, op.pc # "idle", intact, ~intact'
               PROVE  Cardinality(Needed) >= number_tbl8s
    OBVIOUS
  <2>1. OutOfGroups
    BY DEF FoldNext, RejectDepth, rte_fib6_add, dummy_add, AddSame, Change, AddRefused, Add,
           rte_fib6_delete, dummy_delete, DeleteAbsent, Delete, Called, rte_fib6_lookup_bulk,
           FoldStep, NextGap, LastGap, Follow, tbl8_alloc, FoldBottom, FoldRest, WriteBetween,
           RecycleRoot, Succeed, Fail
  <2> QED BY <2>1, DryOnlyWhenFull DEF EdgeInv, OutOfGroups
<1> QED BY <1>1, EdgeInvariant, PTL DEF FoldSpec, RunsDryOnlyWhenFull
=============================================================================
