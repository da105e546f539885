----------------------------- MODULE Lpm6Proof ------------------------------
(***************************************************************************)
(* Lpm6 implements MultibitCallers, the multibit trie whose calls write a  *)
(* rule in one step, for callers that delete one by one or in bulk; what   *)
(* is proved of the tables there is inherited.  From it: type correctness, *)
(* the answers of lookups beside insertions, longest prefix match between  *)
(* calls, and exact counters of references, for every size of address,     *)
(* top table and pool and every array that is looked up.                   *)
(*                                                                         *)
(* A state is mapped to the one its update has when the link that is       *)
(* missing is set, or the cells that are missing are written: the action   *)
(* that fills a group and the one that writes the first cell stand for the *)
(* whole step, and the ones that link and write the other cells, like      *)
(* those of lookups, for none.                                             *)
(***************************************************************************)
EXTENDS Lpm6, PrefixLemmas, SequenceTheorems

-----------------------------------------------------------------------------
(* The state that is implemented *)

\* Some of the cells of the running update are written, and some are not.
HalfWritten == op.pc \in {"add", "clear"} /\ op.i # FirstCell

AsCall(o) ==
  [pc |-> o.pc, key |-> o.key, entry |-> o.entry, fresh |-> o.fresh, cur |-> o.cur,
   level |-> o.level, chain |-> o.chain, todo |-> o.todo]

DoneTbl ==
  IF op.pc = "link" THEN Linked
  ELSE IF HalfWritten THEN WriteCells(op.i..LastCell) ELSE tbl

DoneHdrs ==
  IF op.pc = "link" THEN Referenced(tbl8_hdrs, op.cur)
  ELSE IF HalfWritten /\ op.pc = "add" THEN Counted ELSE tbl8_hdrs

DoneOp ==
  AsCall(IF op.pc = "link"
         THEN [op EXCEPT !.pc = "add", !.cur = op.group, !.level = @ + 1]
         ELSE IF ~HalfWritten THEN op
         ELSE IF op.todo = {} THEN Idle ELSE Rebuilding(op.todo))

DoneRet ==
  [status |-> IF HalfWritten /\ op.todo = {} THEN "ok" ELSE ret, hop |-> MISS]

Deletion == IF deletes = "one" THEN "single" ELSE "bulk"
NoProbes == {}
EveryKey == Cardinality(Keys)

M == INSTANCE MultibitLpmProof WITH
  tbl <- DoneTbl, tbl8_hdrs <- DoneHdrs, op <- DoneOp, ret <- DoneRet,
  deletion <- Deletion, Probes <- NoProbes, MAX_BULK <- EveryKey

-----------------------------------------------------------------------------
(* The parameters, and the words of the two modules *)

LEMMA Constants6 ==
  /\ NUMBER_TBL8S \in Nat /\ NUMBER_TBL8S <= 2 ^ NEXT_HOP_BITS
  /\ MAX_RULES \in Nat \ {0} /\ REF_MOD \in Nat \ {0}
  /\ NEXT_HOP_BITS \in Nat /\ 2 ^ NEXT_HOP_BITS \in Nat \ {0} /\ NextHops \subseteq Nat
  /\ ADD_FIRST_BYTE \in Levels /\ ADD_FIRST_BYTE \in Nat \ {0}
  /\ IPV6_ADDR_SIZE \in Nat \ {0} /\ ADD_FIRST_BYTE <= IPV6_ADDR_SIZE
  /\ TBL24_IND \in Tables /\ TBL24_IND \notin Groups /\ Groups \subseteq Tables
  /\ NO_TABLE \notin Tables /\ Groups \subseteq Nat
BY Lpm6Assumption, SizesAssumption DEF Levels, Tables, Groups, TBL24_IND, NO_TABLE

\* The keys of the callers are finitely many.
LEMMA KeysFinite == IsFiniteSet(Keys) /\ EveryKey \in Nat /\ Keys \subseteq Prefix
<1>1. Keys \subseteq Prefix
  <2> SUFFICES ASSUME NEW r \in Routes, r.depth \in Depth PROVE Masked(r) \in Prefix
    BY DEF Keys
  <2>1. r.ip \in Address /\ r.depth \in 0..MAX_DEPTH
    BY Lpm6Assumption DEF Depth
  <2> QED BY <2>1, MaskAddress DEF Masked, Prefix
<1>2. IsFiniteSet(Address) /\ IsFiniteSet(Depth)
  BY DepthsAreNaturals, FS_Interval DEF Address, Depth
<1>3. IsFiniteSet(Address \X Depth)
  BY <1>2, FS_Product
<1> DEFINE pair == [p \in Address \X Depth |-> [ip |-> p[1], depth |-> p[2]]]
<1>4. pair \in Surjection(Address \X Depth, Prefix)
  <2>1. pair \in [Address \X Depth -> Prefix]
    BY DEF Prefix
  <2>2. ASSUME NEW k \in Prefix PROVE \E p \in Address \X Depth : pair[p] = k
    <3>1. <<k.ip, k.depth>> \in Address \X Depth /\ pair[<<k.ip, k.depth>>] = k
      BY DEF Prefix
    <3> QED BY <3>1
  <2> HIDE DEF pair
  <2> QED BY <2>1, <2>2 DEF Surjection
<1>5. IsFiniteSet(Prefix)
  BY <1>3, <1>4, FS_Surjection
<1>6. IsFiniteSet(Keys)
  BY <1>1, <1>5, FS_Subset
<1> QED BY <1>1, <1>6, FS_CardinalityType DEF EveryKey

\* What MultibitLpm assumes of its parameters.
LEMMA Parameters ==
  /\ BYTE_SIZE \in Nat \ {0} /\ IPV6_ADDR_SIZE \in Nat \ {0}
  /\ 2 ^ 0 = 1 /\ (\A n \in 0..M!MAX_DEPTH : 2 ^ n \in Nat \ {0})
  /\ (\A n \in 0..(M!MAX_DEPTH - 1) : 2 ^ (n + 1) = 2 * 2 ^ n)
  /\ ADD_FIRST_BYTE \in 1..IPV6_ADDR_SIZE /\ MAX_RULES \in Nat \ {0}
  /\ NUMBER_TBL8S \in Nat /\ NEXT_HOP_BITS \in Nat
  /\ 2 ^ NEXT_HOP_BITS \in Nat \ {0} /\ NUMBER_TBL8S <= 2 * 2 ^ NEXT_HOP_BITS
  /\ REF_MOD \in Nat \ {0} /\ NextHops \subseteq Nat
  /\ Routes \subseteq [ip : M!Address, depth : 0..(M!MAX_DEPTH + 1)]
  /\ NoProbes \subseteq M!Address /\ EveryKey \in Nat
<1>1. M!MAX_DEPTH = MAX_DEPTH /\ M!Address = Address
  BY DEF M!MAX_DEPTH, MAX_DEPTH, M!Address, Address
<1>2. NUMBER_TBL8S <= 2 * 2 ^ NEXT_HOP_BITS
  BY Constants6
<1> QED BY <1>1, <1>2, Constants6, KeysFinite, SizesAssumption, PowersAssumption, Lpm6Assumption
        DEF NoProbes

LEMMA SameConstants ==
  /\ M!MAX_DEPTH = MAX_DEPTH /\ M!Address = Address /\ M!Depth = Depth
  /\ M!Prefix = Prefix /\ M!MISS = MISS /\ M!TBL24_IND = TBL24_IND
  /\ M!NO_TABLE = NO_TABLE /\ M!Groups = Groups /\ M!Tables = Tables
  /\ M!Levels = Levels /\ M!Entry = Entry /\ M!Invalid = Invalid
  /\ M!NoRules = NoRules /\ M!BulkKeys = Keys /\ M!ZeroTables = ZeroTables
  /\ M!FullPool = FullPool /\ M!Idle = AsCall(Idle)
  /\ \A t : M!Slots(t) = Slots(t)
  /\ \A n : M!BitsCovered(n) = BitsCovered(n)
  /\ \A d : M!LevelOf(d) = LevelOf(d)
<1>1. /\ M!MAX_DEPTH = MAX_DEPTH /\ M!MISS = MISS /\ M!TBL24_IND = TBL24_IND
      /\ M!NO_TABLE = NO_TABLE /\ M!Groups = Groups /\ M!Levels = Levels
      /\ M!Invalid = Invalid
      /\ \A n : M!BitsCovered(n) = BitsCovered(n)
  BY DEF M!MAX_DEPTH, MAX_DEPTH, M!MISS, MISS, M!TBL24_IND, TBL24_IND, M!NO_TABLE,
     NO_TABLE, M!Groups, Groups, M!Levels, Levels, M!BitsCovered, BitsCovered,
     M!Invalid, Invalid
<1>2. M!Address = Address /\ M!Depth = Depth /\ M!Tables = Tables
  BY <1>1 DEF M!Address, Address, M!Depth, Depth, M!Tables, Tables
<1>3. M!Prefix = Prefix /\ M!Entry = Entry
  BY <1>1, <1>2 DEF M!Prefix, Prefix, M!Entry, Entry
<1>4. \A t : M!Slots(t) = Slots(t)
  BY <1>1 DEF M!Slots, Slots, M!StepBits, StepBits
<1>5. \A d : M!LevelOf(d) = LevelOf(d)
  BY <1>1 DEF M!LevelOf, LevelOf
<1>6. M!NoRules = NoRules
  BY <1>1 DEF M!NoRules, NoRules
<1>7. M!BulkKeys = Keys
  BY <1>1, <1>2 DEF M!BulkKeys, Keys, M!Masked, Masked, M!ip6_mask_addr, ip6_mask_addr
<1>8. M!ZeroTables = ZeroTables /\ M!FullPool = FullPool
  BY <1>1, <1>2, <1>4 DEF M!ZeroTables, ZeroTables, M!FullPool, FullPool
<1>9. M!Idle = AsCall(Idle)
  BY <1>1 DEF M!Idle, Idle, AsCall
<1> QED BY <1>1, <1>2, <1>3, <1>4, <1>5, <1>6, <1>7, <1>8, <1>9

LEMMA SameOperators ==
  /\ \A e : M!IsLink(e) <=> IsLink(e)
  /\ \A e : M!HopOf(e) = HopOf(e)
  /\ \A g : M!Link(g) = Link(g)
  /\ \A hop, d : M!Leaf(hop, d) = Leaf(hop, d)
  /\ \A ip, n : M!get_bitshift(ip, n) = get_bitshift(ip, n)
  /\ \A ip, d : M!ip6_mask_addr(ip, d) = ip6_mask_addr(ip, d)
  /\ \A r : M!Masked(r) = Masked(r)
  /\ \A R, ip : M!LongestMatch(R, ip) = LongestMatch(R, ip)
  /\ \A R, key, hop : M!WithRule(R, key, hop) = WithRule(R, key, hop)
  /\ \A R, keys : M!WithoutRules(R, keys) = WithoutRules(R, keys)
  /\ \A e, d : M!Yields(e, d) <=> Yields(e, d)
  /\ \A e, d : M!BelongsTo(e, d) <=> BelongsTo(e, d)
  /\ \A e : M!PushedDown(e) = PushedDown(e)
  /\ \A hdrs, t : M!Referenced(hdrs, t) = Referenced(hdrs, t)
<1>1. \A ip, d : M!ip6_mask_addr(ip, d) = ip6_mask_addr(ip, d)
  BY SameConstants DEF M!ip6_mask_addr, ip6_mask_addr
<1>2. \A R, ip : M!LongestMatch(R, ip) = LongestMatch(R, ip)
  <2>1. \A R, ip : M!Matching(R, ip) = Matching(R, ip)
    BY <1>1 DEF M!Matching, Matching
  <2> SUFFICES ASSUME NEW R, NEW ip PROVE M!LongestMatch(R, ip) = LongestMatch(R, ip)
    OBVIOUS
  <2>2. M!Matching(R, ip) = Matching(R, ip) /\ M!MISS = MISS
    BY SameConstants, <2>1
  <2> QED BY ONLY <2>2 DEF M!LongestMatch, LongestMatch
<1>3. \A ip, n : M!get_bitshift(ip, n) = get_bitshift(ip, n)
  BY SameConstants DEF M!get_bitshift, get_bitshift, M!StepBits, StepBits
<1>4. \A r : M!Masked(r) = Masked(r)
  BY <1>1 DEF M!Masked, Masked
<1>5. /\ \A e : M!IsLink(e) <=> IsLink(e)
      /\ \A e : M!HopOf(e) = HopOf(e)
      /\ \A g : M!Link(g) = Link(g)
      /\ \A hop, d : M!Leaf(hop, d) = Leaf(hop, d)
      /\ \A e, d : M!Yields(e, d) <=> Yields(e, d)
      /\ \A e, d : M!BelongsTo(e, d) <=> BelongsTo(e, d)
      /\ \A e : M!PushedDown(e) = PushedDown(e)
  BY SameConstants DEF M!IsLink, IsLink, M!HopOf, HopOf, M!Link, Link, M!Leaf, Leaf,
     M!Yields, Yields, M!BelongsTo, BelongsTo, M!PushedDown, PushedDown
<1>6. /\ \A R, key, hop : M!WithRule(R, key, hop) = WithRule(R, key, hop)
      /\ \A R, keys : M!WithoutRules(R, keys) = WithoutRules(R, keys)
      /\ \A hdrs, t : M!Referenced(hdrs, t) = Referenced(hdrs, t)
  BY SameConstants DEF M!WithRule, WithRule, M!WithoutRules, WithoutRules,
     M!Referenced, Referenced
<1> QED BY <1>1, <1>2, <1>3, <1>4, <1>5, <1>6

-----------------------------------------------------------------------------
(* Tables, and the groups below some cells *)

TablesOK(T) == DOMAIN T = Tables /\ \A t \in Tables : T[t] \in [Slots(t) -> Entry]

LEMMA SameTablesOK == \A T : M!TablesOK(T) <=> TablesOK(T)
BY SameConstants DEF M!TablesOK, TablesOK

\* LinkedFrom and Subtree of any tables.
LinksOf(T, t, cells) == {T[t][j].next_hop : j \in {c \in cells : IsLink(T[t][c])}}

SubtreeIn(T, groups) ==
  LET s[n \in 0..IPV6_ADDR_SIZE] ==
        IF n = 0 THEN groups
        ELSE LET above == s[n - 1]
             IN  above \cup UNION {LinksOf(T, g, Slots(g)) : g \in above}
  IN  s[IPV6_ADDR_SIZE]

LEMMA LinksAreGroups ==
  ASSUME NEW T, TablesOK(T), NEW t \in Tables, NEW cells \in SUBSET Slots(t)
  PROVE  LinksOf(T, t, cells) \subseteq Groups
<1> SUFFICES ASSUME NEW j \in cells, IsLink(T[t][j]) PROVE T[t][j].next_hop \in Groups
  BY DEF LinksOf
<1>1. T[t][j] \in Entry
  BY DEF TablesOK
<1> QED BY <1>1 DEF Entry, IsLink

\* Subtree adds, step by step, what is linked from the groups it has.
LEMMA SubtreeSteps ==
  ASSUME NEW T, TablesOK(T), NEW groups \in SUBSET Groups
  PROVE  \E s : /\ s[0] = groups /\ s[IPV6_ADDR_SIZE] = SubtreeIn(T, groups)
                /\ \A n \in 0..IPV6_ADDR_SIZE : s[n] \subseteq Groups
                /\ \A n \in 1..IPV6_ADDR_SIZE :
                     s[n] = s[n - 1] \cup UNION {LinksOf(T, g, Slots(g)) : g \in s[n - 1]}
<1> DEFINE lo == 0
           hi == IPV6_ADDR_SIZE
           V == SUBSET Groups
           more(above) == above \cup UNION {LinksOf(T, g, Slots(g)) : g \in above}
           step == [n \in (lo + 1)..hi |-> [above \in V |-> more(above)]]
           Unfolded(s) ==
             [n \in 0..IPV6_ADDR_SIZE |-> IF n = 0 THEN groups ELSE more(s[n - 1])]
<1>1. \A above \in V : more(above) \in V
  <2> SUFFICES ASSUME NEW above \in V, NEW g \in above
               PROVE  LinksOf(T, g, Slots(g)) \subseteq Groups
    OBVIOUS
  <2>1. g \in Tables
    BY Constants6
  <2> QED BY <2>1, LinksAreGroups
<1>2. lo \in Nat /\ hi \in Nat /\ lo <= hi /\ groups \in V
  BY Constants6
<1>3. step \in Steps(lo, hi, V)
  <2> HIDE DEF V, more
  <2> QED BY <1>1 DEF Steps
<1>4. PICK f : Computed(f, lo, hi, V, groups, step)
  <2> HIDE DEF V, step, lo, hi
  <2> QED BY <1>2, <1>3, RecursiveFunction
<1>5. f = Unfolded(f) /\ f \in [lo..hi -> V]
  <2> HIDE DEF V, more
  <2>1. f \in [lo..hi -> V] /\ f[0] = groups
    BY <1>4 DEF Computed
  <2>2. ASSUME NEW n \in lo..hi, n # 0
        PROVE  f[n] = more(f[n - 1])
    <3>1. n \in (lo + 1)..hi /\ n - 1 \in lo..hi
      BY <1>2, <2>2
    <3>2. f[n - 1] \in V /\ f[n] = step[n][f[n - 1]]
      BY <1>4, <2>1, <3>1 DEF Computed
    <3> QED BY <3>1, <3>2
  <2> QED BY <2>1, <2>2
<1>6. PICK s : s = Unfolded(s) /\ SubtreeIn(T, groups) = s[IPV6_ADDR_SIZE]
  <2> DEFINE s == CHOOSE s : s = Unfolded(s)
  <2>1. SubtreeIn(T, groups) = s[IPV6_ADDR_SIZE]
    BY DEF SubtreeIn
  <2> HIDE DEF Unfolded
  <2>2. s = Unfolded(s)
    BY <1>5
  <2> QED BY <2>1, <2>2
<1> DEFINE Bad == {n \in lo..hi : ~(s[n] \subseteq Groups)}
<1>7. \A n \in lo..hi : s[n] = IF n = 0 THEN groups ELSE more(s[n - 1])
  <2> HIDE DEF more
  <2> QED BY <1>6
<1>8. Bad = {}
  <2> SUFFICES ASSUME Bad # {} PROVE FALSE
    OBVIOUS
  <2>1. Bad \in SUBSET Nat
    OBVIOUS
  <2>2. PICK n \in Bad : \A k \in Bad : n <= k
    <3> HIDE DEF Bad
    <3> QED BY <2>1, LeastNatural
  <2>3. n \in lo..hi /\ n # 0
    BY <1>7
  <2>4. n - 1 \in lo..hi /\ n - 1 \notin Bad
    <3>1. n - 1 \in lo..hi /\ ~(n <= n - 1)
      BY <1>2, <2>3
    <3> HIDE DEF Bad
    <3> QED BY <2>2, <3>1
  <2>5. s[n - 1] \in V /\ s[n] = more(s[n - 1])
    BY <1>7, <2>3, <2>4
  <2>6. s[n] \in V
    <3> HIDE DEF V, more
    <3> QED BY <1>1, <2>5
  <2> QED BY <2>6
<1>9. s[0] = groups /\ \A n \in 1..hi : s[n] = more(s[n - 1])
  <2>1. 0 \in lo..hi /\ \A n \in 1..hi : n \in lo..hi /\ n # 0
    BY <1>2
  <2> HIDE DEF more
  <2> QED BY <1>7, <2>1
<1> QED BY <1>6, <1>8, <1>9

\* What is true of the first step, and of each if it is of the one before
\* it, is true of the last.
LEMMA StepsInduction ==
  ASSUME NEW Good, 0 \in Good, \A n \in 1..IPV6_ADDR_SIZE : n - 1 \in Good => n \in Good
  PROVE  IPV6_ADDR_SIZE \in Good
<1> DEFINE Bad == (0..IPV6_ADDR_SIZE) \ Good
<1>1. IPV6_ADDR_SIZE \in Nat
  BY Constants6
<1>2. Bad = {}
  <2> SUFFICES ASSUME Bad # {} PROVE FALSE
    OBVIOUS
  <2>1. Bad \in SUBSET Nat
    OBVIOUS
  <2>2. PICK n \in Bad : \A k \in Bad : n <= k
    <3> HIDE DEF Bad
    <3> QED BY <2>1, LeastNatural
  <2>3. n \in 1..IPV6_ADDR_SIZE /\ n \notin Good
    OBVIOUS
  <2>4. n - 1 \in 0..IPV6_ADDR_SIZE /\ ~(n <= n - 1)
    BY <1>1, <2>3
  <2>5. n - 1 \in Good
    BY <2>2, <2>4
  <2> QED BY <2>3, <2>5
<1> QED BY <1>1, <1>2

\* The groups below two sets of groups are those below their union.
LEMMA SubtreeOfUnion ==
  ASSUME NEW T, TablesOK(T), NEW A \in SUBSET Groups, NEW B \in SUBSET Groups
  PROVE  SubtreeIn(T, A \cup B) = SubtreeIn(T, A) \cup SubtreeIn(T, B)
<1> DEFINE more(above) == above \cup UNION {LinksOf(T, g, Slots(g)) : g \in above}
           IsRun(s, groups) ==
             /\ s[0] = groups /\ s[IPV6_ADDR_SIZE] = SubtreeIn(T, groups)
             /\ \A n \in 1..IPV6_ADDR_SIZE : s[n] = more(s[n - 1])
<1>1. PICK a : IsRun(a, A)
  BY SubtreeSteps
<1>2. PICK b : IsRun(b, B)
  BY SubtreeSteps
<1>3. PICK c : IsRun(c, A \cup B)
  <2>1. A \cup B \in SUBSET Groups
    OBVIOUS
  <2> QED BY <2>1, SubtreeSteps
<1> DEFINE Good == {n \in 0..IPV6_ADDR_SIZE : c[n] = a[n] \cup b[n]}
<1>4. \A X, Y : more(X \cup Y) = more(X) \cup more(Y)
  OBVIOUS
<1> HIDE DEF more
<1>5. IPV6_ADDR_SIZE \in Nat
  BY Constants6
<1>6. 0 \in Good
  BY <1>1, <1>2, <1>3, <1>5
<1>7. ASSUME NEW n \in 1..IPV6_ADDR_SIZE, n - 1 \in Good PROVE n \in Good
  <2>1. n \in 0..IPV6_ADDR_SIZE
    BY <1>5
  <2>2. c[n - 1] = a[n - 1] \cup b[n - 1]
    BY <1>7
  <2>3. c[n] = a[n] \cup b[n]
    BY <1>1, <1>2, <1>3, <1>4, <2>2
  <2> QED BY <2>1, <2>3
<1>8. IPV6_ADDR_SIZE \in Good
  <2> HIDE DEF Good
  <2> QED BY <1>6, <1>7, StepsInduction
<1>9. c[IPV6_ADDR_SIZE] = a[IPV6_ADDR_SIZE] \cup b[IPV6_ADDR_SIZE]
  BY <1>8
<1> QED BY <1>1, <1>2, <1>3, <1>9

\* Tables with the same links have the same groups below.
SameLinks(T, U) ==
  \A t \in Tables : \A j \in Slots(t) :
    IsLink(T[t][j]) \/ IsLink(U[t][j]) => U[t][j] = T[t][j]

LEMMA SameLinksOf ==
  ASSUME NEW T, NEW U, SameLinks(T, U), NEW t \in Tables, NEW cells \in SUBSET Slots(t)
  PROVE  LinksOf(T, t, cells) = LinksOf(U, t, cells)
BY DEF SameLinks, LinksOf

LEMMA SameSubtree ==
  ASSUME NEW T, NEW U, TablesOK(T), TablesOK(U), SameLinks(T, U), NEW A \in SUBSET Groups
  PROVE  SubtreeIn(T, A) = SubtreeIn(U, A)
<1> DEFINE more(V, above) == above \cup UNION {LinksOf(V, g, Slots(g)) : g \in above}
           IsRun(s, V) ==
             /\ s[0] = A /\ s[IPV6_ADDR_SIZE] = SubtreeIn(V, A)
             /\ \A n \in 0..IPV6_ADDR_SIZE : s[n] \subseteq Groups
             /\ \A n \in 1..IPV6_ADDR_SIZE : s[n] = more(V, s[n - 1])
<1>1. PICK a : IsRun(a, T)
  BY SubtreeSteps
<1>2. PICK b : IsRun(b, U)
  BY SubtreeSteps
<1> DEFINE Good == {n \in 0..IPV6_ADDR_SIZE : a[n] = b[n]}
<1>4. \A X \in SUBSET Groups : more(T, X) = more(U, X)
  <2>1. \A g \in Groups : LinksOf(T, g, Slots(g)) = LinksOf(U, g, Slots(g))
    BY SameLinksOf, Constants6
  <2> QED BY <2>1
<1> HIDE DEF more
<1>5. IPV6_ADDR_SIZE \in Nat
  BY Constants6
<1>6. 0 \in Good
  BY <1>1, <1>2, <1>5
<1>7. ASSUME NEW n \in 1..IPV6_ADDR_SIZE, n - 1 \in Good PROVE n \in Good
  <2>1. n \in 0..IPV6_ADDR_SIZE
    BY <1>5
  <2>2. a[n - 1] = b[n - 1] /\ a[n - 1] \in SUBSET Groups
    BY <1>1, <1>7
  <2>3. a[n] = b[n]
    BY <1>1, <1>2, <1>4, <2>2
  <2> QED BY <2>1, <2>3
<1>8. IPV6_ADDR_SIZE \in Good
  <2> HIDE DEF Good
  <2> QED BY <1>6, <1>7, StepsInduction
<1>9. a[IPV6_ADDR_SIZE] = b[IPV6_ADDR_SIZE]
  BY <1>8
<1> QED BY <1>1, <1>2, <1>9

-----------------------------------------------------------------------------
(* Cells written one after another, and all at once *)

\* WriteCells in any tables.
WriteIn(T, cells) ==
  LET below == SubtreeIn(T, LinksOf(T, op.cur, cells))
      hit   == {j \in cells : Hits(T[op.cur][j])}
  IN  [u \in Tables |-> [j \in Slots(u) |->
        IF \/ u = op.cur /\ j \in hit
           \/ u \in below /\ Yields(T[u][j], op.key.depth)
        THEN op.entry
        ELSE T[u][j]]]

LEMMA WriteCellsIs == \A cells : WriteCells(cells) = WriteIn(tbl, cells)
BY DEF WriteCells, WriteIn, Subtree, SubtreeIn, LinkedFrom, LinksOf

\* The rule of the running update ends in its table.
Writing ==
  /\ op.pc \in {"add", "clear"}
  /\ op.cur \in Tables /\ op.entry \in Entry /\ ~op.entry.ext_entry

\* Only leaves are overwritten, and with a leaf.
LEMMA WriteKeepsLinks ==
  ASSUME Writing, NEW T, TablesOK(T), NEW cells \in SUBSET Slots(op.cur)
  PROVE  /\ TablesOK(WriteIn(T, cells)) /\ SameLinks(T, WriteIn(T, cells))
         /\ \A t \in Tables : \A j \in Slots(t) :
              WriteIn(T, cells)[t][j] \in {T[t][j], op.entry}
<1> DEFINE U == WriteIn(T, cells)
           below == SubtreeIn(T, LinksOf(T, op.cur, cells))
           hit == {j \in cells : Hits(T[op.cur][j])}
<1>1. U = [u \in Tables |-> [j \in Slots(u) |->
             IF (u = op.cur /\ j \in hit) \/ (u \in below /\ Yields(T[u][j], op.key.depth))
             THEN op.entry ELSE T[u][j]]]
  BY DEF WriteIn
<1> HIDE DEF U, below
<1>2. \A e : Hits(e) \/ Yields(e, op.key.depth) => ~IsLink(e)
  BY DEF Hits, Yields, BelongsTo, IsLink
<1>3. ~IsLink(op.entry) /\ op.entry \in Entry
  BY DEF Writing, IsLink
<1>4. \A t \in Tables : \A j \in Slots(t) :
        /\ U[t][j] = T[t][j] \/ (U[t][j] = op.entry /\ ~IsLink(T[t][j]))
        /\ T[t][j] \in Entry
  BY <1>1, <1>2 DEF TablesOK
<1>5. DOMAIN U = Tables /\ \A t \in Tables : DOMAIN U[t] = Slots(t)
  BY <1>1
<1>6. TablesOK(U)
  BY <1>1, <1>3, <1>4 DEF TablesOK
<1>7. SameLinks(T, U)
  BY <1>3, <1>4 DEF SameLinks
<1> QED BY <1>4, <1>6, <1>7 DEF U

\* Writing some cells and then others is writing all of them.
LEMMA WriteTwice ==
  ASSUME Writing, NEW T, TablesOK(T),
         NEW A \in SUBSET Slots(op.cur), NEW B \in SUBSET Slots(op.cur)
  PROVE  WriteIn(WriteIn(T, A), B) = WriteIn(T, A \cup B)
<1> DEFINE U == WriteIn(T, A)
           depth == op.key.depth
           Below(cells) == SubtreeIn(T, LinksOf(T, op.cur, cells))
           Gives(cells, u, j) ==
             \/ u = op.cur /\ j \in {c \in cells : Hits(T[op.cur][c])}
             \/ u \in Below(cells) /\ Yields(T[u][j], depth)
<1>1. TablesOK(U) /\ SameLinks(T, U) /\ op.cur \in Tables
  BY WriteKeepsLinks DEF Writing
<1>2. LinksOf(T, op.cur, A) \subseteq Groups /\ LinksOf(T, op.cur, B) \subseteq Groups
  BY <1>1, LinksAreGroups
<1>3. LinksOf(T, op.cur, A \cup B) = LinksOf(T, op.cur, A) \cup LinksOf(T, op.cur, B)
  BY DEF LinksOf
<1>4. Below(A \cup B) = Below(A) \cup Below(B)
  <2> DEFINE LA == LinksOf(T, op.cur, A)
             LB == LinksOf(T, op.cur, B)
  <2>1. SubtreeIn(T, LA \cup LB) = SubtreeIn(T, LA) \cup SubtreeIn(T, LB)
    <3> HIDE DEF LA, LB
    <3> QED BY <1>2, SubtreeOfUnion DEF LA, LB
  <2> QED BY <1>3, <2>1
<1>5. SubtreeIn(U, LinksOf(U, op.cur, B)) = Below(B)
  <2>1. LinksOf(U, op.cur, B) = LinksOf(T, op.cur, B)
    BY <1>1, SameLinksOf
  <2> QED BY <1>1, <1>2, <2>1, SameSubtree
<1>6. \A u \in Tables : \A j \in Slots(u) :
        U[u][j] = IF Gives(A, u, j) THEN op.entry ELSE T[u][j]
  BY DEF WriteIn
<1>7. WriteIn(T, A \cup B) =
        [u \in Tables |-> [j \in Slots(u) |->
           IF Gives(A \cup B, u, j) THEN op.entry ELSE T[u][j]]]
  BY DEF WriteIn
<1>8. WriteIn(U, B) =
        [u \in Tables |-> [j \in Slots(u) |->
           IF \/ u = op.cur /\ j \in {c \in B : Hits(U[op.cur][c])}
              \/ u \in Below(B) /\ Yields(U[u][j], depth)
           THEN op.entry ELSE U[u][j]]]
  BY <1>5 DEF WriteIn
<1>9. ASSUME NEW u \in Tables, NEW j \in Slots(u)
      PROVE  (IF \/ u = op.cur /\ j \in {c \in B : Hits(U[op.cur][c])}
                 \/ u \in Below(B) /\ Yields(U[u][j], depth)
              THEN op.entry ELSE U[u][j])
             = IF Gives(A \cup B, u, j) THEN op.entry ELSE T[u][j]
  <2> HIDE DEF U, Below
  <2>1. Gives(A \cup B, u, j) <=> Gives(A, u, j) \/ Gives(B, u, j)
    BY <1>4
  <2>2. CASE Gives(A, u, j)
    <3>1. U[u][j] = op.entry
      BY <1>6, <2>2
    <3> HIDE DEF Gives
    <3> QED BY <2>1, <2>2, <3>1
  <2>3. CASE ~Gives(A, u, j)
    <3>1. U[u][j] = T[u][j]
      BY <1>6, <2>3
    <3>2. (\/ u = op.cur /\ j \in {c \in B : Hits(U[op.cur][c])}
           \/ u \in Below(B) /\ Yields(U[u][j], depth)) <=> Gives(B, u, j)
      BY <3>1
    <3> HIDE DEF Gives
    <3> QED BY <2>1, <2>3, <3>1, <3>2
  <2> QED BY <2>2, <2>3
<1> DEFINE After(u, j) ==
             IF \/ u = op.cur /\ j \in {c \in B : Hits(U[op.cur][c])}
                \/ u \in Below(B) /\ Yields(U[u][j], depth)
             THEN op.entry ELSE U[u][j]
           Both(u, j) == IF Gives(A \cup B, u, j) THEN op.entry ELSE T[u][j]
<1>10. WriteIn(U, B) = WriteIn(T, A \cup B)
  <2>1. \A u \in Tables : \A j \in Slots(u) : After(u, j) = Both(u, j)
    BY <1>9
  <2>2. /\ WriteIn(U, B) = [u \in Tables |-> [j \in Slots(u) |-> After(u, j)]]
        /\ WriteIn(T, A \cup B) = [u \in Tables |-> [j \in Slots(u) |-> Both(u, j)]]
    BY <1>7, <1>8
  <2> HIDE DEF After, Both
  <2> QED BY ONLY <2>1, <2>2
<1> QED BY <1>10 DEF U

-----------------------------------------------------------------------------
(* What the definitions of the two modules share in a state *)

LEMMA SameWalk == \A ip : Path(ip) = M!WalkIn(tbl, ip)
BY DEF Path, M!WalkIn, Levels, M!Levels, TBL24_IND, M!TBL24_IND, NO_TABLE, M!NO_TABLE,
   IsLink, M!IsLink, get_bitshift, M!get_bitshift, MAX_DEPTH, M!MAX_DEPTH,
   BitsCovered, M!BitsCovered, StepBits, M!StepBits

LEMMA SameLast == \A path, n : LastLevel(path, n) = M!LastLevel(path, n)
BY DEF LastLevel, M!LastLevel, NO_TABLE, M!NO_TABLE

LEMMA SameHop == \A ip : TableHop(ip) = M!HopIn(tbl, ip)
BY SameWalk, SameLast, SameOperators, SameConstants
   DEF TableHop, M!HopIn, HopOf

LEMMA SameSimulation ==
  ASSUME DoneTbl = tbl
  PROVE  \A key : M!simulate_add(key) = simulate_add(key)
BY SameWalk, SameLast, SameConstants DEF simulate_add, M!simulate_add, M!Walk

LEMMA SameReplacement ==
  \A key : M!rule_find_less_specific(key) = rule_find_less_specific(key)
BY DEF rule_find_less_specific, M!rule_find_less_specific, ip6_mask_addr,
   M!ip6_mask_addr, MAX_DEPTH, M!MAX_DEPTH, Leaf, M!Leaf, Invalid, M!Invalid

\* Between the steps of the multibit trie, states are the same.
Whole == op.pc # "link" /\ ~HalfWritten

LEMMA WhenWhole ==
  ASSUME Whole
  PROVE  /\ DoneTbl = tbl /\ DoneHdrs = tbl8_hdrs /\ DoneOp = AsCall(op)
         /\ DoneRet = [status |-> ret, hop |-> MISS]
BY DEF Whole, DoneTbl, DoneHdrs, DoneOp, DoneRet

LEMMA WhenWholeNext ==
  ASSUME Whole'
  PROVE  /\ DoneTbl' = tbl' /\ DoneHdrs' = tbl8_hdrs' /\ DoneOp' = AsCall(op')
         /\ DoneRet' = [status |-> ret', hop |-> MISS]
BY DEF Whole, DoneTbl, DoneHdrs, DoneOp, DoneRet, HalfWritten, AsCall

-----------------------------------------------------------------------------
(* The inductive invariant *)

Header == [owner_tbl_ind : Tables, owner_entry_ind : Nat, ref_cnt : 0..(REF_MOD - 1)]

Locals ==
  [pc : {"idle", "add", "link", "unref", "unlink", "clear", "rebuild"},
   call : {"none", "add", "delete", "bulk"}, key : Prefix, entry : Entry,
   fresh : BOOLEAN, cur : Tables, level : Levels, i : Int,
   group : Groups \cup {NO_TABLE}, chain : Seq(Groups), todo : SUBSET Prefix]

Typed == TablesOK(tbl) /\ tbl8_hdrs \in [Groups -> Header] /\ op \in Locals

\* The call that runs, and what its steps rely on of it.
CallKept ==
  /\ op.pc = "idle" => op = Idle /\ before = rules
  /\ op.pc \in {"add", "link"} => op.call \in {"add", "bulk"}
  /\ op.pc \in {"unref", "unlink", "clear"} => op.call = "delete"
  /\ op.pc = "rebuild" => op.call = "bulk"
  /\ op.pc = "unref" => op.i = FirstCell
  /\ op.call # "bulk" => op.todo = {}

\* The rule that is written goes deeper, or ends in the table with its cells.
PlaceKept ==
  op.pc \in {"add", "link", "clear"} =>
    /\ ip6_mask_addr(op.key.ip, op.key.depth) = op.key.ip
    /\ ~op.entry.ext_entry
    /\ op.cur = TBL24_IND <=> op.level = ADD_FIRST_BYTE
    /\ op.level <= LevelOf(op.key.depth)
    /\ op.pc = "clear" => op.level = LevelOf(op.key.depth)
    /\ IF Deeper THEN op.i = FirstCell ELSE op.i \in FirstCell..LastCell
    /\ op.pc = "link" =>
         Deeper /\ ~IsLink(CellEntry) /\ op.group \in Groups /\ op.group # op.cur

Inv6 ==
  /\ M!EitherInv /\ M!ExpandInv /\ M!LinksOwned
  /\ Typed /\ CallKept /\ PlaceKept

LEMMA SameHeader == M!Header = Header
BY SameConstants DEF M!Header, Header

LEMMA InheritedInvariants ==
  ASSUME M!EitherInv
  PROVE  /\ M!IndInv /\ M!LinksInv /\ M!AdmitInv /\ M!PoolOnce /\ M!LinksKept
         /\ M!CallLinks /\ M!TypeOK /\ M!CallOK /\ M!RulesCounted /\ M!AddOnWalk
BY DEF M!EitherInv, M!SingleInv, M!BulkInv, M!AdmitInv, M!LinksInv, M!IndInv

LEMMA InheritedTypes ==
  ASSUME M!EitherInv
  PROVE  /\ DOMAIN rules \subseteq Prefix /\ rules \in [DOMAIN rules -> NextHops]
         /\ used_rules \in 0..MAX_RULES /\ IsFiniteSet(DOMAIN rules)
         /\ used_rules = Cardinality(DOMAIN rules)
         /\ TablesOK(DoneTbl) /\ DoneHdrs \in [Groups -> Header]
         /\ tbl8_pool \in [Groups -> Groups] /\ tbl8_pool_pos \in 0..NUMBER_TBL8S
         /\ DoneOp.key \in Prefix /\ DoneOp.entry \in Entry /\ DoneOp.cur \in Tables
         /\ DoneOp.level \in Levels /\ DoneOp.chain \in Seq(Groups)
         /\ DoneOp.todo \in SUBSET Prefix /\ DoneOp.fresh \in BOOLEAN
<1>1. M!TypeOK /\ M!RulesCounted
  BY InheritedInvariants
<1>2. /\ DOMAIN rules \subseteq Prefix /\ rules \in [DOMAIN rules -> NextHops]
      /\ used_rules \in 0..MAX_RULES
      /\ tbl8_pool \in [Groups -> Groups] /\ tbl8_pool_pos \in 0..NUMBER_TBL8S
      /\ DoneHdrs \in [Groups -> Header]
  BY <1>1, SameConstants, SameHeader DEF M!TypeOK
<1>3. TablesOK(DoneTbl)
  BY <1>1, SameConstants DEF M!TypeOK, TablesOK
<1>4. DoneOp \in M!Call
  BY <1>1 DEF M!TypeOK
<1>5. IsFiniteSet(DOMAIN rules) /\ used_rules = Cardinality(DOMAIN rules)
  BY <1>1 DEF M!RulesCounted, M!IsFiniteSet, IsFiniteSet, M!Cardinality, Cardinality
<1> QED BY <1>2, <1>3, <1>4, <1>5, SameConstants DEF M!Call

-----------------------------------------------------------------------------
(* Calls that start *)

\* Insertions, and deletions of everything, are steps of all callers.
LEMMA UpdatesAreSteps ==
  ASSUME M!Update \/ M!AddStep, deletes' = deletes
  PROVE  M!EitherNext
BY DEF M!EitherNext, M!Next, M!BulkNext, Deletion

LEMMA SingleStepsAreSteps ==
  ASSUME M!Remove \/ M!DeleteStep, deletes = "one", deletes' = deletes
  PROVE  M!EitherNext
BY DEF M!EitherNext, M!Next, Deletion

LEMMA RefusalsImplement ==
  ASSUME op.pc = "idle", NEW status, Refuse(status)
  PROVE  M!Reject(status) /\ DoneOp.pc = "idle" /\ DoneTbl = tbl /\ deletes' = deletes
<1>1. Whole /\ Whole'
  BY DEF Refuse, Whole, HalfWritten
<1>2. /\ DoneRet' = [status |-> status, hop |-> MISS]
      /\ UNCHANGED <<rules, used_rules, DoneTbl, tbl8_pool, tbl8_pool_pos, DoneHdrs, DoneOp>>
  BY <1>1, WhenWhole, WhenWholeNext DEF Refuse, tables, pool, AsCall
<1>3. DoneOp.pc = "idle" /\ DoneTbl = tbl
  BY <1>1, WhenWhole DEF AsCall
<1> QED BY <1>2, <1>3, SameConstants DEF M!Reject, M!Answer, M!tables, Refuse

\* An insertion starts with tbl24, at the rule's first cell.
LEMMA AddFromImplements ==
  ASSUME Inv6, NEW call, NEW key, NEW hop, NEW fresh, NEW todo,
         op' = AddFrom(call, key, hop, fresh, todo)
  PROVE  Whole' /\ M!StartAdd(key, hop, fresh, todo)
<1> DEFINE first == get_bitshift(key.ip, ADD_FIRST_BYTE)
           entry == Leaf(hop, key.depth)
<1>1. op' = [pc |-> "add", call |-> call, key |-> key, entry |-> entry, fresh |-> fresh,
             cur |-> TBL24_IND, level |-> ADD_FIRST_BYTE, i |-> first,
             group |-> NO_TABLE, chain |-> <<>>, todo |-> todo]
  <2> HIDE DEF first, entry
  <2> QED BY DEF AddFrom, Idle, first, entry
<1>2. Whole'
  <2> HIDE DEF entry
  <2> QED BY <1>1 DEF Whole, HalfWritten, FirstCell
<1>3. entry = M!Leaf(hop, key.depth)
  BY SameOperators
<1> HIDE DEF first, entry
<1>4. DoneOp' = [pc |-> "add", key |-> key, entry |-> entry, fresh |-> fresh,
                 cur |-> TBL24_IND, level |-> ADD_FIRST_BYTE, chain |-> <<>>, todo |-> todo]
  BY <1>1, <1>2, WhenWholeNext DEF AsCall
<1>5. M!TBL24_IND = TBL24_IND
  BY SameConstants
<1>6. [M!Idle EXCEPT !.pc = "add", !.key = key, !.entry = entry,
                     !.fresh = fresh, !.todo = todo]
        = [pc |-> "add", key |-> key, entry |-> entry, fresh |-> fresh,
           cur |-> M!TBL24_IND, level |-> ADD_FIRST_BYTE, chain |-> <<>>, todo |-> todo]
  <2> SUFFICES ASSUME NEW o, o = [M!Idle EXCEPT !.pc = "add", !.key = key, !.entry = entry,
                                                !.fresh = fresh, !.todo = todo]
               PROVE  o = [pc |-> "add", key |-> key, entry |-> entry, fresh |-> fresh,
                           cur |-> M!TBL24_IND, level |-> ADD_FIRST_BYTE, chain |-> <<>>,
                           todo |-> todo]
    OBVIOUS
  <2> QED BY DEF M!Idle
<1>7. DoneOp' = [M!Idle EXCEPT !.pc = "add", !.key = key, !.entry = entry,
                               !.fresh = fresh, !.todo = todo]
  BY ONLY <1>4, <1>5, <1>6
<1>8. M!StartAdd(key, hop, fresh, todo)
  BY ONLY <1>3, <1>7 DEF M!StartAdd
<1> QED BY <1>2, <1>8

LEMMA AddImplements ==
  ASSUME Inv6, NEW r \in Routes, NEW hop \in NextHops, rte_lpm6_add(r, hop)
  PROVE  M!Add(r, hop) /\ Whole' /\ deletes' = deletes
<1> DEFINE key == Masked(r)
<1>1. Whole /\ op.pc = "idle" /\ tbl' = tbl /\ tbl8_hdrs' = tbl8_hdrs
  BY DEF rte_lpm6_add, Whole, HalfWritten, tables
<1>2. op' = AddFrom("add", key, hop, key \notin DOMAIN rules, {})
  BY DEF rte_lpm6_add
<1>3. Whole' /\ M!StartAdd(key, hop, key \notin DOMAIN rules, {})
  <2> HIDE DEF key
  <2> QED BY <1>2, AddFromImplements
<1>4. /\ DoneTbl = tbl /\ DoneOp.pc = "idle" /\ DoneTbl' = DoneTbl /\ DoneHdrs' = DoneHdrs
      /\ DoneRet' = [status |-> "pending", hop |-> MISS]
  BY <1>1, <1>3, WhenWhole, WhenWholeNext DEF AsCall, rte_lpm6_add
<1>5. /\ M!Masked(r) = key /\ M!simulate_add(key) = simulate_add(key)
      /\ M!WithRule(rules, key, hop) = WithRule(rules, key, hop) /\ M!Depth = Depth
      /\ M!MISS = MISS
  BY <1>4, SameOperators, SameSimulation, SameConstants
<1>6. /\ r.depth \in Depth /\ Fits(key) /\ HasRoom(key)
      /\ rules' = WithRule(rules, key, hop) /\ deletes' = deletes
      /\ used_rules' = used_rules + (IF key \in DOMAIN rules THEN 0 ELSE 1)
      /\ tbl8_pool' = tbl8_pool /\ tbl8_pool_pos' = tbl8_pool_pos
  BY DEF rte_lpm6_add, tables, pool
<1>7. used_rules \in Int
  BY InheritedTypes, Constants6 DEF Inv6
<1> HIDE DEF key
<1>8. used_rules' = M!CountWith(key)
  BY <1>6, <1>7 DEF M!CountWith
<1>9. M!tbl8_available >= M!simulate_add(key) /\ M!HasRoom(key)
  BY <1>5, <1>6 DEF Fits, HasRoom, M!HasRoom, M!tbl8_available
<1> QED BY <1>3, <1>4, <1>5, <1>6, <1>8, <1>9 DEF M!Add, M!Answer, M!tables

LEMMA RefusedCallsImplement ==
  ASSUME Inv6, NEW r \in Routes,
         RejectDepth(r) \/ AddThrows(r) \/ AddNoSpace(r) \/ DeleteAbsent(r)
  PROVE  M!EitherNext /\ Whole'
<1> DEFINE key == Masked(r)
<1>1. PICK status : Refuse(status) /\ op.pc = "idle"
  BY DEF RejectDepth, AddThrows, AddNoSpace, DeleteAbsent, CanDelete
<1>2. DoneTbl = tbl /\ DoneOp.pc = "idle" /\ deletes' = deletes /\ Whole'
  BY <1>1, RefusalsImplement DEF Refuse, Whole, HalfWritten
<1>3. /\ M!Masked(r) = key /\ M!simulate_add(key) = simulate_add(key) /\ M!Depth = Depth
  BY <1>2, SameOperators, SameSimulation, SameConstants
<1>4. r.depth \in Depth => key \in Prefix
  <2>1. r.depth \in Depth => r.ip \in Address /\ r.depth \in 0..MAX_DEPTH
    BY Lpm6Assumption DEF Depth
  <2> QED BY <2>1, MaskAddress DEF Masked, Prefix
<1> HIDE DEF key
<1>5. CASE RejectDepth(r)
  <2>1. M!RejectDepth(r)
    BY <1>2, <1>3, <1>5, RefusalsImplement DEF RejectDepth, M!RejectDepth
  <2> QED BY <2>1, <1>2, UpdatesAreSteps DEF M!Update
<1>6. CASE AddThrows(r)
  <2>1. r.depth \in Depth /\ ~Fits(key) /\ op.pc = "idle" /\ Refuse("exception")
    BY <1>6 DEF AddThrows, key
  <2>2. key \in Prefix
    BY <1>4, <2>1
  <2>3. M!simulate_add(key) \in Int
    <3>1. M!simulate_add(key) = M!LevelOf(key.depth)
                                - M!LastLevel(M!Walk(key.ip), M!LevelOf(key.depth))
      BY <2>2, InheritedInvariants, SameConstants, M!SimulatedGroups, Parameters DEF Inv6
    <3>2. key.ip \in M!Address /\ key.depth \in M!Depth /\ M!TablesOK(DoneTbl)
      BY <2>2, SameConstants, SameTablesOK, InheritedTypes DEF Prefix, Inv6
    <3>3. M!LevelOf(key.depth) \in M!Levels
      BY <3>2, M!LevelOfIs, Parameters
    <3>4. M!LastLevel(M!Walk(key.ip), M!LevelOf(key.depth)) \in Int
      BY <3>2, <3>3, M!LastLevelIs, Parameters DEF M!Walk
    <3> QED BY <3>1, <3>3, <3>4 DEF M!Levels
  <2>4. tbl8_pool_pos \in Int /\ NUMBER_TBL8S \in Int
    BY Constants6, InheritedTypes DEF Inv6
  <2>5. M!tbl8_available < M!simulate_add(key)
    BY <1>3, <2>1, <2>3, <2>4 DEF Fits, M!tbl8_available
  <2>6. M!AddThrows(r)
    BY <1>2, <1>3, <2>1, <2>5, RefusalsImplement DEF M!AddThrows
  <2> QED BY <2>6, <1>2, UpdatesAreSteps DEF M!Update
<1>7. CASE AddNoSpace(r)
  <2>1. /\ r.depth \in Depth /\ Fits(key) /\ ~HasRoom(key) /\ op.pc = "idle"
        /\ Refuse("ENOSPC")
    BY <1>7 DEF AddNoSpace, key
  <2>2. M!AddNoSpace(r)
    BY <1>2, <1>3, <2>1, RefusalsImplement
       DEF M!AddNoSpace, HasRoom, M!HasRoom, Fits, M!tbl8_available
  <2> QED BY <2>2, <1>2, UpdatesAreSteps DEF M!Update
<1>8. CASE DeleteAbsent(r)
  <2>1. /\ r.depth \in Depth /\ key \notin DOMAIN rules /\ op.pc = "idle"
        /\ Refuse("ENOENT") /\ deletes = "one"
    BY <1>8 DEF DeleteAbsent, CanDelete, key
  <2>2. M!DeleteAbsent(r)
    BY <1>2, <1>3, <2>1, RefusalsImplement DEF M!DeleteAbsent
  <2> QED BY <2>1, <2>2, <1>2, SingleStepsAreSteps DEF M!Remove
<1> QED BY <1>2, <1>5, <1>6, <1>7, <1>8

LEMMA DeleteImplements ==
  ASSUME Inv6, NEW r \in Routes, rte_lpm6_delete(r)
  PROVE  M!EitherNext /\ Whole'
<1> DEFINE key == Masked(r)
           level == LevelOf(key.depth)
           table == Path(key.ip)[level]
           less == rule_find_less_specific(key)
           pc == IF table = TBL24_IND THEN "clear" ELSE "unref"
           first == get_bitshift(key.ip, level)
<1>1. Whole /\ op.pc = "idle" /\ tbl' = tbl /\ tbl8_hdrs' = tbl8_hdrs
  BY DEF rte_lpm6_delete, CanDelete, Whole, HalfWritten, tables
<1>2. op' = [pc |-> pc, call |-> "delete", key |-> key, entry |-> less, fresh |-> FALSE,
             cur |-> table, level |-> level, i |-> first, group |-> NO_TABLE,
             chain |-> <<>>, todo |-> {}]
  <2>1. op' = [Idle EXCEPT !.pc = pc, !.call = "delete", !.key = key, !.cur = table,
                           !.level = level, !.i = first, !.entry = less]
    BY DEF rte_lpm6_delete
  <2> HIDE DEF pc, key, table, level, first, less
  <2> QED BY <2>1 DEF Idle
<1>3. Whole'
  <2> HIDE DEF key, table, level, less
  <2> QED BY <1>2 DEF Whole, HalfWritten, FirstCell
<1>4. /\ DoneTbl = tbl /\ DoneOp.pc = "idle" /\ DoneTbl' = DoneTbl /\ DoneHdrs' = DoneHdrs
      /\ DoneRet' = [status |-> "pending", hop |-> MISS]
  BY <1>1, <1>3, WhenWhole, WhenWholeNext DEF AsCall, rte_lpm6_delete
<1>5. /\ M!Masked(r) = key /\ M!LevelOf(key.depth) = level /\ M!Depth = Depth
      /\ M!Walk(key.ip)[level] = table /\ M!rule_find_less_specific(key) = less
      /\ M!WithoutRules(rules, {key}) = WithoutRules(rules, {key})
      /\ M!TBL24_IND = TBL24_IND /\ M!MISS = MISS /\ M!Tables = Tables
  BY <1>4, SameOperators, SameConstants, SameWalk, SameReplacement DEF M!Walk
<1>6. /\ r.depth \in Depth /\ key \in DOMAIN rules /\ table # NO_TABLE
      /\ rules' = WithoutRules(rules, {key}) /\ used_rules' = used_rules - 1
      /\ tbl8_pool' = tbl8_pool /\ tbl8_pool_pos' = tbl8_pool_pos
      /\ deletes = "one" /\ deletes' = deletes
  BY DEF rte_lpm6_delete, CanDelete, tables, pool
<1>7. table \in Tables
  <2>1. key \in Prefix
    BY <1>6, InheritedTypes DEF Inv6
  <2>2. key.ip \in M!Address /\ level \in M!Levels /\ M!TablesOK(DoneTbl)
    <3>1. key.ip \in Address /\ key.depth \in M!Depth
      BY <2>1, SameConstants DEF Prefix
    <3> QED BY <1>5, <3>1, SameConstants, SameTablesOK, InheritedTypes, M!LevelOfIs,
               Parameters DEF Inv6
  <2> HIDE DEF key, level, table
  <2>3. M!WalkIn(DoneTbl, key.ip)[level] \in M!Tables \cup {M!NO_TABLE}
    BY <2>2, M!WalkInUnfolds, Parameters
  <2> QED BY <1>5, <1>6, <2>3, SameConstants DEF M!Walk
<1>8. used_rules' = M!CountWithout({key})
  <2> HIDE DEF key
  <2>1. DOMAIN rules \cap {key} = {key} /\ Cardinality({key}) = 1
    BY <1>6, FS_Singleton
  <2>2. M!Cardinality({key}) = 1
    BY <2>1 DEF M!Cardinality, M!IsFiniteSet, Cardinality, IsFiniteSet
  <2> QED BY <1>6, <2>1, <2>2 DEF M!CountWithout
<1>9. DoneOp' = [M!Idle EXCEPT !.pc = pc, !.key = key, !.cur = table, !.level = level,
                               !.entry = less]
  <2>1. DoneOp' = [pc |-> pc, key |-> key, entry |-> less, fresh |-> FALSE, cur |-> table,
                   level |-> level, chain |-> <<>>, todo |-> {}]
    <3> HIDE DEF pc, key, table, level, less, first
    <3> QED BY <1>2, <1>3, WhenWholeNext DEF AsCall
  <2> HIDE DEF pc, key, table, level, less
  <2> SUFFICES ASSUME NEW o, o = [M!Idle EXCEPT !.pc = pc, !.key = key, !.cur = table,
                                                !.level = level, !.entry = less]
               PROVE  o = [pc |-> pc, key |-> key, entry |-> less, fresh |-> FALSE,
                           cur |-> table, level |-> level, chain |-> <<>>, todo |-> {}]
    BY <2>1
  <2> QED BY DEF M!Idle
<1> HIDE DEF key, table, level, less
<1>10. M!Delete(r)
  BY <1>4, <1>5, <1>6, <1>7, <1>8, <1>9 DEF M!Delete, M!Answer, M!tables
<1> QED BY <1>3, <1>6, <1>10, SingleStepsAreSteps DEF M!Remove

LEMMA ResetImplements ==
  ASSUME ResetTables, Whole, Whole'
  PROVE  M!ResetTables
<1>1. DoneTbl' = tbl' /\ DoneHdrs = tbl8_hdrs /\ DoneHdrs' = tbl8_hdrs'
  BY WhenWhole, WhenWholeNext
<1> QED BY <1>1, SameConstants DEF ResetTables, M!ResetTables

LEMMA DeleteAllImplements ==
  ASSUME rte_lpm6_delete_all
  PROVE  M!EitherNext /\ Whole'
<1>1. Whole /\ Whole' /\ op.pc = "idle"
  BY DEF rte_lpm6_delete_all, CanDelete, Whole, HalfWritten
<1>2. M!ResetTables
  BY <1>1, ResetImplements DEF rte_lpm6_delete_all
<1>3. /\ DoneOp.pc = "idle" /\ DoneOp' = DoneOp
      /\ DoneRet' = [status |-> "ok", hop |-> MISS]
  BY <1>1, WhenWhole, WhenWholeNext DEF AsCall, rte_lpm6_delete_all
<1>4. M!DeleteAll
  BY <1>2, <1>3, SameConstants DEF M!DeleteAll, M!Answer, rte_lpm6_delete_all
<1>5. deletes' = deletes
  BY DEF rte_lpm6_delete_all
<1> QED BY <1>1, <1>4, <1>5, UpdatesAreSteps DEF M!Update

\* The steps of a rebuild, as the multibit trie has them.
LEMMA RebuildingIs ==
  ASSUME NEW todo
  PROVE  AsCall(Rebuilding(todo)) = [M!Idle EXCEPT !.pc = "rebuild", !.todo = todo]
<1>1. Rebuilding(todo) =
        [pc |-> "rebuild", call |-> "bulk", key |-> [ip |-> 0, depth |-> 1],
         entry |-> Invalid, fresh |-> FALSE, cur |-> TBL24_IND, level |-> ADD_FIRST_BYTE,
         i |-> 0, group |-> NO_TABLE, chain |-> <<>>, todo |-> todo]
  <2> SUFFICES ASSUME NEW o, o = Rebuilding(todo)
               PROVE  o = [pc |-> "rebuild", call |-> "bulk",
                           key |-> [ip |-> 0, depth |-> 1], entry |-> Invalid,
                           fresh |-> FALSE, cur |-> TBL24_IND, level |-> ADD_FIRST_BYTE,
                           i |-> 0, group |-> NO_TABLE, chain |-> <<>>, todo |-> todo]
    OBVIOUS
  <2> QED BY DEF Rebuilding, Idle
<1>2. AsCall(Rebuilding(todo)) =
        [pc |-> "rebuild", key |-> [ip |-> 0, depth |-> 1], entry |-> Invalid,
         fresh |-> FALSE, cur |-> TBL24_IND, level |-> ADD_FIRST_BYTE, chain |-> <<>>,
         todo |-> todo]
  BY <1>1 DEF AsCall
<1>3. M!Invalid = Invalid /\ M!TBL24_IND = TBL24_IND
  BY SameConstants
<1> SUFFICES ASSUME NEW o, o = [M!Idle EXCEPT !.pc = "rebuild", !.todo = todo]
             PROVE  o = [pc |-> "rebuild", key |-> [ip |-> 0, depth |-> 1],
                         entry |-> Invalid, fresh |-> FALSE, cur |-> TBL24_IND,
                         level |-> ADD_FIRST_BYTE, chain |-> <<>>, todo |-> todo]
  BY <1>2
<1> QED BY <1>3 DEF M!Idle

LEMMA DeleteBulkImplements ==
  ASSUME NEW keys \in SUBSET Keys, rte_lpm6_delete_bulk(keys)
  PROVE  M!EitherNext /\ Whole'
<1> DEFINE left == DOMAIN rules \ keys
<1>1. Whole /\ Whole' /\ op.pc = "idle"
  BY DEF rte_lpm6_delete_bulk, CanDelete, Whole, HalfWritten, Rebuilding, Idle
<1>2. M!ResetTables
  BY <1>1, ResetImplements DEF rte_lpm6_delete_bulk
<1>3. DoneOp.pc = "idle"
  BY <1>1, WhenWhole DEF AsCall
<1>4. M!MISS = MISS /\ M!WithoutRules(rules, keys) = WithoutRules(rules, keys)
  BY SameConstants, SameOperators
<1>5. IF left = {}
      THEN UNCHANGED DoneOp /\ DoneRet' = M!Answer("ok")
      ELSE /\ DoneOp' = [M!Idle EXCEPT !.pc = "rebuild", !.todo = left]
           /\ DoneRet' = M!Answer("pending")
  <2> HIDE DEF left
  <2>1. CASE left = {}
    <3>1. op' = op /\ ret' = "ok"
      BY <2>1 DEF rte_lpm6_delete_bulk, left
    <3> QED BY <1>1, <1>4, <2>1, <3>1, WhenWhole, WhenWholeNext DEF M!Answer
  <2>2. CASE left # {}
    <3>1. op' = Rebuilding(left) /\ ret' = "pending"
      BY <2>2 DEF rte_lpm6_delete_bulk, left
    <3> QED BY <1>1, <1>4, <2>2, <3>1, WhenWholeNext, RebuildingIs DEF M!Answer
  <2> QED BY <2>1, <2>2
<1>6. used_rules' = M!CountWithout(keys)
  BY DEF rte_lpm6_delete_bulk, M!CountWithout, M!Cardinality, M!IsFiniteSet, Cardinality,
     IsFiniteSet
<1>7. M!DeleteBulk(keys)
  BY <1>2, <1>3, <1>4, <1>5, <1>6 DEF M!DeleteBulk, rte_lpm6_delete_bulk
<1>8. keys \in SUBSET M!BulkKeys /\ M!Cardinality(keys) <= EveryKey
  <2>1. Cardinality(keys) <= Cardinality(Keys)
    BY KeysFinite, FS_Subset
  <2>2. M!Cardinality(keys) = Cardinality(keys)
    BY DEF M!Cardinality, M!IsFiniteSet, Cardinality, IsFiniteSet
  <2> QED BY <2>1, <2>2, SameConstants DEF EveryKey
<1>9. deletes = "bulk" /\ deletes' = deletes
  BY DEF rte_lpm6_delete_bulk, CanDelete
<1> QED BY <1>1, <1>7, <1>8, <1>9 DEF M!EitherNext, M!BulkNext, M!Bulk, Deletion

LEMMA RebuildImplements ==
  ASSUME Inv6, NEW key \in Keys, rebuild_lpm(key)
  PROVE  M!EitherNext /\ Whole'
<1>1. Whole /\ op.pc = "rebuild" /\ key \in op.todo /\ Fits(key)
  BY DEF rebuild_lpm, Whole, HalfWritten
<1>2. op' = AddFrom("bulk", key, rules[key], FALSE, op.todo \ {key})
  BY DEF rebuild_lpm
<1>3. Whole' /\ M!StartAdd(key, rules[key], FALSE, op.todo \ {key})
  BY <1>2, AddFromImplements
<1>4. /\ UNCHANGED <<rules, used_rules, tbl, tbl8_pool, tbl8_pool_pos, tbl8_hdrs, ret, deletes>>
  BY DEF rebuild_lpm, Rest, tables, pool
<1>5. /\ DoneTbl = tbl /\ DoneOp.pc = "rebuild" /\ DoneOp.todo = op.todo
      /\ DoneTbl' = DoneTbl /\ DoneHdrs' = DoneHdrs /\ DoneRet' = DoneRet
  BY <1>1, <1>3, <1>4, WhenWhole, WhenWholeNext DEF AsCall
<1>6. M!tbl8_available >= M!simulate_add(key)
  BY <1>1, <1>5, SameSimulation DEF Fits, M!tbl8_available
<1>7. M!Rebuild(key)
  BY <1>1, <1>3, <1>4, <1>5, <1>6 DEF M!Rebuild, M!tables
<1>8. Deletion = "bulk"
  <2>1. M!EitherInv /\ Deletion \in {"single", "bulk"}
    BY DEF Inv6, Deletion
  <2> QED BY <1>5, <2>1 DEF M!EitherInv, M!SingleInv, M!SingleCall
<1> QED BY <1>3, <1>4, <1>7, <1>8, SameConstants
        DEF M!EitherNext, M!BulkNext, M!Bulk, Deletion

-----------------------------------------------------------------------------
(* Steps down to the table of the rule *)

LEMMA PlaceFacts ==
  ASSUME Typed, PlaceKept, op.pc \in {"add", "link", "clear"}
  PROVE  /\ op.cur \in Tables /\ op.i \in Slots(op.cur) /\ op.i \in Int
         /\ CellEntry \in Entry /\ FirstCell \in Slots(op.cur) /\ FirstCell \in Int
         /\ HalfWritten => ~Deeper
         /\ ~Deeper => /\ FirstCell..LastCell \subseteq Slots(op.cur)
                       /\ op.level = LevelOf(op.key.depth) /\ LastCell \in Int
                       /\ FirstCell <= LastCell
<1>1. /\ op.cur \in Tables /\ op.level \in Levels /\ op.key \in Prefix
      /\ op.key.ip \in Address /\ op.key.depth \in Depth /\ op.i \in Int
      /\ TablesOK(tbl)
  BY DEF Typed, Locals, Prefix
<1>2. FirstCell \in Slots(op.cur)
  BY <1>1, SameConstants, SameOperators, M!SlotOfAddress, Parameters DEF PlaceKept, FirstCell
<1>3. FirstCell \in Int
  BY <1>2 DEF Slots
<1>4. ASSUME ~Deeper
      PROVE  /\ FirstCell..LastCell \subseteq Slots(op.cur)
             /\ op.level = LevelOf(op.key.depth) /\ LastCell \in Int
             /\ FirstCell <= LastCell
  <2>1. LevelOf(op.key.depth) \in Levels /\ op.level <= LevelOf(op.key.depth)
        /\ ~(op.level < LevelOf(op.key.depth))
    <3>1. op.key.depth \in M!Depth /\ op.level \in M!Levels
      BY <1>1, SameConstants
    <3>2. M!LevelOf(op.key.depth) \in M!Levels
      BY <3>1, M!LevelOfIs, Parameters
    <3>3. ~(op.level < M!LevelOf(op.key.depth))
      BY <1>4, <3>1, M!DeeperIsAbove, Parameters, SameConstants DEF Deeper
    <3> QED BY <3>2, <3>3, SameConstants DEF PlaceKept
  <2>2. op.level = LevelOf(op.key.depth)
    BY <1>1, <2>1, Constants6 DEF Levels
  <2>3. M!RuleRange(op.key, op.level) = FirstCell..LastCell
    BY SameConstants, SameOperators DEF M!RuleRange, FirstCell, LastCell
  <2>4. M!RuleRange(op.key, op.level) \subseteq M!Slots(op.cur)
    <3> DEFINE key == op.key
               L == op.level
               t == op.cur
    <3>1. /\ key \in M!Prefix /\ M!ip6_mask_addr(key.ip, key.depth) = key.ip
          /\ L = M!LevelOf(key.depth) /\ t \in M!Tables
          /\ t = M!TBL24_IND <=> L = ADD_FIRST_BYTE
      BY <1>1, <2>2, SameConstants, SameOperators DEF PlaceKept
    <3> HIDE DEF key, L, t
    <3>2. M!RuleRange(key, L) \subseteq M!Slots(t)
      BY <3>1, M!RangeInSlots, Parameters
    <3> QED BY <3>2 DEF key, L, t
  <2>5. 2 ^ (BitsCovered(op.level) - op.key.depth) \in Nat \ {0}
    <3>1. BitsCovered(op.level) \in 0..MAX_DEPTH
      BY <1>1, SameConstants, M!BitsCoveredRange, Parameters
    <3>2. BitsCovered(op.level) - op.key.depth \in 0..MAX_DEPTH
      BY <1>1, <1>4, <3>1, DepthsAreNaturals DEF Deeper, Depth
    <3> QED BY <3>2, PowersAssumption
  <2> QED BY <1>3, <2>2, <2>3, <2>4, <2>5, SameConstants DEF LastCell
<1>5. op.i \in Slots(op.cur)
  BY <1>2, <1>4 DEF PlaceKept
<1>6. CellEntry \in Entry
  BY <1>1, <1>5 DEF CellEntry, TablesOK
<1>7. HalfWritten => ~Deeper
  BY DEF HalfWritten, PlaceKept
<1> QED BY <1>1, <1>2, <1>3, <1>4, <1>5, <1>6, <1>7

\* The flags of a step that goes deeper.
LEMMA DeeperIsWhole ==
  ASSUME Inv6, op.pc = "add", Deeper
  PROVE  /\ Whole /\ op.i = FirstCell
         /\ DoneTbl = tbl /\ DoneHdrs = tbl8_hdrs /\ DoneOp = AsCall(op)
         /\ DoneRet = [status |-> ret, hop |-> MISS]
         /\ DoneOp.pc = "add" /\ M!Deeper /\ M!AddSlot = op.i /\ M!AddEntry = CellEntry
<1>1. op.i = FirstCell
  BY DEF Inv6, PlaceKept
<1>2. Whole
  BY <1>1 DEF Whole, HalfWritten
<1>3. /\ DoneTbl = tbl /\ DoneHdrs = tbl8_hdrs /\ DoneOp = AsCall(op)
      /\ DoneRet = [status |-> ret, hop |-> MISS]
  BY <1>2, WhenWhole
<1>4. DoneOp.key = op.key /\ DoneOp.level = op.level /\ DoneOp.cur = op.cur /\ DoneOp.pc = "add"
  BY <1>3 DEF AsCall
<1>5. M!AddSlot = op.i
  BY <1>1, <1>4, SameOperators DEF M!AddSlot, FirstCell
<1> QED BY <1>1, <1>2, <1>3, <1>4, <1>5, SameConstants
        DEF M!Deeper, Deeper, M!AddEntry, CellEntry

LEMMA DescendIs ==
  ASSUME Typed, NEW t,
         DoneOp' = AsCall([op EXCEPT !.pc = "add", !.cur = t, !.level = @ + 1]),
         DoneOp = AsCall(op), op.pc = "add"
  PROVE  M!Descend(t)
<1> DEFINE o == DoneOp
<1>1. o = [pc |-> op.pc, key |-> op.key, entry |-> op.entry, fresh |-> op.fresh,
           cur |-> op.cur, level |-> op.level, chain |-> op.chain, todo |-> op.todo]
  BY DEF AsCall
<1>2. DoneOp' = [pc |-> "add", key |-> op.key, entry |-> op.entry, fresh |-> op.fresh,
                 cur |-> t, level |-> op.level + 1, chain |-> op.chain, todo |-> op.todo]
  BY DEF AsCall, Typed, Locals
<1> HIDE DEF o
<1>3. [o EXCEPT !.cur = t, !.level = @ + 1] =
        [pc |-> "add", key |-> op.key, entry |-> op.entry, fresh |-> op.fresh,
         cur |-> t, level |-> op.level + 1, chain |-> op.chain, todo |-> op.todo]
  <2> SUFFICES ASSUME NEW p, p = [o EXCEPT !.cur = t, !.level = @ + 1]
               PROVE  p = [pc |-> "add", key |-> op.key, entry |-> op.entry,
                           fresh |-> op.fresh, cur |-> t, level |-> op.level + 1,
                           chain |-> op.chain, todo |-> op.todo]
    OBVIOUS
  <2> QED BY <1>1
<1> QED BY <1>2, <1>3 DEF M!Descend, o

LEMMA GroupFits ==
  ASSUME NEW g \in Groups
  PROVE  Link(g).next_hop = g /\ IsLink(Link(g)) /\ Link(g) \in Entry
<1>1. g \in Nat /\ g < 2 ^ NEXT_HOP_BITS /\ 2 ^ NEXT_HOP_BITS \in Nat
  BY Constants6 DEF Groups
<1>2. g % 2 ^ NEXT_HOP_BITS = g
  BY <1>1, M!SmallModulus, Parameters
<1> QED BY <1>1, <1>2, DepthsAreNaturals DEF Link, IsLink, Entry

LEMMA FillGroupImplements ==
  ASSUME Inv6, FillGroup
  PROVE  M!AddStepNewTable /\ M!EitherNext
<1> DEFINE g == tbl8_pool[tbl8_pool_pos]
           header == [owner_tbl_ind |-> op.cur, owner_entry_ind |-> op.i, ref_cnt |-> 0]
           filled == [tbl EXCEPT ![g] = [j \in Slots(g) |-> PushedDown(CellEntry)]]
<1>1. /\ op.pc = "add" /\ Deeper /\ ~IsLink(CellEntry) /\ tbl8_pool_pos # NUMBER_TBL8S
      /\ tbl8_pool_pos' = tbl8_pool_pos + 1 /\ tbl' = filled
      /\ tbl8_hdrs' = [tbl8_hdrs EXCEPT ![g] = header]
      /\ op' = [op EXCEPT !.pc = "link", !.group = g]
      /\ UNCHANGED <<rules, used_rules, tbl8_pool, ret, deletes>>
  BY DEF FillGroup, Rest
<1>2. /\ DoneTbl = tbl /\ DoneHdrs = tbl8_hdrs /\ DoneOp = AsCall(op)
      /\ DoneRet = [status |-> ret, hop |-> MISS]
      /\ DoneOp.pc = "add" /\ M!Deeper /\ M!AddSlot = op.i /\ M!AddEntry = CellEntry
  BY <1>1, DeeperIsWhole
<1>3. /\ op'.pc = "link" /\ op'.group = g /\ op'.cur = op.cur /\ op'.i = op.i
      /\ [op' EXCEPT !.pc = "add", !.cur = op'.group, !.level = @ + 1]
           = [op EXCEPT !.pc = "add", !.cur = g, !.level = @ + 1, !.group = g]
  <2> HIDE DEF g
  <2> QED BY <1>1 DEF Inv6, Typed, Locals
<1> DEFINE next == [op EXCEPT !.pc = "add", !.cur = g, !.level = @ + 1]
<1>4. DoneTbl' = [filled EXCEPT ![op.cur][op.i] = Link(g)]
  <2> HIDE DEF g, filled
  <2> QED BY <1>1, <1>3 DEF DoneTbl, Linked
<1>5. DoneHdrs' = Referenced([tbl8_hdrs EXCEPT ![g] = header], op.cur)
  <2> HIDE DEF g, header
  <2> QED BY <1>1, <1>3 DEF DoneHdrs
<1>6. DoneOp' = AsCall(next)
  <2> HIDE DEF g
  <2>1. DoneOp' = AsCall([op EXCEPT !.pc = "add", !.cur = g, !.level = @ + 1, !.group = g])
    BY <1>3 DEF DoneOp, AsCall
  <2> QED BY <2>1 DEF AsCall, Inv6, Typed, Locals
<1>7. DoneRet' = DoneRet
  <2>1. DoneRet' = [status |-> ret', hop |-> MISS]
    BY <1>3 DEF DoneRet, HalfWritten
  <2> QED BY <1>1, <1>2, <2>1
<1>8. g \in Groups
  BY <1>1, InheritedTypes, Constants6 DEF Inv6, Groups
<1> HIDE DEF g
<1>9. M!Descend(g)
  BY <1>1, <1>2, <1>6, DescendIs DEF Inv6
<1>10. M!tbl8_get = g /\ M!init_tbl8_header(op.cur, op.i) = header
  BY DEF M!tbl8_get, g, M!init_tbl8_header
<1>11. /\ M!Link(g) = Link(g) /\ M!Link(g).next_hop = g
       /\ [tbl EXCEPT ![g] = [j \in M!Slots(g) |-> M!PushedDown(CellEntry)]] = filled
       /\ ~M!IsLink(CellEntry) /\ DoneOp.cur = op.cur
       /\ M!Referenced([tbl8_hdrs EXCEPT ![g] = header], op.cur)
            = Referenced([tbl8_hdrs EXCEPT ![g] = header], op.cur)
  BY <1>1, <1>2, <1>8, GroupFits, SameConstants, SameOperators DEF AsCall
<1> HIDE DEF filled, header
<1>12. M!AddStepNewTable
  BY <1>1, <1>2, <1>4, <1>5, <1>7, <1>9, <1>10, <1>11 DEF M!AddStepNewTable
<1> QED BY <1>1, <1>12, UpdatesAreSteps DEF M!AddStep

\* The link is set where the mapping has had it since the group was filled.
LEMMA LinkGroupStutters ==
  ASSUME Inv6, LinkGroup
  PROVE  Whole' /\ UNCHANGED <<M!vars, Deletion>>
<1>1. /\ op.pc = "link" /\ tbl' = Linked /\ tbl8_hdrs' = Referenced(tbl8_hdrs, op.cur)
      /\ UNCHANGED <<rules, used_rules, deletes, tbl8_pool, tbl8_pool_pos, ret>>
      /\ op' = [op EXCEPT !.pc = "add", !.cur = op.group, !.level = @ + 1,
                          !.i = get_bitshift(op.key.ip, op.level + 1), !.group = NO_TABLE]
  BY DEF LinkGroup, Rest, pool, EnterTable
<1>2. /\ op'.pc = "add" /\ op'.key = op.key /\ op'.level = op.level + 1
      /\ op'.i = get_bitshift(op.key.ip, op.level + 1)
      /\ AsCall(op') = AsCall([op EXCEPT !.pc = "add", !.cur = op.group, !.level = @ + 1])
  BY <1>1 DEF Inv6, Typed, Locals, AsCall
<1>3. Whole'
  BY <1>2 DEF Whole, HalfWritten, FirstCell
<1>4. /\ DoneTbl' = tbl' /\ DoneHdrs' = tbl8_hdrs' /\ DoneOp' = AsCall(op')
      /\ DoneRet' = [status |-> ret', hop |-> MISS]
  BY <1>3, WhenWholeNext
<1>5. /\ DoneTbl = Linked /\ DoneHdrs = Referenced(tbl8_hdrs, op.cur)
      /\ DoneOp = AsCall([op EXCEPT !.pc = "add", !.cur = op.group, !.level = @ + 1])
      /\ DoneRet = [status |-> ret, hop |-> MISS]
  BY <1>1 DEF DoneTbl, DoneHdrs, DoneOp, DoneRet, HalfWritten
<1> QED BY <1>1, <1>2, <1>3, <1>4, <1>5 DEF M!vars, Deletion

LEMMA DescendImplements ==
  ASSUME Inv6, Descend
  PROVE  M!AddStepDescend /\ M!EitherNext /\ Whole'
<1>1. /\ op.pc = "add" /\ Deeper /\ IsLink(CellEntry)
      /\ UNCHANGED <<rules, used_rules, deletes, tbl, tbl8_pool, tbl8_pool_pos, tbl8_hdrs, ret>>
      /\ op' = [op EXCEPT !.pc = "add", !.cur = CellEntry.next_hop, !.level = @ + 1,
                          !.i = get_bitshift(op.key.ip, op.level + 1), !.group = NO_TABLE]
  BY DEF Descend, Rest, tables, pool, EnterTable
<1>2. /\ DoneTbl = tbl /\ DoneHdrs = tbl8_hdrs /\ DoneOp = AsCall(op)
      /\ DoneRet = [status |-> ret, hop |-> MISS]
      /\ DoneOp.pc = "add" /\ M!Deeper /\ M!AddEntry = CellEntry
  BY <1>1, DeeperIsWhole
<1> DEFINE t == CellEntry.next_hop
           next == [op EXCEPT !.pc = "add", !.cur = t, !.level = @ + 1]
<1>3. /\ op'.pc = "add" /\ op'.key = op.key /\ op'.level = op.level + 1
      /\ op'.i = get_bitshift(op.key.ip, op.level + 1) /\ AsCall(op') = AsCall(next)
  <2> HIDE DEF t
  <2> QED BY <1>1 DEF Inv6, Typed, Locals, AsCall, t
<1>4. Whole'
  BY <1>3 DEF Whole, HalfWritten, FirstCell
<1>5. /\ DoneTbl' = tbl' /\ DoneHdrs' = tbl8_hdrs' /\ DoneOp' = AsCall(op')
      /\ DoneRet' = [status |-> ret', hop |-> MISS]
  BY <1>4, WhenWholeNext
<1>6. M!Descend(t)
  <2> HIDE DEF t
  <2> QED BY <1>1, <1>2, <1>3, <1>5, DescendIs DEF Inv6
<1>7. M!AddStepDescend
  BY <1>1, <1>2, <1>5, <1>6, SameOperators DEF M!AddStepDescend, M!tables
<1> QED BY <1>1, <1>4, <1>7, UpdatesAreSteps DEF M!AddStep

-----------------------------------------------------------------------------
(* The cells of a rule *)

\* A cell is written, and those that are left bring the table to where all of
\* them do.
LEMMA CellWritten ==
  ASSUME Typed, PlaceKept, op.pc \in {"add", "clear"}, ~Deeper, tbl' = WriteCells({op.i})
  PROVE  /\ Writing /\ op.i \in FirstCell..LastCell
         /\ op.i..LastCell \subseteq Slots(op.cur)
         /\ tbl' = WriteIn(tbl, {op.i})
         /\ op.i = LastCell => tbl' = WriteIn(tbl, op.i..LastCell)
         /\ op.i < LastCell /\ op' = [op EXCEPT !.i = @ + 1] =>
              HalfWritten' /\ DoneTbl' = WriteIn(tbl, op.i..LastCell)
<1>1. Writing
  BY PlaceFacts DEF Writing, Typed, Locals, PlaceKept
<1>2. /\ op.i \in FirstCell..LastCell /\ FirstCell \in Int /\ LastCell \in Int
      /\ FirstCell..LastCell \subseteq Slots(op.cur) /\ TablesOK(tbl)
  BY PlaceFacts DEF PlaceKept, Typed
<1>3. op.i..LastCell \subseteq Slots(op.cur)
  BY <1>2
<1>4. tbl' = WriteIn(tbl, {op.i})
  BY WriteCellsIs
<1>5. op.i = LastCell => op.i..LastCell = {op.i}
  BY <1>2
<1>6. ASSUME op.i < LastCell, op' = [op EXCEPT !.i = @ + 1]
      PROVE  HalfWritten' /\ DoneTbl' = WriteIn(tbl, op.i..LastCell)
  <2>1. /\ op'.i = op.i + 1 /\ op'.pc = op.pc /\ op'.cur = op.cur /\ op'.key = op.key
        /\ op'.entry = op.entry /\ op'.level = op.level
    BY <1>6 DEF Typed, Locals
  <2>2. FirstCell' = FirstCell /\ LastCell' = LastCell
    BY <2>1 DEF FirstCell, LastCell
  <2>3. HalfWritten'
    BY <1>2, <2>1, <2>2 DEF HalfWritten
  <2>4. DoneTbl' = WriteCells(op.i..LastCell)'
    BY <2>1, <2>3 DEF DoneTbl
  <2> DEFINE rest == (op.i + 1)..LastCell
  <2>5. DoneTbl' = WriteIn(tbl', rest)
    <3> DEFINE Hit(e) == IF op.pc = "clear" THEN BelongsTo(e, op.key.depth)
                                            ELSE Yields(e, op.key.depth)
    <3>1. DoneTbl' =
            [u \in Tables |-> [j \in Slots(u) |->
               IF \/ u = op'.cur /\ j \in {c \in op'.i..LastCell' :
                                            IF op'.pc = "clear"
                                            THEN BelongsTo(tbl'[op'.cur][c], op'.key.depth)
                                            ELSE Yields(tbl'[op'.cur][c], op'.key.depth)}
                  \/ /\ u \in SubtreeIn(tbl', LinksOf(tbl', op'.cur, op'.i..LastCell'))
                     /\ Yields(tbl'[u][j], op'.key.depth)
               THEN op'.entry ELSE tbl'[u][j]]]
      BY <2>4 DEF WriteCells, Subtree, LinkedFrom, Hits, SubtreeIn, LinksOf
    <3>2. op'.i..LastCell' = rest
      BY <2>1, <2>2
    <3>3. DoneTbl' =
            [u \in Tables |-> [j \in Slots(u) |->
               IF \/ u = op.cur /\ j \in {c \in rest : Hit(tbl'[op.cur][c])}
                  \/ /\ u \in SubtreeIn(tbl', LinksOf(tbl', op.cur, rest))
                     /\ Yields(tbl'[u][j], op.key.depth)
               THEN op.entry ELSE tbl'[u][j]]]
      <4> HIDE DEF rest
      <4> QED BY <2>1, <3>1, <3>2
    <3> QED BY <3>3 DEF WriteIn, Hits
  <2>6. {op.i} \in SUBSET Slots(op.cur) /\ rest \in SUBSET Slots(op.cur)
    BY <1>2
  <2>7. {op.i} \cup rest = op.i..LastCell
    BY <1>2, <1>6
  <2> HIDE DEF rest
  <2>8. WriteIn(WriteIn(tbl, {op.i}), rest) = WriteIn(tbl, {op.i} \cup rest)
    BY <1>1, <1>2, <2>6, WriteTwice
  <2> QED BY <1>4, <2>3, <2>5, <2>7, <2>8
<1> QED BY <1>1, <1>2, <1>3, <1>4, <1>5, <1>6

\* The state that a cell of an insertion, or of a deletion, is on the way to.
AfterAdd ==
  /\ DoneTbl' = WriteIn(tbl, op.i..LastCell) /\ DoneHdrs' = Counted
  /\ DoneOp' = AsCall(IF op.todo = {} THEN Idle ELSE Rebuilding(op.todo))
  /\ DoneRet' = [status |-> IF op.todo = {} THEN "ok" ELSE ret, hop |-> MISS]
  /\ UNCHANGED <<rules, used_rules, tbl8_pool, tbl8_pool_pos, deletes>>

AfterClear ==
  /\ DoneTbl' = WriteIn(tbl, op.i..LastCell) /\ DoneHdrs' = tbl8_hdrs
  /\ DoneOp' = AsCall(Idle) /\ DoneRet' = [status |-> "ok", hop |-> MISS]
  /\ UNCHANGED <<rules, used_rules, tbl8_pool, tbl8_pool_pos, deletes>>

LEMMA ExpandCellDone ==
  ASSUME Typed, PlaceKept, CallKept, ExpandCell
  PROVE  AfterAdd
<1>1. /\ op.pc = "add" /\ ~Deeper /\ tbl' = WriteCells({op.i})
      /\ UNCHANGED <<rules, used_rules, tbl8_pool, tbl8_pool_pos, deletes>>
  BY DEF ExpandCell, Rest, pool
<1>2. /\ op.i = LastCell => tbl' = WriteIn(tbl, op.i..LastCell)
      /\ op.i < LastCell /\ op' = [op EXCEPT !.i = @ + 1] =>
           HalfWritten' /\ DoneTbl' = WriteIn(tbl, op.i..LastCell)
  BY <1>1, CellWritten
<1>3. CASE op.i < LastCell /\ op' = [op EXCEPT !.i = @ + 1]
           /\ UNCHANGED <<tbl8_hdrs, ret, before>>
  <2>1. /\ op'.pc = "add" /\ op'.todo = op.todo /\ op'.fresh = op.fresh /\ op'.cur = op.cur
    BY <1>1, <1>3 DEF Typed, Locals
  <2>2. DoneHdrs' = Counted
    BY <1>2, <1>3, <2>1 DEF DoneHdrs, Counted
  <2>3. DoneOp' = AsCall(IF op.todo = {} THEN Idle ELSE Rebuilding(op.todo))
    BY <1>2, <1>3, <2>1 DEF DoneOp, AsCall, Rebuilding
  <2>4. DoneRet' = [status |-> IF op.todo = {} THEN "ok" ELSE ret, hop |-> MISS]
    BY <1>2, <1>3, <2>1 DEF DoneRet
  <2> QED BY <1>1, <1>2, <1>3, <2>2, <2>3, <2>4 DEF AfterAdd
<1>4. CASE /\ op.i = LastCell /\ tbl8_hdrs' = Counted
           /\ IF op.todo = {} THEN Return
              ELSE op' = Rebuilding(op.todo) /\ UNCHANGED <<ret, before>>
  <2>1. /\ op' = IF op.todo = {} THEN Idle ELSE Rebuilding(op.todo)
        /\ ret' = IF op.todo = {} THEN "ok" ELSE ret
    BY <1>4 DEF Return
  <2>2. Whole'
    BY <2>1 DEF Whole, HalfWritten, Idle, Rebuilding
  <2> QED BY <1>1, <1>2, <1>4, <2>1, <2>2, WhenWholeNext DEF AfterAdd
<1> QED BY <1>3, <1>4 DEF ExpandCell

LEMMA ClearCellDone ==
  ASSUME Typed, PlaceKept, CallKept, ClearCell
  PROVE  AfterClear
<1>1. /\ op.pc = "clear" /\ tbl' = WriteCells({op.i}) /\ op.todo = {}
      /\ UNCHANGED <<rules, used_rules, tbl8_pool, tbl8_pool_pos, tbl8_hdrs, deletes>>
  BY DEF ClearCell, Rest, pool, CallKept
<1>2. ~Deeper
  <2>1. op.level = LevelOf(op.key.depth)
    BY <1>1 DEF PlaceKept
  <2>2. op.key.depth \in M!Depth
    BY SameConstants DEF Typed, Locals, Prefix
  <2>3. M!LevelOf(op.key.depth) \in M!Levels /\ op.key.depth <= M!BitsCovered(M!LevelOf(op.key.depth))
    BY <2>2, M!LevelOfIs, Parameters
  <2>4. op.key.depth \in Int /\ BitsCovered(op.level) \in Int
    <3>1. op.level \in M!Levels
      BY <2>1, <2>3, SameConstants
    <3>2. M!BitsCovered(op.level) \in Int
      BY <3>1, M!BitsCoveredRange, M!Constants, Parameters
    <3>3. op.key.depth \in Nat
      BY <2>2, M!Constants, Parameters
    <3> QED BY <3>2, <3>3, SameConstants
  <2> QED BY <2>1, <2>3, <2>4, SameConstants DEF Deeper
<1>3. /\ op.i = LastCell => tbl' = WriteIn(tbl, op.i..LastCell)
      /\ op.i < LastCell /\ op' = [op EXCEPT !.i = @ + 1] =>
           HalfWritten' /\ DoneTbl' = WriteIn(tbl, op.i..LastCell)
  BY <1>1, <1>2, CellWritten
<1>4. CASE op.i < LastCell /\ op' = [op EXCEPT !.i = @ + 1] /\ UNCHANGED <<ret, before>>
  <2>1. op'.pc = "clear" /\ op'.todo = {}
    BY <1>1, <1>4 DEF Typed, Locals
  <2>2. DoneHdrs' = tbl8_hdrs
    BY <1>1, <1>3, <1>4, <2>1 DEF DoneHdrs
  <2>3. DoneOp' = AsCall(Idle)
    BY <1>3, <1>4, <2>1 DEF DoneOp, AsCall
  <2>4. DoneRet' = [status |-> "ok", hop |-> MISS]
    BY <1>3, <1>4, <2>1 DEF DoneRet
  <2> QED BY <1>1, <1>3, <1>4, <2>2, <2>3, <2>4 DEF AfterClear
<1>5. CASE op.i = LastCell /\ Return
  <2>1. Whole'
    BY <1>5 DEF Return, Whole, HalfWritten, Idle
  <2> QED BY <1>1, <1>3, <1>5, <2>1, WhenWholeNext DEF AfterClear, Return
<1> QED BY <1>4, <1>5 DEF ClearCell

\* The multibit trie writes all the cells of the rule at once.
LEMMA WholeWrite ==
  ASSUME Typed, DoneTbl = tbl, DoneOp = AsCall(op), NEW cells
  PROVE  LET hit == {j \in cells : Hits(tbl[op.cur][j])}
         IN  M!WriteRule(op.cur, cells, hit, op.key.depth, op.entry) = WriteIn(tbl, cells)
<1> DEFINE hit == {j \in cells : Hits(tbl[op.cur][j])}
           linked == LinksOf(tbl, op.cur, cells)
           below == SubtreeIn(tbl, linked)
<1>1. M!LinkedFrom(op.cur, cells) = linked
  BY SameOperators DEF M!LinkedFrom, LinksOf
<1>2. M!Subtree(linked) = below
  <2> HIDE DEF linked
  <2>1. M!Subtree(linked) = SubtreeIn(DoneTbl, linked)
    BY DEF M!Subtree, SubtreeIn, M!LinkedFrom, LinksOf, M!IsLink, IsLink, M!Slots, Slots,
           M!StepBits, StepBits, M!BitsCovered, BitsCovered, M!TBL24_IND, TBL24_IND
  <2> QED BY <2>1
<1> HIDE DEF linked, below
<1>3. M!WriteRule(op.cur, cells, hit, op.key.depth, op.entry) =
        [u \in Tables |-> [j \in Slots(u) |->
           IF \/ u = op.cur /\ j \in hit
              \/ u \in below /\ Yields(tbl[u][j], op.key.depth)
           THEN op.entry
           ELSE tbl[u][j]]]
  <2> HIDE DEF hit
  <2> QED BY <1>1, <1>2, SameConstants, SameOperators DEF M!WriteRule
<1> QED BY <1>3 DEF WriteIn, below, linked

LEMMA RuleCellsAre == M!RuleRange(op.key, op.level) = FirstCell..LastCell
BY SameConstants, SameOperators DEF M!RuleRange, FirstCell, LastCell

LEMMA ExpandCellImplements ==
  ASSUME Inv6, ExpandCell
  PROVE  [M!EitherNext]_<<M!vars, Deletion>>
<1>1. /\ op.pc = "add" /\ ~Deeper /\ AfterAdd /\ Typed /\ CallKept /\ deletes' = deletes
  BY ExpandCellDone DEF Inv6, ExpandCell, Rest
<1>2. CASE HalfWritten
  <2>1. /\ DoneTbl = WriteIn(tbl, op.i..LastCell) /\ DoneHdrs = Counted
        /\ DoneOp = AsCall(IF op.todo = {} THEN Idle ELSE Rebuilding(op.todo))
        /\ DoneRet = [status |-> IF op.todo = {} THEN "ok" ELSE ret, hop |-> MISS]
    BY <1>1, <1>2, WriteCellsIs DEF DoneTbl, DoneHdrs, DoneOp, DoneRet
  <2> QED BY <1>1, <2>1 DEF AfterAdd, M!vars, Deletion
<1>3. CASE ~HalfWritten
  <2>1. op.i = FirstCell /\ Whole
    BY <1>1, <1>3 DEF HalfWritten, Whole
  <2>2. /\ DoneTbl = tbl /\ DoneHdrs = tbl8_hdrs /\ DoneOp = AsCall(op)
        /\ DoneRet = [status |-> ret, hop |-> MISS]
    BY <2>1, WhenWhole
  <2>3. /\ DoneOp.pc = "add" /\ DoneOp.key = op.key /\ DoneOp.level = op.level
        /\ DoneOp.cur = op.cur /\ DoneOp.entry = op.entry /\ DoneOp.todo = op.todo
        /\ DoneOp.fresh = op.fresh
    BY <1>1, <2>2 DEF AsCall
  <2> DEFINE cells == M!RuleRange(op.key, op.level)
             hit == {j \in cells : M!Yields(tbl[op.cur][j], op.key.depth)}
  <2>4. cells = op.i..LastCell
    BY <2>1, RuleCellsAre
  <2>5. hit = {j \in cells : Hits(tbl[op.cur][j])}
    BY <1>1, SameOperators DEF Hits
  <2> HIDE DEF cells, hit
  <2>6. DoneTbl' = M!WriteRule(op.cur, cells, hit, op.key.depth, op.entry)
    BY <1>1, <2>2, <2>4, <2>5, WholeWrite DEF AfterAdd
  <2>7. DoneHdrs' = M!RuleCounted
    BY <1>1, <2>2, <2>3, SameOperators DEF AfterAdd, M!RuleCounted, Counted
  <2>8. IF op.todo = {}
        THEN DoneOp' = M!Idle /\ DoneRet' = M!Answer("ok")
        ELSE DoneOp' = [M!Idle EXCEPT !.pc = "rebuild", !.todo = op.todo]
             /\ DoneRet' = DoneRet
    BY <1>1, <2>2, SameConstants, RebuildingIs DEF AfterAdd, M!Answer
  <2>9. ~M!Deeper
    BY <1>1, <2>3, SameConstants DEF Deeper, M!Deeper
  <2>10. M!AddStepLast
    BY <1>1, <2>2, <2>3, <2>6, <2>7, <2>8, <2>9
       DEF M!AddStepLast, AfterAdd, cells, hit
  <2> QED BY <1>1, <2>10, UpdatesAreSteps DEF M!AddStep
<1> QED BY <1>2, <1>3

\* Single rules are only deleted by callers that do so.
LEMMA DeletingOneByOne ==
  ASSUME M!EitherInv, DoneOp.pc \in {"unref", "unlink", "clear"}
  PROVE  deletes = "one"
<1> SUFFICES ASSUME deletes # "one" PROVE FALSE
  OBVIOUS
<1>1. Deletion = "bulk"
  BY DEF Deletion
<1> QED BY <1>1 DEF M!EitherInv, M!BulkInv, M!BulkCall

LEMMA ClearCellImplements ==
  ASSUME Inv6, ClearCell
  PROVE  [M!EitherNext]_<<M!vars, Deletion>>
<1>1. /\ op.pc = "clear" /\ AfterClear /\ Typed /\ CallKept /\ deletes' = deletes
      /\ op.todo = {}
  BY ClearCellDone DEF Inv6, ClearCell, Rest, CallKept
<1>2. CASE HalfWritten
  <2>1. /\ DoneTbl = WriteIn(tbl, op.i..LastCell) /\ DoneHdrs = tbl8_hdrs
        /\ DoneOp = AsCall(Idle) /\ DoneRet = [status |-> "ok", hop |-> MISS]
    BY <1>1, <1>2, WriteCellsIs DEF DoneTbl, DoneHdrs, DoneOp, DoneRet
  <2> QED BY <1>1, <2>1 DEF AfterClear, M!vars, Deletion
<1>3. CASE ~HalfWritten
  <2>1. op.i = FirstCell /\ Whole
    BY <1>1, <1>3 DEF HalfWritten, Whole
  <2>2. /\ DoneTbl = tbl /\ DoneHdrs = tbl8_hdrs /\ DoneOp = AsCall(op)
        /\ DoneRet = [status |-> ret, hop |-> MISS]
    BY <2>1, WhenWhole
  <2>3. /\ DoneOp.pc = "clear" /\ DoneOp.key = op.key /\ DoneOp.level = op.level
        /\ DoneOp.cur = op.cur /\ DoneOp.entry = op.entry
    BY <1>1, <2>2 DEF AsCall
  <2> DEFINE cells == M!RuleRange(op.key, op.level)
             hit == {j \in cells : M!BelongsTo(tbl[op.cur][j], op.key.depth)}
  <2>4. cells = op.i..LastCell
    BY <2>1, RuleCellsAre
  <2>5. hit = {j \in cells : Hits(tbl[op.cur][j])}
    BY <1>1, SameOperators DEF Hits
  <2> HIDE DEF cells, hit
  <2>6. DoneTbl' = M!WriteRule(op.cur, cells, hit, op.key.depth, op.entry)
    BY <1>1, <2>2, <2>4, <2>5, WholeWrite DEF AfterClear
  <2>7. DoneOp' = M!Idle /\ DoneRet' = M!Answer("ok")
    BY <1>1, SameConstants DEF AfterClear, M!Answer
  <2>8. M!DeleteClear
    BY <1>1, <2>2, <2>3, <2>6, <2>7 DEF M!DeleteClear, AfterClear, cells, hit
  <2>9. deletes = "one"
    BY <2>3, DeletingOneByOne DEF Inv6
  <2> QED BY <1>1, <2>8, <2>9, SingleStepsAreSteps DEF M!DeleteStep
<1> QED BY <1>2, <1>3

-----------------------------------------------------------------------------
(* Groups that are put back *)

LEMMA UnrefImplements ==
  ASSUME Inv6, Unref
  PROVE  M!EitherNext /\ Whole'
<1> DEFINE count == (tbl8_hdrs[op.cur].ref_cnt - 1) % REF_MOD
           owner == tbl8_hdrs[op.cur].owner_tbl_ind
           pcUp == IF owner = TBL24_IND THEN "unlink" ELSE "unref"
           pcDown == IF op.chain = <<>> THEN "clear" ELSE "unlink"
<1>1. /\ op.pc = "unref" /\ Typed
      /\ tbl8_hdrs' = [tbl8_hdrs EXCEPT ![op.cur].ref_cnt = count]
      /\ \/ count # 0 /\ op' = [op EXCEPT !.pc = pcDown]
         \/ count = 0 /\ op' = [op EXCEPT !.chain = <<op.cur>> \o @, !.cur = owner,
                                          !.pc = pcUp]
      /\ UNCHANGED <<rules, used_rules, deletes, tbl, tbl8_pool, tbl8_pool_pos, ret>>
  BY DEF Unref, Rest, pool, Inv6
<1>2. Whole /\ op.i = FirstCell
  BY <1>1 DEF Inv6, CallKept, Whole, HalfWritten
<1> HIDE DEF count, owner, pcUp, pcDown
<1>3. Whole'
  <2>1. /\ op'.key = op.key /\ op'.level = op.level /\ op'.i = op.i
        /\ op'.pc = pcDown \/ op'.pc = pcUp
    BY <1>1 DEF Typed, Locals
  <2>2. op'.i = FirstCell'
    BY <1>2, <2>1 DEF FirstCell
  <2> QED BY <2>1, <2>2 DEF Whole, HalfWritten, pcUp, pcDown
<1>4. /\ DoneTbl = tbl /\ DoneHdrs = tbl8_hdrs /\ DoneOp = AsCall(op)
      /\ DoneRet = [status |-> ret, hop |-> MISS]
      /\ DoneTbl' = tbl' /\ DoneHdrs' = tbl8_hdrs' /\ DoneOp' = AsCall(op')
      /\ DoneRet' = [status |-> ret', hop |-> MISS]
  BY <1>2, <1>3, WhenWhole, WhenWholeNext
<1>5. DoneOp.pc = "unref" /\ DoneOp.cur = op.cur /\ DoneOp.chain = op.chain
  BY <1>1, <1>4 DEF AsCall
<1> DEFINE o == DoneOp
<1>6. o = [pc |-> op.pc, key |-> op.key, entry |-> op.entry, fresh |-> op.fresh,
           cur |-> op.cur, level |-> op.level, chain |-> op.chain, todo |-> op.todo]
  BY <1>4 DEF AsCall
<1> HIDE DEF o
<1>7. ASSUME op' = [op EXCEPT !.pc = pcDown]
      PROVE  DoneOp' = [o EXCEPT !.pc = pcDown]
  <2>1. DoneOp' = [pc |-> pcDown, key |-> op.key, entry |-> op.entry, fresh |-> op.fresh,
                   cur |-> op.cur, level |-> op.level, chain |-> op.chain, todo |-> op.todo]
    BY <1>1, <1>4, <1>7 DEF AsCall, Typed, Locals
  <2> SUFFICES ASSUME NEW p, p = [o EXCEPT !.pc = pcDown]
               PROVE  p = [pc |-> pcDown, key |-> op.key, entry |-> op.entry,
                           fresh |-> op.fresh, cur |-> op.cur, level |-> op.level,
                           chain |-> op.chain, todo |-> op.todo]
    BY <2>1
  <2> QED BY <1>6
<1> DEFINE longer == <<op.cur>> \o op.chain
<1>8. ASSUME op' = [op EXCEPT !.chain = <<op.cur>> \o @, !.cur = owner, !.pc = pcUp]
      PROVE  DoneOp' = [o EXCEPT !.chain = longer, !.pc = pcUp, !.cur = owner]
  <2>1. op' = [op EXCEPT !.chain = longer, !.cur = owner, !.pc = pcUp]
    BY <1>1, <1>8 DEF Typed, Locals
  <2> HIDE DEF longer
  <2>2. DoneOp' = [pc |-> pcUp, key |-> op.key, entry |-> op.entry, fresh |-> op.fresh,
                   cur |-> owner, level |-> op.level, chain |-> longer, todo |-> op.todo]
    BY <1>1, <1>4, <2>1 DEF AsCall, Typed, Locals
  <2> SUFFICES ASSUME NEW p, p = [o EXCEPT !.chain = longer, !.pc = pcUp, !.cur = owner]
               PROVE  p = [pc |-> pcUp, key |-> op.key, entry |-> op.entry,
                           fresh |-> op.fresh, cur |-> owner, level |-> op.level,
                           chain |-> longer, todo |-> op.todo]
    BY <2>2
  <2> QED BY <1>6
<1>9. M!DeleteUnref
  <2>1. \/ ~M!LastReference(count) /\ DoneOp' = [o EXCEPT !.pc = pcDown]
        \/ M!LastReference(count)
           /\ DoneOp' = [o EXCEPT !.chain = longer, !.pc = pcUp, !.cur = owner]
    BY <1>1, <1>7, <1>8 DEF M!LastReference
  <2>2. /\ count = (DoneHdrs[DoneOp.cur].ref_cnt - 1) % REF_MOD
        /\ owner = DoneHdrs[DoneOp.cur].owner_tbl_ind
        /\ DoneHdrs' = [DoneHdrs EXCEPT ![DoneOp.cur].ref_cnt = count]
        /\ UNCHANGED <<rules, used_rules, DoneTbl, tbl8_pool, tbl8_pool_pos, DoneRet>>
    BY <1>1, <1>4, <1>5 DEF count, owner
  <2>3. /\ pcUp = IF owner = M!TBL24_IND THEN "unlink" ELSE "unref"
        /\ pcDown = IF DoneOp.chain = <<>> THEN "clear" ELSE "unlink"
    BY <1>5, SameConstants DEF pcUp, pcDown
  <2>4. longer = <<DoneOp.cur>> \o DoneOp.chain
    BY <1>5
  <2> HIDE DEF longer
  <2>5. DoneOp.pc = "unref" /\ o = DoneOp
    BY <1>5 DEF o
  <2>6. \/ /\ ~M!LastReference(count)
           /\ DoneOp' = [DoneOp EXCEPT !.pc = IF DoneOp.chain = <<>> THEN "clear" ELSE "unlink"]
        \/ /\ M!LastReference(count)
           /\ DoneOp' = [DoneOp EXCEPT !.chain = <<DoneOp.cur>> \o @,
                                       !.pc = IF owner = M!TBL24_IND THEN "unlink" ELSE "unref",
                                       !.cur = owner]
    BY ONLY <2>1, <2>3, <2>4, <2>5
  <2> QED BY ONLY <2>2, <2>5, <2>6 DEF M!DeleteUnref
<1>10. deletes = "one" /\ deletes' = deletes
  BY <1>1, <1>5, DeletingOneByOne DEF Inv6
<1> QED BY <1>3, <1>9, <1>10, SingleStepsAreSteps DEF M!DeleteStep

LEMMA UnlinkImplements ==
  ASSUME Inv6, Unlink
  PROVE  M!EitherNext /\ Whole'
<1> DEFINE g == Head(op.chain)
           header == tbl8_hdrs[g]
           t == header.owner_tbl_ind
           j == header.owner_entry_ind
           rest == Tail(op.chain)
<1>1. /\ op.pc = "unlink" /\ Typed
      /\ tbl[t][j].ext_entry /\ tbl' = [tbl EXCEPT ![t][j] = op.entry]
      /\ tbl8_put(g)
      /\ IF rest = <<>> THEN op' = Idle /\ ret' = "ok"
                        ELSE op' = [op EXCEPT !.chain = rest] /\ ret' = ret
      /\ UNCHANGED <<rules, used_rules, deletes, tbl8_hdrs>>
  BY DEF Unlink, Rest, Inv6, Return
<1>2. Whole
  BY <1>1 DEF Whole, HalfWritten
<1> HIDE DEF g, header, t, j, rest
<1>3. Whole'
  BY <1>1 DEF Whole, HalfWritten, Idle, Typed, Locals
<1>4. /\ DoneTbl = tbl /\ DoneHdrs = tbl8_hdrs /\ DoneOp = AsCall(op)
      /\ DoneRet = [status |-> ret, hop |-> MISS]
      /\ DoneTbl' = tbl' /\ DoneHdrs' = tbl8_hdrs' /\ DoneOp' = AsCall(op')
      /\ DoneRet' = [status |-> ret', hop |-> MISS]
  BY <1>2, <1>3, WhenWhole, WhenWholeNext
<1>5. DoneOp.pc = "unlink" /\ DoneOp.chain = op.chain /\ DoneOp.entry = op.entry
  BY <1>1, <1>4 DEF AsCall
<1> DEFINE o == DoneOp
<1>6. o = [pc |-> op.pc, key |-> op.key, entry |-> op.entry, fresh |-> op.fresh,
           cur |-> op.cur, level |-> op.level, chain |-> op.chain, todo |-> op.todo]
  BY <1>4 DEF AsCall
<1> HIDE DEF o
<1>7. ASSUME op' = [op EXCEPT !.chain = rest]
      PROVE  DoneOp' = [o EXCEPT !.chain = rest]
  <2>1. DoneOp' = [pc |-> op.pc, key |-> op.key, entry |-> op.entry, fresh |-> op.fresh,
                   cur |-> op.cur, level |-> op.level, chain |-> rest, todo |-> op.todo]
    BY <1>1, <1>4, <1>7 DEF AsCall, Typed, Locals
  <2> SUFFICES ASSUME NEW p, p = [o EXCEPT !.chain = rest]
               PROVE  p = [pc |-> op.pc, key |-> op.key, entry |-> op.entry,
                           fresh |-> op.fresh, cur |-> op.cur, level |-> op.level,
                           chain |-> rest, todo |-> op.todo]
    BY <2>1
  <2> QED BY <1>6
<1>8. /\ g = Head(DoneOp.chain) /\ rest = Tail(DoneOp.chain) /\ header = DoneHdrs[g]
      /\ DoneTbl[t][j].ext_entry /\ DoneTbl' = [DoneTbl EXCEPT ![t][j] = DoneOp.entry]
      /\ UNCHANGED <<rules, used_rules, DoneHdrs>> /\ DoneOp.pc = "unlink"
  BY <1>1, <1>4, <1>5 DEF g, rest, header
<1>9. M!tbl8_put(g)
  BY <1>1 DEF tbl8_put, M!tbl8_put, pool
<1>10. IF rest = <<>> THEN DoneOp' = M!Idle /\ DoneRet' = M!Answer("ok")
                      ELSE DoneOp' = [DoneOp EXCEPT !.chain = rest] /\ DoneRet' = DoneRet
  BY <1>1, <1>4, <1>7, SameConstants DEF o, M!Answer
<1>11. M!DeleteUnlink
  <2>1. IF rest = <<>> THEN DoneOp' = M!Idle /\ DoneRet' = M!Answer("ok")
                       ELSE DoneOp' = [DoneOp EXCEPT !.chain = Tail(@)] /\ DoneRet' = DoneRet
    BY <1>8, <1>10
  <2> QED BY <1>8, <1>9, <2>1 DEF M!DeleteUnlink, t, j
<1>12. deletes = "one" /\ deletes' = deletes
  BY <1>1, <1>5, DeletingOneByOne DEF Inv6
<1> QED BY <1>3, <1>11, <1>12, SingleStepsAreSteps DEF M!DeleteStep

-----------------------------------------------------------------------------
(* Every step *)

LEMMA LookupsStutter ==
  ASSUME Lookups \/ UNCHANGED vars
  PROVE  /\ UNCHANGED <<M!vars, Deletion>>
         /\ UNCHANGED <<rules, used_rules, tbl, tbl8_pool, tbl8_pool_pos, tbl8_hdrs, op, ret,
                        before, deletes>>
<1>1. UNCHANGED <<rules, used_rules, tbl, tbl8_pool, tbl8_pool_pos, tbl8_hdrs, op, ret,
                  before, deletes>>
  BY DEF Lookups, rte_lpm6_lookup_bulk, lookup_step, vars, tables, pool
<1>2. /\ DoneTbl' = DoneTbl /\ DoneHdrs' = DoneHdrs /\ DoneOp' = DoneOp /\ DoneRet' = DoneRet
      /\ Deletion' = Deletion
  BY <1>1 DEF DoneTbl, DoneHdrs, DoneOp, DoneRet, Deletion, HalfWritten, Linked, WriteCells,
     Subtree, LinkedFrom, Hits, FirstCell, LastCell, Counted, Referenced, AsCall, Rebuilding
<1> QED BY <1>1, <1>2 DEF M!vars

LEMMA StepImplements ==
  ASSUME Inv6, [Next]_vars
  PROVE  [M!EitherNext]_<<M!vars, Deletion>>
<1>1. CASE Call
  <2>1. ASSUME NEW r \in Routes, NEW hop \in NextHops, rte_lpm6_add(r, hop)
        PROVE  M!EitherNext
    <3>1. M!Add(r, hop) /\ deletes' = deletes
      BY <2>1, AddImplements
    <3> QED BY <3>1, UpdatesAreSteps DEF M!Update
  <2> QED BY <1>1, <2>1, RefusedCallsImplement, DeleteImplements, DeleteAllImplements,
             DeleteBulkImplements DEF Call
<1>2. CASE Step
  BY <1>2, FillGroupImplements, LinkGroupStutters, DescendImplements, ExpandCellImplements,
     UnrefImplements, UnlinkImplements, ClearCellImplements, RebuildImplements DEF Step
<1>3. CASE Lookups \/ UNCHANGED vars
  BY <1>3, LookupsStutter
<1> QED BY <1>1, <1>2, <1>3 DEF Next

LEMMA CreateImplements ==
  ASSUME rte_lpm6_create
  PROVE  M!Create /\ Deletion \in {"single", "bulk"} /\ Whole
<1>1. Whole
  BY DEF rte_lpm6_create, Whole, HalfWritten, Idle
<1>2. /\ DoneTbl = ZeroTables /\ DoneHdrs = tbl8_hdrs /\ DoneOp = AsCall(Idle)
      /\ DoneRet = [status |-> "ok", hop |-> MISS]
  BY <1>1, WhenWhole DEF rte_lpm6_create
<1> QED BY <1>1, <1>2, SameConstants DEF rte_lpm6_create, M!Create, M!Answer, Deletion

-----------------------------------------------------------------------------
(* The inductive invariant holds after every step *)

\* What the multibit trie knows of a step that begins is what its parts rely on.
LEMMA WholePlace ==
  M!EitherInv /\ M!ExpandInv /\ Typed /\ Whole => PlaceKept
<1> SUFFICES ASSUME M!EitherInv, M!ExpandInv, Typed, Whole, op.pc \in {"add", "link", "clear"}
             PROVE  PlaceKept
  BY DEF PlaceKept
<1>1. /\ op.pc \in {"add", "clear"} /\ op.i = FirstCell
      /\ DoneTbl = tbl /\ DoneOp = AsCall(op)
  BY WhenWhole DEF Whole, HalfWritten
<1>2. /\ DoneOp.pc = op.pc /\ DoneOp.key = op.key /\ DoneOp.level = op.level
      /\ DoneOp.cur = op.cur /\ DoneOp.entry = op.entry
  BY <1>1 DEF AsCall
<1>3. /\ op.key \in Prefix /\ op.key.ip \in Address /\ op.key.depth \in Depth
      /\ op.level \in Levels /\ TablesOK(tbl)
  BY DEF Typed, Locals, Prefix
<1>4. ip6_mask_addr(op.key.ip, op.key.depth) = op.key.ip
  <2>1. CASE op.pc = "add"
    <3>1. op.key \in DOMAIN rules
      BY <1>2, <2>1 DEF M!ExpandInv, M!Adding, M!Inserted
    <3> QED BY <3>1, SameOperators DEF M!ExpandInv, M!KeysMasked
  <2>2. CASE op.pc = "clear"
    BY <1>2, <2>2, SameOperators DEF M!ExpandInv, M!Deleting
  <2> QED BY <1>1, <2>1, <2>2
<1>5. ~op.entry.ext_entry
  BY <1>2, InheritedInvariants DEF M!CallLinks
<1>6. op.pc = "clear" => op.level = LevelOf(op.key.depth)
  BY <1>2, SameConstants DEF M!ExpandInv, M!Deleting
<1>7. op.level <= LevelOf(op.key.depth)
  <2>1. CASE op.pc = "add"
    BY <1>2, <2>1, InheritedInvariants, SameConstants DEF M!AddOnWalk
  <2>2. CASE op.pc = "clear"
    BY <1>3, <1>6, <2>2, Constants6 DEF Levels
  <2> QED BY <1>1, <2>1, <2>2
<1>8. op.cur = TBL24_IND <=> op.level = ADD_FIRST_BYTE
  <2>1. CASE op.pc = "add"
    BY <1>2, <2>1, InheritedInvariants, SameConstants DEF M!CallOK
  <2>2. CASE op.pc = "clear"
    <3>1. op.cur = M!WalkIn(tbl, op.key.ip)[op.level]
      BY <1>1, <1>2, <2>2 DEF M!ExpandInv, M!Deleting, M!Walk
    <3>2. M!TablesOK(tbl) /\ op.key.ip \in M!Address /\ op.level \in M!Levels
      BY <1>3, SameConstants, SameTablesOK
    <3>3. M!WalkIn(tbl, op.key.ip)[op.level] = M!TBL24_IND <=> op.level = ADD_FIRST_BYTE
      BY <3>2, M!WalkInUnfolds, Parameters
    <3> QED BY <3>1, <3>3, SameConstants
  <2> QED BY <1>1, <2>1, <2>2
<1>9. ASSUME ~Deeper PROVE op.i \in FirstCell..LastCell
  <2>1. FirstCell \in Slots(op.cur)
    BY <1>3, <1>8, SameConstants, SameOperators, M!SlotOfAddress, Parameters
       DEF FirstCell, Typed, Locals
  <2>2. FirstCell \in Int
    BY <2>1 DEF Slots
  <2>3. BitsCovered(op.level) \in 0..MAX_DEPTH
    BY <1>3, SameConstants, M!BitsCoveredRange, Parameters
  <2>4. BitsCovered(op.level) - op.key.depth \in 0..MAX_DEPTH
    BY <1>3, <1>9, <2>3, DepthsAreNaturals DEF Deeper, Depth
  <2>5. 2 ^ (BitsCovered(op.level) - op.key.depth) \in Nat \ {0}
    BY <2>4, PowersAssumption
  <2> QED BY <1>1, <2>2, <2>5 DEF LastCell
<1> QED BY <1>1, <1>4, <1>5, <1>6, <1>7, <1>8, <1>9 DEF PlaceKept

LEMMA WholePlaceNext ==
  ASSUME M!EitherInv', M!ExpandInv', Typed', Whole'
  PROVE  PlaceKept'
BY WholePlace, PTL

\* The types of what the state is mapped to, after a step as before it.
DoneTyped ==
  /\ TablesOK(DoneTbl) /\ DoneHdrs \in [Groups -> Header]
  /\ DoneOp.key \in Prefix /\ DoneOp.entry \in Entry /\ DoneOp.cur \in Tables
  /\ DoneOp.level \in Levels /\ DoneOp.chain \in Seq(Groups)
  /\ DoneOp.todo \in SUBSET Prefix /\ DoneOp.fresh \in BOOLEAN

LEMMA DoneIsTyped == M!EitherInv => DoneTyped
BY InheritedTypes DEF DoneTyped

LEMMA DoneTypedNext ==
  ASSUME M!EitherInv'
  PROVE  DoneTyped'
BY DoneIsTyped, PTL

\* The locals of an update that are not those of the multibit trie.
Shaped ==
  /\ op = [pc |-> op.pc, call |-> op.call, key |-> op.key, entry |-> op.entry,
           fresh |-> op.fresh, cur |-> op.cur, level |-> op.level, i |-> op.i,
           group |-> op.group, chain |-> op.chain, todo |-> op.todo]
  /\ op.pc \in {"idle", "add", "link", "unref", "unlink", "clear", "rebuild"}
  /\ op.call \in {"none", "add", "delete", "bulk"}
  /\ op.i \in Int \/ op.i = FirstCell
  /\ op.group \in Groups \cup {NO_TABLE}

LEMMA ShapedIsTyped ==
  M!EitherInv /\ M!ExpandInv /\ Whole /\ Shaped => Typed /\ PlaceKept
<1> SUFFICES ASSUME M!EitherInv, M!ExpandInv, Whole, Shaped PROVE Typed
  BY WholePlace
<1>1. DoneTbl = tbl /\ DoneHdrs = tbl8_hdrs /\ DoneOp = AsCall(op) /\ DoneTyped
  BY WhenWhole, DoneIsTyped
<1>2. /\ op.key \in Prefix /\ op.entry \in Entry /\ op.cur \in Tables /\ op.level \in Levels
      /\ op.chain \in Seq(Groups) /\ op.todo \in SUBSET Prefix /\ op.fresh \in BOOLEAN
      /\ TablesOK(tbl) /\ tbl8_hdrs \in [Groups -> Header]
  BY <1>1 DEF DoneTyped, AsCall
<1>3. FirstCell \in Int
  <2>1. /\ op.key.ip \in Nat /\ MAX_DEPTH - BitsCovered(op.level) \in 0..MAX_DEPTH
    BY <1>2, SameConstants, M!BitsCoveredRange, Parameters, DepthsAreNaturals
       DEF Prefix, Address
  <2>2. StepBits(op.level) \in 0..MAX_DEPTH
    <3>1. M!StepBits(op.level) \in 0..M!MAX_DEPTH
      BY <1>2, SameConstants, M!BitsCoveredRange, Parameters
    <3> QED BY <3>1, SameConstants DEF StepBits, M!StepBits
  <2>3. /\ 2 ^ (MAX_DEPTH - BitsCovered(op.level)) \in Nat \ {0}
        /\ 2 ^ StepBits(op.level) \in Nat \ {0}
    BY <2>1, <2>2, PowersAssumption
  <2> QED BY <2>1, <2>3 DEF FirstCell, get_bitshift
<1>4. op \in Locals
  BY <1>2, <1>3 DEF Shaped, Locals
<1> QED BY <1>2, <1>4 DEF Typed

LEMMA ShapedIsTypedNext ==
  ASSUME M!EitherInv', M!ExpandInv', Whole', Shaped'
  PROVE  Typed' /\ PlaceKept'
BY ShapedIsTyped, PTL

\* Calls that start, and those that return at once.
LEMMA CallsKeepLocals ==
  ASSUME Inv6, Call
  PROVE  Shaped' /\ CallKept'
<1>1. /\ op.pc = "idle" /\ op = Idle /\ before = rules
  <2>1. op.pc = "idle"
    BY DEF Call, RejectDepth, AddThrows, AddNoSpace, rte_lpm6_add, DeleteAbsent, CanDelete,
       rte_lpm6_delete, rte_lpm6_delete_all, rte_lpm6_delete_bulk
  <2> QED BY <2>1 DEF Inv6, CallKept
<1>2. ASSUME op' = op, before' = rules' PROVE Shaped' /\ CallKept'
  BY <1>1, <1>2 DEF Idle, Shaped, CallKept
<1>3. ASSUME NEW r \in Routes, NEW hop \in NextHops, rte_lpm6_add(r, hop)
      PROVE  Shaped' /\ CallKept'
  <2> DEFINE key == Masked(r)
             entry == Leaf(hop, key.depth)
             fresh == key \notin DOMAIN rules
             first == get_bitshift(key.ip, ADD_FIRST_BYTE)
  <2>1. op' = AddFrom("add", key, hop, fresh, {})
    BY <1>3 DEF rte_lpm6_add
  <2> HIDE DEF key, fresh
  <2>2. op' = [Idle EXCEPT !.pc = "add", !.call = "add", !.key = key, !.entry = entry,
                           !.fresh = fresh, !.i = first, !.todo = {}]
    BY <2>1 DEF AddFrom
  <2> HIDE DEF entry, first
  <2> QED BY <2>2 DEF Idle, Shaped, CallKept, first, FirstCell
<1>4. ASSUME NEW r \in Routes, rte_lpm6_delete(r)
      PROVE  Shaped' /\ CallKept'
  <2> DEFINE key == Masked(r)
             level == LevelOf(key.depth)
             table == Path(key.ip)[level]
             pc == IF table = TBL24_IND THEN "clear" ELSE "unref"
             less == rule_find_less_specific(key)
             first == get_bitshift(key.ip, level)
  <2>1. op' = [Idle EXCEPT !.pc = pc, !.call = "delete", !.key = key, !.cur = table,
                           !.level = level, !.i = first, !.entry = less]
    BY <1>4 DEF rte_lpm6_delete
  <2>2. pc \in {"clear", "unref"}
    OBVIOUS
  <2> HIDE DEF key, level, table, pc, less, first
  <2> QED BY <2>1, <2>2 DEF Idle, Shaped, CallKept, first, FirstCell
<1>5. ASSUME NEW keys \in SUBSET Keys, rte_lpm6_delete_bulk(keys)
      PROVE  Shaped' /\ CallKept'
  <2> DEFINE left == DOMAIN rules \ keys
  <2>1. CASE left = {}
    <3>1. rules' = NoRules
      <4>1. rules' = WithoutRules(rules, keys)
        BY <1>5 DEF rte_lpm6_delete_bulk
      <4> QED BY <2>1, <4>1 DEF WithoutRules, NoRules
    <3>2. op' = op /\ before' = NoRules
      BY <1>5, <2>1 DEF rte_lpm6_delete_bulk
    <3> QED BY <1>2, <3>1, <3>2
  <2>2. CASE left # {}
    <3>1. op' = [Idle EXCEPT !.pc = "rebuild", !.call = "bulk", !.todo = left]
      BY <1>5, <2>2 DEF rte_lpm6_delete_bulk, Rebuilding
    <3> HIDE DEF left
    <3>2. op' = [pc |-> "rebuild", call |-> "bulk", key |-> [ip |-> 0, depth |-> 1],
                 entry |-> Invalid, fresh |-> FALSE, cur |-> TBL24_IND,
                 level |-> ADD_FIRST_BYTE, i |-> 0, group |-> NO_TABLE, chain |-> <<>>,
                 todo |-> left]
      BY <3>1 DEF Idle
    <3>3. Shaped'
      BY <3>2 DEF Shaped
    <3> QED BY <3>2, <3>3 DEF CallKept
  <2> QED BY <2>1, <2>2
<1>6. ASSUME NEW r \in Routes,
             RejectDepth(r) \/ AddThrows(r) \/ AddNoSpace(r) \/ DeleteAbsent(r)
      PROVE  Shaped' /\ CallKept'
  BY <1>1, <1>2, <1>6 DEF RejectDepth, AddThrows, AddNoSpace, DeleteAbsent, Refuse
<1>7. ASSUME rte_lpm6_delete_all PROVE Shaped' /\ CallKept'
  BY <1>2, <1>7 DEF rte_lpm6_delete_all
<1> QED BY <1>3, <1>4, <1>5, <1>6, <1>7 DEF Call

\* Steps that bring an update to another table, or to its end.
LEMMA StepsKeepLocals ==
  ASSUME Inv6, \/ LinkGroup \/ Descend \/ Unref \/ Unlink
               \/ \E key \in Keys : rebuild_lpm(key)
  PROVE  Shaped' /\ CallKept'
<1>1. op \in Locals /\ CallKept
  BY DEF Inv6, Typed
<1>2. ASSUME NEW t, EnterTable(t), op.pc \in {"add", "link"}
      PROVE  Shaped' /\ CallKept'
  <2>1. op' = [op EXCEPT !.pc = "add", !.cur = t, !.level = @ + 1,
                         !.i = get_bitshift(op.key.ip, op.level + 1), !.group = NO_TABLE]
    BY <1>2 DEF EnterTable
  <2> DEFINE first == get_bitshift(op.key.ip, op.level + 1)
  <2>2. /\ op'.pc = "add" /\ op'.call = op.call /\ op'.key = op.key /\ op'.entry = op.entry
        /\ op'.fresh = op.fresh /\ op'.cur = t /\ op'.level = op.level + 1
        /\ op'.i = first /\ op'.group = NO_TABLE /\ op'.chain = op.chain
        /\ op'.todo = op.todo
        /\ op' = [pc |-> op'.pc, call |-> op'.call, key |-> op'.key, entry |-> op'.entry,
                  fresh |-> op'.fresh, cur |-> op'.cur, level |-> op'.level, i |-> op'.i,
                  group |-> op'.group, chain |-> op'.chain, todo |-> op'.todo]
    <3> HIDE DEF first
    <3> QED BY <1>1, <2>1 DEF Locals, first
  <2>3. op'.i = FirstCell'
    BY <2>2 DEF FirstCell
  <2>4. op.call \in {"add", "bulk"}
    BY <1>1, <1>2 DEF CallKept
  <2> HIDE DEF first
  <2>5. Shaped'
    BY <2>2, <2>3, <2>4 DEF Shaped
  <2> QED BY <1>1, <2>2, <2>4, <2>5 DEF CallKept
<1>3. CASE LinkGroup
  BY <1>2, <1>3 DEF LinkGroup
<1>4. CASE Descend
  BY <1>2, <1>4 DEF Descend
<1>5. CASE Unref
  <2> DEFINE count == (tbl8_hdrs[op.cur].ref_cnt - 1) % REF_MOD
             above == tbl8_hdrs[op.cur].owner_tbl_ind
             longer == <<op.cur>> \o op.chain
             pcUp == IF above = TBL24_IND THEN "unlink" ELSE "unref"
             pcDown == IF op.chain = <<>> THEN "clear" ELSE "unlink"
  <2>1. /\ op.pc = "unref" /\ before' = before /\ rules' = rules
        /\ \/ op' = [op EXCEPT !.pc = pcDown]
           \/ op' = [op EXCEPT !.chain = <<op.cur>> \o @, !.cur = above, !.pc = pcUp]
    BY <1>5 DEF Unref, Rest
  <2>2. /\ pcUp \in {"unlink", "unref"} /\ pcDown \in {"clear", "unlink"}
        /\ op.call = "delete" /\ op.i = FirstCell /\ op.todo = {}
    BY <1>1, <2>1 DEF CallKept
  <2> HIDE DEF count, above, pcUp, pcDown
  <2>3. /\ op'.pc \in {"unlink", "unref", "clear"} /\ op'.call = op.call /\ op'.key = op.key
        /\ op'.level = op.level /\ op'.i = op.i /\ op'.group = op.group
        /\ op'.todo = op.todo
        /\ op' = [pc |-> op'.pc, call |-> op'.call, key |-> op'.key, entry |-> op'.entry,
                  fresh |-> op'.fresh, cur |-> op'.cur, level |-> op'.level, i |-> op'.i,
                  group |-> op'.group, chain |-> op'.chain, todo |-> op'.todo]
    BY <1>1, <2>1, <2>2 DEF Locals
  <2>4. op'.i = FirstCell'
    BY <2>2, <2>3 DEF FirstCell
  <2>5. Shaped'
    BY <1>1, <2>2, <2>3, <2>4 DEF Shaped, Locals
  <2> QED BY <2>2, <2>3, <2>4, <2>5 DEF CallKept
<1>6. CASE Unlink
  <2>1. /\ op.pc = "unlink" /\ rules' = rules
        /\ \/ op' = Idle /\ before' = rules
           \/ op' = [op EXCEPT !.chain = Tail(@)]
    BY <1>6 DEF Unlink, Rest, Return
  <2>2. CASE op' = Idle /\ before' = rules
    BY <2>1, <2>2 DEF Idle, Shaped, CallKept
  <2>3. CASE op' = [op EXCEPT !.chain = Tail(@)]
    <3>1. /\ op'.pc = "unlink" /\ op'.call = op.call /\ op'.i = op.i
          /\ op'.group = op.group /\ op'.todo = op.todo
          /\ op' = [pc |-> op'.pc, call |-> op'.call, key |-> op'.key, entry |-> op'.entry,
                    fresh |-> op'.fresh, cur |-> op'.cur, level |-> op'.level, i |-> op'.i,
                    group |-> op'.group, chain |-> op'.chain, todo |-> op'.todo]
      BY <1>1, <2>1, <2>3 DEF Locals
    <3> QED BY <1>1, <2>1, <3>1 DEF Shaped, CallKept, Locals
  <2> QED BY <2>1, <2>2, <2>3
<1>7. ASSUME NEW key \in Keys, rebuild_lpm(key)
      PROVE  Shaped' /\ CallKept'
  <2> DEFINE entry == Leaf(rules[key], key.depth)
             first == get_bitshift(key.ip, ADD_FIRST_BYTE)
             todo == op.todo \ {key}
  <2>1. op' = [Idle EXCEPT !.pc = "add", !.call = "bulk", !.key = key, !.entry = entry,
                           !.fresh = FALSE, !.i = first, !.todo = todo]
    BY <1>7 DEF rebuild_lpm, AddFrom
  <2> HIDE DEF entry, first, todo
  <2> QED BY <2>1 DEF Idle, Shaped, CallKept, first, FirstCell
<1> QED BY <1>3, <1>4, <1>5, <1>6, <1>7

\* The cells of a rule, the last and those before it.
LEMMA CellsKeepLocals ==
  ASSUME Inv6, ExpandCell \/ ClearCell, M!EitherInv', M!ExpandInv'
  PROVE  Typed' /\ CallKept' /\ PlaceKept'
<1>1. op \in Locals /\ CallKept /\ Typed /\ PlaceKept
  BY DEF Inv6, Typed
<1>2. /\ op.pc \in {"add", "clear"} /\ tbl' = WriteCells({op.i}) /\ rules' = rules
      /\ op.pc = "add" => ~Deeper
      /\ \/ op.i < LastCell /\ op' = [op EXCEPT !.i = @ + 1] /\ tbl8_hdrs' = tbl8_hdrs
         \/ op' = Idle /\ before' = rules
         \/ op' = Rebuilding(op.todo) /\ op.pc = "add" /\ op.todo # {}
  BY DEF ExpandCell, ClearCell, Rest, Return
<1>3. CASE op' = Idle /\ before' = rules
  <2>1. Whole' /\ Shaped' /\ CallKept'
    BY <1>2, <1>3 DEF Idle, Shaped, CallKept, Whole, HalfWritten
  <2> QED BY <2>1, ShapedIsTypedNext
<1>4. CASE op' = Rebuilding(op.todo) /\ op.pc = "add" /\ op.todo # {}
  <2>1. op' = [Idle EXCEPT !.pc = "rebuild", !.call = "bulk", !.todo = op.todo]
    BY <1>4 DEF Rebuilding
  <2>2. op' = [pc |-> "rebuild", call |-> "bulk", key |-> [ip |-> 0, depth |-> 1],
               entry |-> Invalid, fresh |-> FALSE, cur |-> TBL24_IND,
               level |-> ADD_FIRST_BYTE, i |-> 0, group |-> NO_TABLE, chain |-> <<>>,
               todo |-> op.todo]
    BY <2>1 DEF Idle
  <2>3. Shaped' /\ Whole'
    BY <2>2 DEF Shaped, Whole, HalfWritten
  <2>4. CallKept'
    BY <2>2 DEF CallKept
  <2> QED BY <2>3, <2>4, ShapedIsTypedNext
<1>5. CASE op.i < LastCell /\ op' = [op EXCEPT !.i = @ + 1] /\ tbl8_hdrs' = tbl8_hdrs
  <2>1. ~Deeper
    <3>1. CASE op.pc = "clear"
      <4>1. op.level = LevelOf(op.key.depth) /\ op.key.depth \in Depth
        BY <1>1, <3>1 DEF PlaceKept, Locals, Prefix
      <4>2. /\ M!LevelOf(op.key.depth) \in M!Levels
            /\ op.key.depth <= M!BitsCovered(M!LevelOf(op.key.depth))
        BY <4>1, M!LevelOfIs, Parameters, SameConstants
      <4>3. BitsCovered(op.level) \in Int /\ op.key.depth \in Int
        <5>1. op.level \in M!Levels
          BY <4>1, <4>2, SameConstants
        <5>2. M!BitsCovered(op.level) \in 0..M!MAX_DEPTH
          BY <5>1, M!BitsCoveredRange, Parameters
        <5> QED BY <4>1, <5>2, SameConstants DEF Depth
      <4> QED BY <4>1, <4>2, <4>3, SameConstants DEF Deeper
    <3> QED BY <1>2, <3>1
  <2>2. /\ Writing /\ op.i \in FirstCell..LastCell /\ tbl' = WriteIn(tbl, {op.i})
        /\ op.i..LastCell \subseteq Slots(op.cur)
    BY <1>1, <1>2, <2>1, CellWritten
  <2>3. /\ FirstCell \in Int /\ LastCell \in Int /\ op.i \in Slots(op.cur) /\ op.i \in Int
    BY <1>1, <1>2, <2>1, PlaceFacts
  <2>4. TablesOK(tbl')
    BY <1>1, <2>2, <2>3, WriteKeepsLinks DEF Typed
  <2>5. /\ op'.pc = op.pc /\ op'.call = op.call /\ op'.key = op.key /\ op'.entry = op.entry
        /\ op'.fresh = op.fresh /\ op'.cur = op.cur /\ op'.level = op.level
        /\ op'.i = op.i + 1 /\ op'.group = op.group /\ op'.chain = op.chain
        /\ op'.todo = op.todo
        /\ op' = [pc |-> op'.pc, call |-> op'.call, key |-> op'.key, entry |-> op'.entry,
                  fresh |-> op'.fresh, cur |-> op'.cur, level |-> op'.level, i |-> op'.i,
                  group |-> op'.group, chain |-> op'.chain, todo |-> op'.todo]
    BY <1>1, <1>5 DEF Locals
  <2>6. op' \in Locals
    <3>1. op.i + 1 \in Int
      BY <2>3
    <3> QED BY <1>1, <2>5, <3>1 DEF Locals
  <2>7. Typed'
    BY <1>1, <1>5, <2>4, <2>6 DEF Typed
  <2>8. CallKept'
    BY <1>1, <1>2, <2>5 DEF CallKept
  <2>9. FirstCell' = FirstCell /\ LastCell' = LastCell /\ Deeper' = Deeper
    BY <2>5 DEF FirstCell, LastCell, Deeper
  <2>10. op'.i \in FirstCell'..LastCell'
    BY <1>5, <2>2, <2>3, <2>5, <2>9
  <2>11. PlaceKept'
    BY <1>1, <1>2, <2>1, <2>5, <2>9, <2>10 DEF PlaceKept
  <2> QED BY <2>7, <2>8, <2>11
<1> QED BY <1>2, <1>3, <1>4, <1>5

\* The group that is filled is none that a link leads to, nor the one that
\* will link it.
LEMMA GroupTaken ==
  ASSUME Inv6, FillGroup
  PROVE  LET g == tbl8_pool[tbl8_pool_pos]
         IN  /\ g \in Groups /\ g \notin M!Live /\ g # op.cur /\ op.cur \in M!Live
<1>1. M!AddStepNewTable
  BY FillGroupImplements
<1>2. M!GroupsFit /\ M!LinksInv
  BY Constants6, InheritedInvariants DEF Inv6, M!GroupsFit
<1>3. DoneOp.cur = op.cur
  BY DeeperIsWhole DEF FillGroup, AsCall
<1> QED BY <1>1, <1>2, <1>3, M!NewTableEffect, Parameters, SameConstants DEF M!tbl8_get

LEMMA FillKeepsLocals ==
  ASSUME Inv6, FillGroup
  PROVE  Typed' /\ CallKept' /\ PlaceKept'
<1> DEFINE g == tbl8_pool[tbl8_pool_pos]
           header == [owner_tbl_ind |-> op.cur, owner_entry_ind |-> op.i, ref_cnt |-> 0]
           pushed == PushedDown(CellEntry)
<1>1. op \in Locals /\ CallKept /\ Typed /\ PlaceKept /\ op.pc = "add" /\ Deeper
  BY DEF Inv6, Typed, FillGroup
<1>2. /\ tbl' = [tbl EXCEPT ![g] = [j \in Slots(g) |-> pushed]] /\ ~IsLink(CellEntry)
      /\ tbl8_hdrs' = [tbl8_hdrs EXCEPT ![g] = header]
      /\ op' = [op EXCEPT !.pc = "link", !.group = g]
  BY DEF FillGroup
<1>3. g \in Groups /\ g # op.cur
  BY GroupTaken
<1>4. /\ op.cur \in Tables /\ op.i \in Slots(op.cur) /\ CellEntry \in Entry
      /\ op.i = FirstCell
  BY <1>1, PlaceFacts DEF PlaceKept
<1>5. op.i \in Nat /\ header \in Header
  BY <1>4, Constants6 DEF Slots, Header
<1>6. pushed \in Entry
  BY <1>4, M!InvalidType, Parameters, SameConstants DEF PushedDown
<1> HIDE DEF g, header, pushed
<1>7. TablesOK(tbl') /\ tbl'[op.cur] = tbl[op.cur]
  BY <1>1, <1>2, <1>3, <1>4, <1>6 DEF Typed, TablesOK
<1>8. tbl8_hdrs' \in [Groups -> Header]
  BY <1>1, <1>2, <1>3, <1>5 DEF Typed
<1>9. /\ op'.pc = "link" /\ op'.call = op.call /\ op'.key = op.key /\ op'.entry = op.entry
      /\ op'.fresh = op.fresh /\ op'.cur = op.cur /\ op'.level = op.level
      /\ op'.i = op.i /\ op'.group = g /\ op'.chain = op.chain /\ op'.todo = op.todo
      /\ op' = [pc |-> op'.pc, call |-> op'.call, key |-> op'.key, entry |-> op'.entry,
                fresh |-> op'.fresh, cur |-> op'.cur, level |-> op'.level, i |-> op'.i,
                group |-> op'.group, chain |-> op'.chain, todo |-> op'.todo]
  BY <1>1, <1>2 DEF Locals
<1>10. op' \in Locals
  BY <1>1, <1>3, <1>9 DEF Locals
<1>11. Typed'
  BY <1>7, <1>8, <1>10 DEF Typed
<1>12. CallKept'
  BY <1>1, <1>9 DEF CallKept
<1>13. FirstCell' = FirstCell /\ Deeper' = Deeper /\ CellEntry' = CellEntry
  BY <1>7, <1>9 DEF FirstCell, Deeper, CellEntry
<1>14. PlaceKept'
  BY <1>1, <1>2, <1>3, <1>4, <1>9, <1>13 DEF PlaceKept
<1> QED BY <1>11, <1>12, <1>14

-----------------------------------------------------------------------------
(* Counters and hops that fit their fields *)

CountsFit == MAX_RULES + 2 ^ BYTE_SIZE < REF_MOD
HopsFit   == NextHops \subseteq 0..(2 ^ NEXT_HOP_BITS - 1)

LEMMA Fitting == /\ M!GroupsFit
                 /\ CountsFit => M!CountsFit
                 /\ HopsFit => M!HopsFit
BY Constants6 DEF M!GroupsFit, M!CountsFit, M!HopsFit, CountsFit, HopsFit

LEMMA CreateEstablishesInv6 ==
  ASSUME CountsFit, rte_lpm6_create
  PROVE  Inv6
<1>1. M!Create /\ Deletion \in {"single", "bulk"} /\ Whole
  BY CreateImplements
<1>2. M!EitherInv
  BY <1>1, Fitting, M!EitherInvIsKept, Parameters
<1>3. M!ExpandInv
  BY <1>1, M!CreateExpands, Parameters
<1>4. M!LinksOwned
  BY <1>1, Fitting, M!EitherOwnsLinks, Parameters
<1>5. Shaped /\ CallKept
  BY DEF rte_lpm6_create, Idle, Shaped, CallKept
<1> QED BY <1>1, <1>2, <1>3, <1>4, <1>5, ShapedIsTyped DEF Inv6

LEMMA StepKeepsInv6 ==
  ASSUME CountsFit, Inv6, [Next]_vars
  PROVE  Inv6'
<1>1. [M!EitherNext]_<<M!vars, Deletion>>
  BY StepImplements
<1>2. M!EitherInv'
  BY <1>1, Fitting, M!EitherInvIsKept, Parameters DEF Inv6
<1>3. M!ExpandInv'
  BY <1>1, Fitting, M!EitherKeepsExpanded, Parameters DEF Inv6
<1>4. M!LinksOwned'
  BY <1>1, Fitting, M!EitherOwnsLinks, Parameters DEF Inv6
<1>5. Typed' /\ CallKept' /\ PlaceKept'
  <2>1. CASE Call
    <3>1. Whole'
      BY <2>1, AddImplements, RefusedCallsImplement, DeleteImplements, DeleteAllImplements,
         DeleteBulkImplements DEF Call
    <3> QED BY <1>2, <1>3, <2>1, <3>1, CallsKeepLocals, ShapedIsTypedNext
  <2>2. CASE \/ LinkGroup \/ Descend \/ Unref \/ Unlink
             \/ \E key \in Keys : rebuild_lpm(key)
    <3>1. Whole'
      BY <2>2, LinkGroupStutters, DescendImplements, UnrefImplements, UnlinkImplements,
         RebuildImplements
    <3> QED BY <1>2, <1>3, <2>2, <3>1, StepsKeepLocals, ShapedIsTypedNext
  <2>3. CASE ExpandCell \/ ClearCell
    BY <1>2, <1>3, <2>3, CellsKeepLocals
  <2>4. CASE FillGroup
    BY <2>4, FillKeepsLocals
  <2>5. CASE Lookups \/ UNCHANGED vars
    <3>1. UNCHANGED <<rules, tbl, tbl8_hdrs, op, before>>
      BY <2>5, LookupsStutter
    <3> QED BY <3>1 DEF Inv6, Typed, CallKept, PlaceKept, Deeper, FirstCell, LastCell,
               CellEntry
  <2> QED BY <2>1, <2>2, <2>3, <2>4, <2>5 DEF Next, Step
<1> QED BY <1>2, <1>3, <1>4, <1>5 DEF Inv6

-----------------------------------------------------------------------------
(* What the tables answer beside an insertion *)

\* Every way ends at a leaf, with the next hop that the rules before the
\* insertion give the address or the one its own do; until its first cell is
\* written, and once the group it has filled is linked, the former.
Answers(ip) ==
  /\ ~IsLink(M!EndIn(tbl, ip))
  /\ M!HopIn(tbl, ip) \in {LongestMatch(before, ip), LongestMatch(rules, ip)}
  /\ ~HalfWritten => /\ M!HopIn(tbl, ip) = LongestMatch(before, ip)
                     /\ M!HopIn(DoneTbl, ip) = LongestMatch(before, ip)

Answering == op.call \in {"none", "add"} => \A ip \in Address : Answers(ip)

\* The ways of the tables that are implemented end at leaves.
LEMMA DoneEndsAtLeaves ==
  ASSUME M!EitherInv, M!ExpandInv, DoneOp.pc \in {"idle", "add", "rebuild"}, NEW ip \in Address
  PROVE  ~IsLink(M!EndIn(DoneTbl, ip))
<1> DEFINE e == M!EndIn(DoneTbl, ip)
<1>1. DoneOp.key.depth \in M!Depth
  BY InheritedTypes, SameConstants DEF Prefix
<1>2. M!Expands(e, rules, M!Inserted, ip) => ~M!IsLink(e)
  <2> HIDE DEF e
  <2> QED BY <1>1, M!ExpandedEntry, Parameters
<1>3. M!Yields(e, DoneOp.key.depth) => ~IsLink(e)
  BY SameOperators DEF Yields, IsLink
<1>4. CASE DoneOp.pc = "add"
  <2>1. M!Yields(e, DoneOp.key.depth) \/ M!Exact(ip)
    BY <1>4, SameConstants DEF M!ExpandInv, M!Adding
  <2> QED BY <1>2, <1>3, <2>1, SameOperators DEF M!Exact
<1>5. CASE DoneOp.pc \in {"idle", "rebuild"}
  <2>1. M!Exact(ip)
    BY <1>5, SameConstants DEF M!ExpandInv, M!Rested
  <2> QED BY <1>2, <2>1, SameOperators DEF M!Exact
<1> QED BY <1>4, <1>5

DoneIsExact ==
  HopsFit /\ DoneOp.pc = "idle" =>
    \A ip \in Address : M!HopIn(DoneTbl, ip) = LongestMatch(rules, ip)

LEMMA DoneAnswers == M!EitherInv /\ M!ExpandInv => DoneIsExact
<1> SUFFICES ASSUME HopsFit, M!EitherInv, M!ExpandInv, DoneOp.pc = "idle", NEW ip \in Address
             PROVE  M!HopIn(DoneTbl, ip) = LongestMatch(rules, ip)
  BY DEF DoneIsExact
<1>1. M!HopsFit /\ M!IndInv /\ ip \in M!Address
  BY Fitting, InheritedInvariants, SameConstants
<1> QED BY <1>1, M!ExpandedAnswers, Parameters, SameOperators

LEMMA DoneAnswersNext ==
  ASSUME M!EitherInv', M!ExpandInv'
  PROVE  DoneIsExact'
BY DoneAnswers, PTL

LEMMA IdleAnswers == HopsFit /\ Inv6 /\ op.pc = "idle" => Answering
<1> SUFFICES ASSUME HopsFit, Inv6, op.pc = "idle", NEW ip \in Address PROVE Answers(ip)
  BY DEF Answering
<1>1. Whole /\ before = rules
  BY DEF Whole, HalfWritten, Inv6, CallKept
<1>2. DoneTbl = tbl /\ DoneOp.pc = "idle"
  BY <1>1, WhenWhole DEF AsCall
<1>3. ~IsLink(M!EndIn(tbl, ip))
  BY <1>2, DoneEndsAtLeaves DEF Inv6
<1>4. M!HopIn(tbl, ip) = LongestMatch(rules, ip)
  BY <1>2, DoneAnswers DEF Inv6, DoneIsExact
<1> QED BY <1>1, <1>2, <1>3, <1>4 DEF Answers

\* A cell gives some addresses the answer of the rule that is inserted, and
\* leaves the others with the one they had.
LEMMA CellAnswers ==
  ASSUME Inv6, M!EitherInv', M!ExpandInv', HopsFit, Answering, ExpandCell, op.call = "add",
         op'.pc # "idle", NEW ip \in Address
  PROVE  Answers(ip)'
<1>1. /\ op.pc = "add" /\ ~Deeper /\ tbl' = WriteCells({op.i}) /\ op.todo = {}
      /\ op.i < LastCell /\ op' = [op EXCEPT !.i = @ + 1]
      /\ UNCHANGED <<rules, before>>
  BY DEF ExpandCell, Rest, Inv6, CallKept, Return, Idle
<1>2. /\ Writing /\ op.i \in FirstCell..LastCell /\ tbl' = WriteIn(tbl, {op.i})
      /\ op.i..LastCell \subseteq Slots(op.cur)
      /\ HalfWritten' /\ DoneTbl' = WriteIn(tbl, op.i..LastCell)
  BY <1>1, CellWritten DEF Inv6
<1>3. FirstCell \in Int /\ LastCell \in Int /\ op.i \in Int /\ op.i \in Slots(op.cur)
  BY <1>1, PlaceFacts DEF Inv6
<1> DEFINE rest == (op.i + 1)..LastCell
           T == tbl
           U == WriteIn(tbl, {op.i})
           V == WriteIn(U, rest)
<1>4. {op.i} \subseteq Slots(op.cur) /\ rest \subseteq Slots(op.cur)
      /\ {op.i} \cup rest = op.i..LastCell
  BY <1>1, <1>2, <1>3
<1>5. TablesOK(T)
  BY DEF Inv6, Typed
<1>6. DoneTbl' = V
  <2>1. {op.i} \in SUBSET Slots(op.cur) /\ rest \in SUBSET Slots(op.cur)
    BY <1>4
  <2> HIDE DEF rest
  <2>2. WriteIn(WriteIn(tbl, {op.i}), rest) = WriteIn(tbl, {op.i} \cup rest)
    BY <1>2, <1>5, <2>1, WriteTwice
  <2> QED BY <1>2, <1>4, <2>2
<1>7. /\ TablesOK(U) /\ SameLinks(T, U)
      /\ \A t \in Tables : \A j \in Slots(t) : U[t][j] \in {T[t][j], op.entry}
  BY <1>2, <1>4, <1>5, WriteKeepsLinks
<1> HIDE DEF rest, U
<1>8. /\ TablesOK(V) /\ SameLinks(U, V)
      /\ \A t \in Tables : \A j \in Slots(t) : V[t][j] \in {U[t][j], op.entry}
  BY <1>2, <1>4, <1>7, WriteKeepsLinks
<1> HIDE DEF T, V
<1>9. PICK n \in M!Levels :
        /\ M!EndsAt(T, ip, n) /\ M!WalkIn(T, ip)[n] \in M!Tables
        /\ M!get_bitshift(ip, n) \in M!Slots(M!WalkIn(T, ip)[n])
        /\ M!EndIn(T, ip) = T[M!WalkIn(T, ip)[n]][M!get_bitshift(ip, n)]
  <2>1. M!TablesOK(T) /\ ip \in M!Address
    BY <1>5, SameTablesOK, SameConstants
  <2> QED BY <2>1, M!EndExists, Parameters
<1> DEFINE t == M!WalkIn(T, ip)[n]
           j == M!get_bitshift(ip, n)
<1>10. t \in Tables /\ j \in Slots(t)
  BY <1>9, SameConstants
<1>11. M!EndIn(T, ip) = T[t][j]
  BY <1>9
<1> DEFINE KeepLinks(X, Y) ==
             \A u \in M!Tables : \A i \in M!Slots(u) :
               M!IsLink(Y[u][i]) \/ M!IsLink(X[u][i]) => Y[u][i] = X[u][i]
<1>12. KeepLinks(T, U) /\ KeepLinks(T, V)
  <2>1. SameLinks(T, V)
    BY <1>7, <1>8 DEF SameLinks
  <2> QED BY <1>7, <2>1, SameConstants, SameOperators DEF SameLinks
<1>13. M!EndIn(U, ip) = U[t][j] /\ M!EndIn(V, ip) = V[t][j]
  <2>1. M!TablesOK(T) /\ M!TablesOK(U) /\ M!TablesOK(V) /\ ip \in M!Address
    BY <1>5, <1>7, <1>8, SameTablesOK, SameConstants
  <2>2. M!EndIn(U, ip) = U[M!WalkIn(T, ip)[n]][M!get_bitshift(ip, n)]
    BY <1>9, <1>12, <2>1, M!EndWithSameLinks, Parameters
  <2>3. M!EndIn(V, ip) = V[M!WalkIn(T, ip)[n]][M!get_bitshift(ip, n)]
    BY <1>9, <1>12, <2>1, M!EndWithSameLinks, Parameters
  <2> QED BY <2>2, <2>3
<1> HIDE DEF t, j
<1>14. U[t][j] = T[t][j] \/ (U[t][j] = op.entry /\ V[t][j] = op.entry)
  BY <1>7, <1>8, <1>10
<1>15. ~IsLink(U[t][j])
  <2>1. ~IsLink(T[t][j])
    BY <1>11 DEF Answering, Answers, T
  <2>2. ~IsLink(op.entry)
    BY <1>2 DEF Writing, IsLink
  <2> QED BY <1>14, <2>1, <2>2
<1>16. M!HopIn(T, ip) \in {LongestMatch(before, ip), LongestMatch(rules, ip)}
  BY DEF Answering, Answers, T
<1>17. M!HopIn(V, ip) = LongestMatch(rules, ip)
  <2>1. DoneOp'.pc = "idle"
    <3>1. op'.todo = {} /\ op'.pc = "add"
      BY <1>1 DEF Inv6, Typed, Locals
    <3> QED BY <1>2, <3>1 DEF DoneOp, AsCall, Idle
  <2> QED BY <1>1, <1>6, <2>1, DoneAnswersNext DEF DoneIsExact
<1>18. M!HopIn(U, ip) \in {LongestMatch(before, ip), LongestMatch(rules, ip)}
  <2>1. \A X : M!HopIn(X, ip) = M!HopOf(M!EndIn(X, ip))
    BY M!HopOfEnd, Parameters
  <2> QED BY <1>11, <1>13, <1>14, <1>16, <1>17, <2>1
<1>19. /\ ~IsLink(M!EndIn(tbl', ip))
       /\ M!HopIn(tbl', ip) \in {LongestMatch(before', ip), LongestMatch(rules', ip)}
  BY <1>1, <1>2, <1>13, <1>15, <1>18 DEF U
<1> QED BY <1>2, <1>19 DEF Answers

IdleIsAnswered == HopsFit /\ op.pc = "idle" => Answering

LEMMA IdleIsAnsweredThen == Inv6 => IdleIsAnswered
BY IdleAnswers DEF IdleIsAnswered

LEMMA IdleAnswersNext ==
  ASSUME Inv6'
  PROVE  IdleIsAnswered'
BY IdleIsAnsweredThen, PTL

\* An insertion that begins has changed no table.
LEMMA AddKeepsAnswers ==
  ASSUME Inv6, Answering, NEW r \in Routes, NEW hop \in NextHops, rte_lpm6_add(r, hop)
  PROVE  Answering'
<1> SUFFICES ASSUME NEW ip \in Address PROVE Answers(ip)'
  BY DEF Answering
<1>1. op.pc = "idle" /\ op = Idle /\ tbl' = tbl /\ before' = before
  BY DEF rte_lpm6_add, tables, Inv6, CallKept
<1>2. Whole /\ Whole'
  BY <1>1, AddImplements DEF Whole, HalfWritten
<1>3. Answers(ip)
  BY <1>1 DEF Answering, Idle
<1>4. DoneTbl' = tbl' /\ ~HalfWritten /\ ~HalfWritten'
  BY <1>2, WhenWholeNext DEF Whole
<1>5. M!HopIn(tbl, ip) = LongestMatch(before, ip) /\ ~IsLink(M!EndIn(tbl, ip))
  BY <1>3, <1>4 DEF Answers
<1>6. /\ ~IsLink(M!EndIn(tbl', ip))
      /\ M!HopIn(tbl', ip) = LongestMatch(before', ip)
      /\ M!HopIn(DoneTbl', ip) = LongestMatch(before', ip)
  BY <1>1, <1>4, <1>5
<1> QED BY <1>6 DEF Answers

\* The group that is filled is on no way, and holds the leaf it is to replace.
LEMMA FillKeepsWays ==
  ASSUME Inv6, FillGroup, NEW ip \in Address, NEW n \in Levels,
         M!WalkIn(tbl, ip)[n] # NO_TABLE
  PROVE  /\ M!WalkIn(tbl, ip)[n] \in Tables
         /\ tbl'[M!WalkIn(tbl, ip)[n]] = tbl[M!WalkIn(tbl, ip)[n]]
<1>1. DoneTbl = tbl
  BY DeeperIsWhole DEF FillGroup
<1>2. M!IndInv /\ M!LinksKept /\ TablesOK(tbl)
  BY InheritedInvariants DEF Inv6, Typed
<1>3. ip \in M!Address /\ n \in M!Levels
  BY SameConstants
<1>4. M!Walk(ip)[n] \in M!Live \cup {M!NO_TABLE}
  BY <1>2, <1>3, M!WalkIsLive, Parameters
<1>5. M!WalkIn(tbl, ip)[n] \in M!Live
  BY <1>1, <1>4, SameConstants DEF M!Walk
<1>6. M!WalkIn(tbl, ip)[n] \in Tables
  <2>1. M!TablesOK(tbl)
    BY <1>2, SameTablesOK
  <2>2. M!WalkIn(tbl, ip)[n] \in M!Tables \cup {M!NO_TABLE}
    BY <1>3, <2>1, M!WalkInUnfolds, Parameters
  <2> QED BY <2>2, SameConstants
<1> DEFINE g == tbl8_pool[tbl8_pool_pos]
<1>7. tbl' = [tbl EXCEPT ![g] = [j \in Slots(g) |-> PushedDown(CellEntry)]]
  BY DEF FillGroup
<1>8. g \notin M!Live
  BY GroupTaken
<1> HIDE DEF g
<1> QED BY <1>2, <1>5, <1>6, <1>7, <1>8 DEF TablesOK

LEMMA FillKeepsAnswers ==
  ASSUME Inv6, Inv6', Answering, FillGroup
  PROVE  Answering'
<1>1. /\ op.pc = "add" /\ Deeper /\ UNCHANGED <<rules, before>>
      /\ op' = [op EXCEPT !.pc = "link", !.group = tbl8_pool[tbl8_pool_pos]]
  BY DEF FillGroup, Rest
<1>2. op'.pc = "link" /\ op'.call = op.call
  BY <1>1 DEF Inv6, Typed, Locals
<1>3. DoneTbl = tbl /\ ~HalfWritten /\ ~HalfWritten'
  BY <1>1, <1>2, DeeperIsWhole DEF HalfWritten, Whole
<1> SUFFICES ASSUME NEW ip \in Address, Answers(ip) PROVE Answers(ip)'
  BY <1>2 DEF Answering
<1>4. M!TablesOK(tbl) /\ M!TablesOK(tbl') /\ ip \in M!Address
  BY SameTablesOK, SameConstants DEF Inv6, Typed
<1>5. PICK n \in M!Levels :
        /\ M!EndsAt(tbl, ip, n)
        /\ M!EndIn(tbl, ip) = tbl[M!WalkIn(tbl, ip)[n]][M!get_bitshift(ip, n)]
  BY <1>4, M!EndExists, Parameters
<1>6. M!WalkIn(tbl, ip)[n] # M!NO_TABLE
  BY <1>5 DEF M!EndsAt
<1>7. \A m \in M!Levels : M!WalkIn(tbl, ip)[m] # M!NO_TABLE =>
        tbl'[M!WalkIn(tbl, ip)[m]] = tbl[M!WalkIn(tbl, ip)[m]]
  BY FillKeepsWays, SameConstants
<1>8. \A m \in M!Levels : m < n => M!WalkIn(tbl, ip)[m] # M!NO_TABLE
  BY <1>4, <1>6, M!WalkStops, Parameters, SameConstants DEF Levels
<1>9. ~M!IsLink(tbl'[M!WalkIn(tbl, ip)[n]][M!get_bitshift(ip, n)])
  BY <1>5, <1>6, <1>7, SameOperators DEF Answers
<1>10. M!EndIn(tbl', ip) = tbl'[M!WalkIn(tbl, ip)[n]][M!get_bitshift(ip, n)]
  BY <1>4, <1>6, <1>7, <1>8, <1>9, M!EndStays, Parameters
<1>11. M!EndIn(tbl', ip) = M!EndIn(tbl, ip)
  BY <1>5, <1>6, <1>7, <1>10
<1>12. \/ M!EndIn(DoneTbl', ip) = PushedDown(M!EndIn(tbl, ip))
       \/ M!EndIn(DoneTbl', ip) = M!EndIn(tbl, ip)
  <2>1. M!AddStepNewTable /\ M!LinksInv /\ M!AddOnWalk /\ M!GroupsFit
    BY FillGroupImplements, InheritedInvariants, Fitting DEF Inv6
  <2>2. M!IndInv'
    BY DEF Inv6, M!EitherInv, M!SingleInv, M!BulkInv, M!AdmitInv, M!LinksInv
  <2>3. \/ M!EndIn(DoneTbl', ip) = M!PushedDown(M!EndIn(DoneTbl, ip))
        \/ M!EndIn(DoneTbl', ip) = M!EndIn(DoneTbl, ip)
    BY <1>4, <2>1, <2>2, M!NewTableEnds, Parameters
  <2> QED BY <1>3, <2>3, SameOperators
<1>13. \A X : M!HopIn(X, ip) = HopOf(M!EndIn(X, ip))
  BY M!HopOfEnd, Parameters, SameOperators
<1>14. \A e : HopOf(PushedDown(e)) = HopOf(e)
  BY DEF HopOf, PushedDown, Invalid
<1>15. M!HopIn(tbl', ip) = M!HopIn(tbl, ip) /\ M!HopIn(DoneTbl', ip) = M!HopIn(tbl, ip)
  BY <1>11, <1>12, <1>13, <1>14
<1>16. M!HopIn(tbl, ip) = LongestMatch(before, ip) /\ ~IsLink(M!EndIn(tbl, ip))
  BY <1>3 DEF Answers
<1>17. /\ ~IsLink(M!EndIn(tbl', ip))
       /\ M!HopIn(tbl', ip) = LongestMatch(before', ip)
       /\ M!HopIn(DoneTbl', ip) = LongestMatch(before', ip)
  BY <1>1, <1>11, <1>15, <1>16
<1> QED BY <1>17 DEF Answers

\* The link changes no answer: it is the state that was implemented before.
LEMMA LinkKeepsAnswers ==
  ASSUME Inv6, Answering, LinkGroup
  PROVE  Answering'
<1>1. op.pc = "link" /\ tbl' = DoneTbl /\ UNCHANGED <<rules, before>>
  BY DEF LinkGroup, Rest, DoneTbl
<1>2. Whole' /\ ~HalfWritten
  BY <1>1, LinkGroupStutters DEF HalfWritten
<1>3. op'.call = op.call /\ ~HalfWritten' /\ DoneTbl' = tbl'
  BY <1>2, WhenWholeNext DEF LinkGroup, EnterTable, Whole, Inv6, Typed, Locals
<1> SUFFICES ASSUME NEW ip \in Address, Answers(ip) PROVE Answers(ip)'
  BY <1>3 DEF Answering
<1>4. DoneOp.pc = "add"
  BY <1>1 DEF DoneOp, AsCall, Inv6, Typed, Locals
<1>5. ~IsLink(M!EndIn(DoneTbl, ip))
  BY <1>4, DoneEndsAtLeaves DEF Inv6
<1>6. M!HopIn(DoneTbl, ip) = LongestMatch(before, ip)
  BY <1>2 DEF Answers
<1>7. /\ ~IsLink(M!EndIn(tbl', ip))
      /\ M!HopIn(tbl', ip) = LongestMatch(before', ip)
      /\ M!HopIn(DoneTbl', ip) = LongestMatch(before', ip)
  BY <1>1, <1>3, <1>5, <1>6
<1> QED BY <1>7 DEF Answers

LEMMA DescendKeepsAnswers ==
  ASSUME Inv6, Answering, Descend
  PROVE  Answering'
<1>1. /\ op.pc = "add" /\ Deeper /\ UNCHANGED <<rules, tbl, before>> /\ op'.call = op.call
  BY DEF Descend, EnterTable, Rest, tables, Inv6, Typed, Locals
<1>2. Whole' /\ ~HalfWritten /\ DoneTbl = tbl
  BY <1>1, DescendImplements, DeeperIsWhole DEF Whole
<1>3. ~HalfWritten' /\ DoneTbl' = tbl'
  BY <1>2, WhenWholeNext DEF Whole
<1> SUFFICES ASSUME NEW ip \in Address, Answers(ip) PROVE Answers(ip)'
  BY <1>1 DEF Answering
<1>4. ~IsLink(M!EndIn(tbl, ip)) /\ M!HopIn(tbl, ip) = LongestMatch(before, ip)
  BY <1>2 DEF Answers
<1>5. /\ ~IsLink(M!EndIn(tbl', ip))
      /\ M!HopIn(tbl', ip) = LongestMatch(before', ip)
      /\ M!HopIn(DoneTbl', ip) = LongestMatch(before', ip)
  BY <1>1, <1>3, <1>4
<1> QED BY <1>5 DEF Answers

\* Every other step ends an insertion or belongs to no insertion.
LEMMA OtherCallsEnd ==
  ASSUME Inv6,
         \/ \E r \in Routes : \/ RejectDepth(r) \/ AddThrows(r) \/ AddNoSpace(r)
                              \/ DeleteAbsent(r) \/ rte_lpm6_delete(r)
         \/ rte_lpm6_delete_all
         \/ \E keys \in SUBSET Keys : rte_lpm6_delete_bulk(keys)
         \/ Unref \/ Unlink \/ ClearCell
         \/ \E key \in Keys : rebuild_lpm(key)
  PROVE  op'.pc = "idle" \/ op'.call \notin {"none", "add"}
<1>1. ASSUME NEW r \in Routes,
             \/ RejectDepth(r) \/ AddThrows(r) \/ AddNoSpace(r) \/ DeleteAbsent(r)
      PROVE  op'.pc = "idle"
  BY <1>1 DEF RejectDepth, AddThrows, AddNoSpace, DeleteAbsent, CanDelete, Refuse
<1>2. ASSUME NEW r \in Routes, rte_lpm6_delete(r) PROVE op'.call = "delete"
  <2>1. \E a, b, c, d, e, f : op' = [Idle EXCEPT !.pc = a, !.call = "delete", !.key = b,
                                       !.cur = c, !.level = d, !.i = e, !.entry = f]
    BY <1>2 DEF rte_lpm6_delete
  <2> QED BY <2>1 DEF Idle
<1>3. rte_lpm6_delete_all => op'.pc = "idle"
  BY DEF rte_lpm6_delete_all, CanDelete
<1>4. ASSUME NEW keys \in SUBSET Keys, rte_lpm6_delete_bulk(keys)
      PROVE  op'.pc = "idle" \/ op'.call = "bulk"
  BY <1>4 DEF rte_lpm6_delete_bulk, CanDelete, Rebuilding, Idle
<1>5. Unref \/ Unlink \/ ClearCell => op'.pc = "idle" \/ op'.call = "delete"
  <2>1. op \in Locals /\ CallKept /\ Idle.pc = "idle"
    BY DEF Inv6, Typed, Idle
  <2>2. Unref => op.pc = "unref" /\ op'.call = op.call
    BY <2>1 DEF Unref, Locals
  <2>3. Unlink => op.pc = "unlink" /\ (op' = Idle \/ op'.call = op.call)
    BY <2>1 DEF Unlink, Return, Locals
  <2>4. ClearCell => op.pc = "clear" /\ (op' = Idle \/ op'.call = op.call)
    BY <2>1 DEF ClearCell, Return, Locals
  <2> QED BY <2>1, <2>2, <2>3, <2>4 DEF CallKept
<1>6. ASSUME NEW key \in Keys, rebuild_lpm(key) PROVE op'.call = "bulk"
  BY <1>6 DEF rebuild_lpm, AddFrom, Idle
<1> QED BY <1>1, <1>2, <1>3, <1>4, <1>5, <1>6

LEMMA StepKeepsAnswers ==
  ASSUME HopsFit, Inv6, Inv6', Answering, [Next]_vars
  PROVE  Answering'
<1>1. CASE op'.pc = "idle"
  BY <1>1, IdleAnswersNext DEF IdleIsAnswered
<1>2. CASE op'.call \notin {"none", "add"}
  BY <1>2 DEF Answering
<1>3. ASSUME NEW r \in Routes, NEW hop \in NextHops, rte_lpm6_add(r, hop)
      PROVE  Answering'
  BY <1>3, AddKeepsAnswers
<1>4. CASE FillGroup \/ LinkGroup \/ Descend
  BY <1>4, FillKeepsAnswers, LinkKeepsAnswers, DescendKeepsAnswers
<1>5. CASE ExpandCell
  <2>1. CASE op.call = "add" /\ op'.pc # "idle"
    <3>1. op'.call = "add"
      BY <1>5, <2>1 DEF ExpandCell, Return, Idle, Inv6, Typed, Locals, CallKept
    <3>2. ASSUME NEW ip \in Address PROVE Answers(ip)'
      BY <1>5, <2>1, CellAnswers DEF Inv6
    <3> QED BY <3>2 DEF Answering
  <2>2. CASE op.call # "add"
    <3>1. op.call = "bulk"
      BY <1>5, <2>2 DEF ExpandCell, Inv6, CallKept
    <3>2. op'.pc = "idle" \/ op'.call = "bulk"
      <4>1. Idle.pc = "idle" /\ \A todo : Rebuilding(todo).call = "bulk"
        BY DEF Idle, Rebuilding
      <4>2. \/ op' = Idle \/ op' = Rebuilding(op.todo) \/ op'.call = op.call
        BY <1>5 DEF ExpandCell, Return, Inv6, Typed, Locals
      <4> QED BY <3>1, <4>1, <4>2
    <3> QED BY <1>1, <1>2, <3>2
  <2> QED BY <1>1, <2>1, <2>2
<1>6. CASE Lookups \/ UNCHANGED vars
  <2>1. UNCHANGED <<rules, tbl, op, before, DoneTbl>>
    BY <1>6, LookupsStutter DEF M!vars, M!tables
  <2>2. HalfWritten' = HalfWritten
    BY <2>1 DEF HalfWritten, FirstCell
  <2> QED BY <2>1, <2>2 DEF Answering, Answers
<1>7. \/ op'.pc = "idle" \/ op'.call \notin {"none", "add"}
      \/ \E r \in Routes : \E hop \in NextHops : rte_lpm6_add(r, hop)
      \/ FillGroup \/ LinkGroup \/ Descend \/ ExpandCell \/ Lookups \/ UNCHANGED vars
  <2> USE OtherCallsEnd DEF Next, Call, Step
  <2> QED OBVIOUS
<1> QED BY <1>1, <1>2, <1>3, <1>4, <1>5, <1>6, <1>7

\* Beside an insertion the ways of the tables themselves end at leaves, too:
\* their links are links of the tables that are implemented.
LEMMA WaysEndAtLeaves ==
  ASSUME Inv6, op.call \in {"none", "add"}, NEW ip \in Address
  PROVE  ~IsLink(M!EndIn(tbl, ip))
<1>1. op.pc \in {"idle", "add", "link"} /\ op \in Locals /\ PlaceKept /\ Typed
  BY DEF Inv6, CallKept, Typed, Locals
<1>2. DoneOp.pc \in {"idle", "add", "rebuild"}
  <2>1. Idle.pc = "idle" /\ \A todo : Rebuilding(todo).pc = "rebuild"
    BY DEF Idle, Rebuilding
  <2>2. op.pc = "link" => DoneOp.pc = "add"
    BY <1>1 DEF DoneOp, AsCall, Locals
  <2>3. op.pc # "link" => DoneOp.pc \in {op.pc, "idle", "rebuild"}
    BY <2>1 DEF DoneOp, AsCall
  <2> QED BY <1>1, <2>2, <2>3
<1>3. TablesOK(tbl) /\ TablesOK(DoneTbl)
  BY <1>1, InheritedTypes DEF Inv6, Typed
<1>4. \A t \in Tables : \A j \in Slots(t) : IsLink(tbl[t][j]) => DoneTbl[t][j] = tbl[t][j]
  <2>1. CASE op.pc = "link"
    <3>1. DoneTbl = [tbl EXCEPT ![op.cur][op.i] = Link(op.group)]
          /\ ~IsLink(tbl[op.cur][op.i])
      BY <1>1, <2>1 DEF DoneTbl, Linked, PlaceKept, CellEntry
    <3> QED BY <1>3, <3>1 DEF TablesOK
  <2>2. CASE HalfWritten
    <3>1. op.pc = "add" /\ ~Deeper /\ op.i \in FirstCell..LastCell
      BY <1>1, <2>2, PlaceFacts DEF HalfWritten, PlaceKept
    <3>2. Writing /\ op.i..LastCell \in SUBSET Slots(op.cur)
      <4>1. /\ FirstCell..LastCell \subseteq Slots(op.cur) /\ op.cur \in Tables
            /\ FirstCell \in Int /\ LastCell \in Int /\ op.i \in Int
        BY <1>1, <3>1, PlaceFacts
      <4>2. op.entry \in Entry /\ ~op.entry.ext_entry
        BY <1>1, <3>1 DEF Locals, PlaceKept
      <4> QED BY <3>1, <4>1, <4>2 DEF Writing
    <3>3. DoneTbl = WriteIn(tbl, op.i..LastCell)
      BY <2>2, <3>1, WriteCellsIs DEF DoneTbl
    <3>4. SameLinks(tbl, DoneTbl)
      BY <1>3, <3>2, <3>3, WriteKeepsLinks
    <3> QED BY <3>4 DEF SameLinks
  <2>3. CASE op.pc # "link" /\ ~HalfWritten
    BY <2>3 DEF DoneTbl
  <2> QED BY <2>1, <2>2, <2>3
<1>5. ~IsLink(M!EndIn(DoneTbl, ip))
  BY <1>2, DoneEndsAtLeaves DEF Inv6
<1>6. M!TablesOK(tbl) /\ M!TablesOK(DoneTbl) /\ ip \in M!Address
  BY <1>3, SameTablesOK, SameConstants
<1>7. PICK n \in M!Levels :
        /\ M!EndsAt(tbl, ip, n) /\ M!WalkIn(tbl, ip)[n] \in M!Tables
        /\ M!get_bitshift(ip, n) \in M!Slots(M!WalkIn(tbl, ip)[n])
        /\ M!EndIn(tbl, ip) = tbl[M!WalkIn(tbl, ip)[n]][M!get_bitshift(ip, n)]
        /\ M!EndIn(tbl, ip) \in M!Entry
  BY <1>6, M!EndExists, Parameters
<1> DEFINE t == M!WalkIn(tbl, ip)[n]
           j == M!get_bitshift(ip, n)
           e == M!EndIn(tbl, ip)
<1> SUFFICES ASSUME IsLink(e) PROVE FALSE
  OBVIOUS
<1>8. /\ t \in Tables /\ j \in Slots(t) /\ e = tbl[t][j] /\ e \in Entry /\ t # NO_TABLE
  BY <1>7, SameConstants DEF M!EndsAt
<1>9. n = IPV6_ADDR_SIZE
  <2> SUFFICES ASSUME n # IPV6_ADDR_SIZE PROVE FALSE
    OBVIOUS
  <2>1. n + 1 \in M!Levels \ {ADD_FIRST_BYTE} /\ (n + 1) - 1 = n
    BY <1>7, Constants6, SameConstants DEF Levels
  <2>2. M!WalkIn(tbl, ip)[n + 1] = M!BelowIn(tbl, t, ip, n + 1)
    BY <1>6, <2>1, M!WalkInUnfolds, Parameters
  <2>3. M!IsLink(tbl[t][j]) /\ t # M!NO_TABLE
    BY <1>8, SameConstants, SameOperators
  <2>4. M!BelowIn(tbl, t, ip, n + 1) = tbl[t][j].next_hop
    <3> HIDE DEF t, e
    <3> QED BY <2>1, <2>3 DEF M!BelowIn
  <2>5. e.next_hop # NO_TABLE
    <3> HIDE DEF e
    <3> QED BY <1>8, Constants6 DEF Entry, IsLink
  <2> QED BY <1>7, <1>8, <2>2, <2>4, <2>5, SameConstants DEF M!EndsAt
<1>10. M!WalkIn(DoneTbl, ip)[n] = t
  <2>1. \A m \in M!Levels : M!WalkIn(tbl, ip)[m] \in M!Tables \cup {M!NO_TABLE}
    BY <1>6, M!WalkInUnfolds, Parameters
  <2>2. \A u \in M!Tables \cap M!Tables : \A i \in M!Slots(u) :
          M!IsLink(tbl[u][i]) => DoneTbl[u][i] = tbl[u][i]
    BY <1>4, SameConstants, SameOperators
  <2>3. M!WalkIn(tbl, ip)[n] # M!NO_TABLE
    BY <1>8, SameConstants
  <2> QED BY <1>6, <2>1, <2>2, <2>3, M!WalkGoesOn, Parameters
<1>11. M!EndsAt(DoneTbl, ip, n)
  BY <1>8, <1>9, <1>10, SameConstants DEF M!EndsAt
<1>12. M!EndIn(DoneTbl, ip) = DoneTbl[t][j]
  BY <1>6, <1>10, <1>11, M!EndIs, Parameters
<1> HIDE DEF t, j, e
<1> QED BY <1>4, <1>5, <1>8, <1>12

-----------------------------------------------------------------------------
(* Lookups *)

Sought == reader.ips[reader.i]

\* A lookup is at the table of its address's way at its level; beside it rules
\* are only inserted, and the answers of those before and after are held.
Reading ==
  /\ reader = [pc |-> "read", ips |-> reader.ips, i |-> reader.i, place |-> reader.place,
               level |-> reader.level, held |-> reader.held]
  /\ reader.ips \in Seq(Address) /\ reader.i \in 1..Len(reader.ips)
  /\ reader.level \in Levels
  /\ M!WalkIn(tbl, Sought)[reader.level] # NO_TABLE
  /\ reader.place = <<M!WalkIn(tbl, Sought)[reader.level], get_bitshift(Sought, reader.level)>>
  /\ deletes = "one" /\ op.call \in {"none", "add"}
  /\ LongestMatch(rules, Sought) \in reader.held
  /\ LongestMatch(before, Sought) \in reader.held

ReaderKept == reader = NoLookup \/ Reading

LEMMA SoughtIsAddress ==
  ASSUME Reading
  PROVE  Sought \in Address
BY DEF Reading, Sought

\* Where a lookup is, and what it reads there.
LEMMA ReadsOnTheWay ==
  ASSUME Inv6, Reading
  PROVE  /\ reader.place[1] \in Tables /\ reader.place[2] \in Slots(reader.place[1])
         /\ tbl[reader.place[1]][reader.place[2]] \in Entry
         /\ ~IsLink(tbl[reader.place[1]][reader.place[2]]) =>
              tbl[reader.place[1]][reader.place[2]] = M!EndIn(tbl, Sought)
         /\ IsLink(tbl[reader.place[1]][reader.place[2]]) =>
              reader.level < IPV6_ADDR_SIZE
<1> DEFINE t == M!WalkIn(tbl, Sought)[reader.level]
           j == get_bitshift(Sought, reader.level)
<1>1. Sought \in Address /\ TablesOK(tbl) /\ M!TablesOK(tbl)
  BY SoughtIsAddress, SameTablesOK DEF Inv6, Typed
<1>2. reader.place[1] = t /\ reader.place[2] = j /\ t # NO_TABLE /\ reader.level \in Levels
  BY DEF Reading
<1>3. Sought \in M!Address /\ reader.level \in M!Levels /\ M!NO_TABLE = NO_TABLE
      /\ M!get_bitshift(Sought, reader.level) = j
  BY <1>1, <1>2, SameConstants, SameOperators
<1>4. t \in Tables /\ (t = TBL24_IND <=> reader.level = ADD_FIRST_BYTE)
  <2>1. /\ t \in M!Tables \cup {M!NO_TABLE}
        /\ t = M!TBL24_IND <=> reader.level = ADD_FIRST_BYTE
    BY <1>1, <1>3, M!WalkInUnfolds, Parameters
  <2> QED BY <1>2, <2>1, SameConstants
<1> HIDE DEF t, j
<1>5. j \in Slots(t)
  <2>1. M!get_bitshift(Sought, reader.level) \in M!Slots(t)
    BY <1>3, <1>4, M!SlotOfAddress, Parameters, SameConstants
  <2> QED BY <1>3, <2>1, SameConstants
<1>6. ASSUME ~IsLink(tbl[t][j]) PROVE tbl[t][j] = M!EndIn(tbl, Sought)
  <2>1. ~M!IsLink(tbl[M!WalkIn(tbl, Sought)[reader.level]][M!get_bitshift(Sought, reader.level)])
    BY <1>3, <1>6, SameOperators DEF t
  <2>2. M!EndIn(tbl, Sought)
          = tbl[M!WalkIn(tbl, Sought)[reader.level]][M!get_bitshift(Sought, reader.level)]
    BY <1>1, <1>2, <1>3, <2>1, M!EndsAtLeaf, Parameters DEF t
  <2> QED BY <1>3, <2>2 DEF t
<1>7. ASSUME IsLink(tbl[t][j]) PROVE reader.level < IPV6_ADDR_SIZE
  <2> SUFFICES ASSUME reader.level = IPV6_ADDR_SIZE PROVE FALSE
    BY <1>2, Constants6 DEF Levels
  <2>1. M!EndsAt(tbl, Sought, reader.level)
    BY <1>2, <1>3 DEF M!EndsAt, t
  <2>2. M!EndIn(tbl, Sought)
          = tbl[M!WalkIn(tbl, Sought)[reader.level]][M!get_bitshift(Sought, reader.level)]
    BY <1>1, <1>3, <2>1, M!EndIs, Parameters
  <2>3. ~IsLink(M!EndIn(tbl, Sought))
    BY <1>1, WaysEndAtLeaves DEF Reading
  <2> QED BY <1>3, <1>7, <2>2, <2>3 DEF t
<1>8. tbl[t][j] \in Entry
  BY <1>1, <1>4, <1>5 DEF TablesOK
<1> QED BY <1>2, <1>4, <1>5, <1>6, <1>7, <1>8

\* A step beside a lookup that leaves the way as far as it has gone.
LEMMA ReadingStays ==
  ASSUME Reading, reader' = reader, deletes' = deletes, op'.call \in {"none", "add"},
         M!WalkIn(tbl', Sought)[reader.level] = M!WalkIn(tbl, Sought)[reader.level],
         LongestMatch(rules', Sought) \in reader.held,
         LongestMatch(before', Sought) \in reader.held
  PROVE  Reading'
<1>1. Sought' = Sought
  BY DEF Sought
<1> QED BY <1>1 DEF Reading

\* Tables that keep the links of these keep the way.
LEMMA LinksKeepWay ==
  ASSUME Reading, TablesOK(tbl), TablesOK(tbl'), NEW L,
         \A t \in Tables \cap L : \A j \in Slots(t) :
           IsLink(tbl[t][j]) => tbl'[t][j] = tbl[t][j],
         \A m \in Levels : M!WalkIn(tbl, Sought)[m] \in L \cup {NO_TABLE}
  PROVE  M!WalkIn(tbl', Sought)[reader.level] = M!WalkIn(tbl, Sought)[reader.level]
<1>1. /\ M!TablesOK(tbl) /\ M!TablesOK(tbl') /\ Sought \in M!Address
      /\ reader.level \in M!Levels /\ M!WalkIn(tbl, Sought)[reader.level] # M!NO_TABLE
  BY SoughtIsAddress, SameTablesOK, SameConstants DEF Reading
<1>2. /\ \A t \in M!Tables \cap L : \A j \in M!Slots(t) :
           M!IsLink(tbl[t][j]) => tbl'[t][j] = tbl[t][j]
      /\ \A m \in M!Levels : M!WalkIn(tbl, Sought)[m] \in L \cup {M!NO_TABLE}
  BY SameConstants, SameOperators
<1> QED BY <1>1, <1>2, M!WalkGoesOn, Parameters

LEMMA WayInTables ==
  ASSUME Reading, TablesOK(tbl), NEW m \in Levels
  PROVE  M!WalkIn(tbl, Sought)[m] \in Tables \cup {NO_TABLE}
<1>1. Sought \in M!Address /\ M!TablesOK(tbl) /\ m \in M!Levels
  BY SoughtIsAddress, SameTablesOK, SameConstants
<1>2. M!WalkIn(tbl, Sought)[m] \in M!Tables \cup {M!NO_TABLE}
  BY <1>1, M!WalkInUnfolds, Parameters
<1> QED BY <1>2, SameConstants

\* The steps of an insertion that write a table.
LEMMA WritesKeepReading ==
  ASSUME Inv6, Inv6', Reading, FillGroup \/ LinkGroup \/ ExpandCell
  PROVE  Reading'
<1>1. TablesOK(tbl) /\ TablesOK(tbl') /\ op \in Locals /\ Sought \in Address
  BY SoughtIsAddress DEF Inv6, Typed
<1>2. op.call = "add" /\ op.todo = {} /\ UNCHANGED <<rules, reader, deletes>>
  BY DEF FillGroup, LinkGroup, ExpandCell, Rest, Inv6, CallKept, Reading
<1>3. op'.call \in {"none", "add"} /\ (before' = before \/ before' = rules)
  <2>1. FillGroup => op'.call = op.call /\ before' = before
    BY <1>1 DEF FillGroup, Locals
  <2>2. LinkGroup => op'.call = op.call /\ before' = before
    BY <1>1 DEF LinkGroup, EnterTable, Locals
  <2>3. ExpandCell => \/ op'.call = op.call /\ before' = before
                      \/ op' = Idle /\ before' = rules
    BY <1>1, <1>2 DEF ExpandCell, Return, Locals
  <2> QED BY <1>2, <2>1, <2>2, <2>3 DEF Idle
<1>4. \A m \in Levels : M!WalkIn(tbl, Sought)[m] \in Tables \cup {NO_TABLE}
  BY <1>1, WayInTables
<1>5. M!WalkIn(tbl', Sought)[reader.level] = M!WalkIn(tbl, Sought)[reader.level]
  <2>1. CASE FillGroup
    <3> DEFINE g == tbl8_pool[tbl8_pool_pos]
               L == {M!WalkIn(tbl, Sought)[m] : m \in Levels} \ {NO_TABLE}
    <3>1. \A t \in Tables \cap L : \A j \in Slots(t) :
            IsLink(tbl[t][j]) => tbl'[t][j] = tbl[t][j]
      BY <1>1, <2>1, FillKeepsWays
    <3>2. \A m \in Levels : M!WalkIn(tbl, Sought)[m] \in L \cup {NO_TABLE}
      OBVIOUS
    <3> HIDE DEF L
    <3> QED BY <1>1, <3>1, <3>2, LinksKeepWay
  <2>2. CASE LinkGroup
    <3>1. /\ tbl' = [tbl EXCEPT ![op.cur][op.i] = Link(op.group)] /\ ~IsLink(tbl[op.cur][op.i])
      BY <2>2 DEF LinkGroup, Linked, Inv6, PlaceKept, CellEntry
    <3>2. \A t \in Tables \cap Tables : \A j \in Slots(t) :
            IsLink(tbl[t][j]) => tbl'[t][j] = tbl[t][j]
      BY <1>1, <3>1 DEF TablesOK
    <3> QED BY <1>1, <1>4, <3>2, LinksKeepWay
  <2>3. CASE ExpandCell
    <3>1. Writing /\ tbl' = WriteIn(tbl, {op.i}) /\ op.i \in Slots(op.cur)
      <4>1. op.pc = "add" /\ ~Deeper /\ tbl' = WriteCells({op.i})
        BY <2>3 DEF ExpandCell
      <4> QED BY <4>1, CellWritten, PlaceFacts DEF Inv6
    <3>2. SameLinks(tbl, tbl')
      BY <1>1, <3>1, WriteKeepsLinks
    <3>3. \A t \in Tables \cap Tables : \A j \in Slots(t) :
            IsLink(tbl[t][j]) => tbl'[t][j] = tbl[t][j]
      BY <3>2 DEF SameLinks
    <3> QED BY <1>1, <1>4, <3>3, LinksKeepWay
  <2> QED BY <2>1, <2>2, <2>3
<1>6. LongestMatch(rules', Sought) \in reader.held /\ LongestMatch(before', Sought) \in reader.held
  BY <1>2, <1>3 DEF Reading
<1> QED BY <1>2, <1>3, <1>5, <1>6, ReadingStays

\* An insertion that begins promises the lookup one more answer.
LEMMA AddKeepsReading ==
  ASSUME Reading, NEW r \in Routes, NEW hop \in NextHops, rte_lpm6_add(r, hop)
  PROVE  Reading'
<1> DEFINE more == reader.held \cup {LongestMatch(rules', Sought)}
<1>1. /\ reader' = [reader EXCEPT !.held = more]
      /\ UNCHANGED <<tbl, before, deletes>>
  BY DEF rte_lpm6_add, tables, Promised, Sought, Reading
<1>2. op'.call = "add"
  BY DEF rte_lpm6_add, AddFrom, Idle
<1> HIDE DEF more
<1>3. reader' = [pc |-> "read", ips |-> reader.ips, i |-> reader.i, place |-> reader.place,
                 level |-> reader.level, held |-> more]
  <2>1. ASSUME NEW o,
               o = [pc |-> "read", ips |-> reader.ips, i |-> reader.i, place |-> reader.place,
                    level |-> reader.level, held |-> reader.held]
        PROVE  [o EXCEPT !.held = more]
                 = [pc |-> "read", ips |-> reader.ips, i |-> reader.i,
                    place |-> reader.place, level |-> reader.level, held |-> more]
    BY <2>1
  <2> QED BY <1>1, <2>1 DEF Reading
<1>4. Sought' = Sought
  BY <1>3 DEF Sought
<1>5. LongestMatch(rules', Sought) \in more /\ LongestMatch(before', Sought) \in more
  BY <1>1 DEF Reading, more
<1> QED BY <1>1, <1>2, <1>3, <1>4, <1>5 DEF Reading

\* A walk that starts, for an address of an array.
LEMMA AtTopReads ==
  ASSUME Typed, NEW ips \in Seq(Address), NEW i \in 1..Len(ips), reader' = AtTop(ips, i),
         deletes = "one", op.call \in {"none", "add"},
         UNCHANGED <<rules, tbl, op, before, deletes>>
  PROVE  Reading'
<1>1. /\ reader'.ips = ips /\ reader'.i = i /\ reader'.level = ADD_FIRST_BYTE
      /\ reader'.place = <<TBL24_IND, get_bitshift(ips[i], ADD_FIRST_BYTE)>>
      /\ reader'.held = {LongestMatch(R, ips[i]) : R \in {rules, before}}
      /\ reader' = [pc |-> "read", ips |-> reader'.ips, i |-> reader'.i,
                    place |-> reader'.place, level |-> reader'.level, held |-> reader'.held]
  BY DEF AtTop
<1>2. Sought' = ips[i] /\ ips[i] \in Address
  BY <1>1 DEF Sought
<1>3. M!WalkIn(tbl', Sought')[ADD_FIRST_BYTE] = TBL24_IND
  <2>1. M!TablesOK(tbl) /\ ips[i] \in M!Address
    BY <1>2, SameTablesOK, SameConstants DEF Typed
  <2>2. M!WalkIn(tbl, ips[i])[ADD_FIRST_BYTE] = M!TBL24_IND
    BY <2>1, M!WalkInUnfolds, Parameters
  <2> QED BY <1>2, <2>2, SameConstants
<1>4. LongestMatch(rules', Sought') \in reader'.held /\ LongestMatch(before', Sought') \in reader'.held
  BY <1>1, <1>2
<1>5. ADD_FIRST_BYTE \in Levels /\ TBL24_IND # NO_TABLE
  BY Constants6
<1>6. reader'.place = <<M!WalkIn(tbl', Sought')[reader'.level], get_bitshift(Sought', reader'.level)>>
      /\ M!WalkIn(tbl', Sought')[reader'.level] # NO_TABLE
  BY <1>1, <1>2, <1>3, <1>5
<1> QED BY <1>1, <1>4, <1>5, <1>6 DEF Reading

LEMMA LookupKeepsReading ==
  ASSUME Inv6, ReaderKept, Lookups
  PROVE  ReaderKept'
<1>1. UNCHANGED <<rules, tbl, op, before, deletes>>
  BY DEF Lookups, rte_lpm6_lookup_bulk, lookup_step, tables
<1>2. ASSUME NEW ips \in Arrays, rte_lpm6_lookup_bulk(ips) PROVE Reading'
  <2>1. ips \in Seq(Address) /\ ips # <<>>
    BY Lpm6Assumption
  <2>2. 1 \in 1..Len(ips)
    BY <2>1, EmptySeq, LenProperties
  <2>3. reader' = AtTop(ips, 1) /\ deletes = "one" /\ op.call \in {"none", "add"}
    BY <1>2 DEF rte_lpm6_lookup_bulk
  <2> QED BY <1>1, <2>1, <2>2, <2>3, AtTopReads DEF Inv6
<1>3. ASSUME lookup_step PROVE ReaderKept'
  <2> DEFINE e == tbl[reader.place[1]][reader.place[2]]
             slot == get_bitshift(Sought, reader.level + 1)
  <2>1. Reading
    BY <1>3 DEF ReaderKept, lookup_step, NoLookup
  <2>2. CASE IsLink(e)
    <3>1. reader' = [reader EXCEPT !.place = <<e.next_hop, slot>>, !.level = reader.level + 1]
      BY <1>3, <2>2 DEF lookup_step, Sought
    <3>2. reader.level \in Levels /\ reader.level + 1 \in Levels
          /\ reader.level + 1 # ADD_FIRST_BYTE /\ (reader.level + 1) - 1 = reader.level
      BY <2>1, <2>2, ReadsOnTheWay, Constants6 DEF Levels, Reading
    <3>3. M!WalkIn(tbl, Sought)[reader.level + 1] = e.next_hop
      <4>1. M!TablesOK(tbl) /\ Sought \in M!Address
        BY <2>1, SoughtIsAddress, SameTablesOK, SameConstants DEF Inv6, Typed
      <4>2. reader.level + 1 \in M!Levels \ {ADD_FIRST_BYTE}
        BY <3>2, SameConstants
      <4>3. M!WalkIn(tbl, Sought)[reader.level + 1]
              = M!BelowIn(tbl, M!WalkIn(tbl, Sought)[reader.level], Sought, reader.level + 1)
        BY <3>2, <4>1, <4>2, M!WalkInUnfolds, Parameters
      <4>4. /\ M!WalkIn(tbl, Sought)[reader.level] # M!NO_TABLE
            /\ e = tbl[M!WalkIn(tbl, Sought)[reader.level]][M!get_bitshift(Sought, reader.level)]
            /\ M!IsLink(e)
        BY <2>1, <2>2, SameConstants, SameOperators DEF Reading
      <4> HIDE DEF e
      <4> QED BY <3>2, <4>3, <4>4 DEF M!BelowIn
    <3>4. e.next_hop # NO_TABLE
      <4>1. e \in Entry
        BY <2>1, ReadsOnTheWay
      <4> QED BY <2>2, <4>1, Constants6 DEF Entry, IsLink
    <3> HIDE DEF e, slot
    <3>5. reader' = [pc |-> "read", ips |-> reader.ips, i |-> reader.i,
                     place |-> <<e.next_hop, slot>>, level |-> reader.level + 1,
                     held |-> reader.held]
      <4> DEFINE place == <<e.next_hop, slot>>
                 mid == [reader EXCEPT !.place = place]
      <4>1. reader' = [mid EXCEPT !.level = reader.level + 1]
        BY <3>1
      <4>2. reader = [pc |-> "read", ips |-> reader.ips, i |-> reader.i,
                      place |-> reader.place, level |-> reader.level, held |-> reader.held]
        BY <2>1 DEF Reading
      <4> HIDE DEF place
      <4>3. mid = [pc |-> "read", ips |-> reader.ips, i |-> reader.i, place |-> place,
                   level |-> reader.level, held |-> reader.held]
        BY ONLY <4>2
      <4> HIDE DEF mid
      <4>4. reader' = [pc |-> "read", ips |-> reader.ips, i |-> reader.i, place |-> place,
                       level |-> reader.level + 1, held |-> reader.held]
        BY ONLY <4>1, <4>3
      <4> QED BY <4>4 DEF place
    <3>6. Sought' = Sought
      BY <3>5 DEF Sought
    <3>7. slot = get_bitshift(Sought, reader.level + 1)
      BY DEF slot
    <3>8. Reading'
      BY <1>1, <2>1, <3>2, <3>3, <3>4, <3>5, <3>6, <3>7 DEF Reading
    <3> QED BY <3>8 DEF ReaderKept
  <2>3. CASE ~IsLink(e)
    <3>1. reader' = IF reader.i < Len(reader.ips)
                    THEN AtTop(reader.ips, reader.i + 1) ELSE NoLookup
      BY <1>3, <2>3 DEF lookup_step
    <3>2. /\ reader.ips \in Seq(Address) /\ reader.i \in 1..Len(reader.ips)
          /\ deletes = "one" /\ op.call \in {"none", "add"}
      BY <2>1 DEF Reading
    <3>3. CASE reader.i < Len(reader.ips)
      <4>1. reader.i + 1 \in 1..Len(reader.ips)
        BY <3>2, <3>3, LenProperties
      <4>2. Reading'
        BY <1>1, <3>1, <3>2, <3>3, <4>1, AtTopReads DEF Inv6
      <4> QED BY <4>2 DEF ReaderKept
    <3>4. CASE ~(reader.i < Len(reader.ips))
      BY <3>1, <3>4 DEF ReaderKept, NoLookup
    <3> QED BY <3>3, <3>4
  <2> QED BY <2>2, <2>3
<1> QED BY <1>2, <1>3 DEF Lookups, ReaderKept

LEMMA StepKeepsReader ==
  ASSUME Inv6, Inv6', ReaderKept, [Next]_vars
  PROVE  ReaderKept'
<1>1. CASE Lookups
  BY <1>1, LookupKeepsReading
<1>2. ASSUME reader = NoLookup, Call \/ Step \/ UNCHANGED vars PROVE ReaderKept'
  <2>1. \A R : Promised(R) = NoLookup
    BY <1>2 DEF Promised, NoLookup
  <2>2. reader' = NoLookup
    BY <1>2, <2>1 DEF Call, Step, vars, RejectDepth, AddThrows, AddNoSpace, rte_lpm6_add,
       DeleteAbsent, rte_lpm6_delete, rte_lpm6_delete_all, rte_lpm6_delete_bulk, Refuse,
       FillGroup, LinkGroup, Descend, ExpandCell, Unref, Unlink, ClearCell, rebuild_lpm, Rest
  <2> QED BY <2>2 DEF ReaderKept, NoLookup
<1>3. ASSUME Reading, Call \/ Step \/ UNCHANGED vars PROVE Reading'
  <2>1. CASE FillGroup \/ LinkGroup \/ ExpandCell
    BY <1>3, <2>1, WritesKeepReading
  <2>2. ASSUME NEW r \in Routes, NEW hop \in NextHops, rte_lpm6_add(r, hop) PROVE Reading'
    BY <1>3, <2>2, AddKeepsReading
  <2>3. CASE \/ UNCHANGED vars \/ Descend
             \/ \E r \in Routes : \/ RejectDepth(r) \/ AddThrows(r) \/ AddNoSpace(r)
                                  \/ DeleteAbsent(r)
    <3>1. UNCHANGED <<rules, tbl, reader, before, deletes>> /\ op'.call = op.call
      BY <2>3 DEF vars, tables, Descend, EnterTable, Rest, RejectDepth, AddThrows,
         AddNoSpace, DeleteAbsent, Refuse, Inv6, Typed, Locals
    <3> QED BY <1>3, <3>1, ReadingStays DEF Reading
  <2>4. ~(\E r \in Routes : rte_lpm6_delete(r)) /\ ~rte_lpm6_delete_all
        /\ ~(\E keys \in SUBSET Keys : rte_lpm6_delete_bulk(keys))
    <3>1. reader.pc # "idle"
      BY <1>3 DEF Reading
    <3> QED BY <3>1 DEF rte_lpm6_delete, rte_lpm6_delete_all, rte_lpm6_delete_bulk, CanDelete
  <2>5. ~Unref /\ ~Unlink /\ ~ClearCell /\ ~(\E key \in Keys : rebuild_lpm(key))
    BY <1>3 DEF Unref, Unlink, ClearCell, rebuild_lpm, Inv6, CallKept, Reading
  <2> QED BY <1>3, <2>1, <2>2, <2>3, <2>4, <2>5 DEF Call, Step
<1> QED BY <1>1, <1>2, <1>3 DEF Next, ReaderKept

-----------------------------------------------------------------------------
(* The invariants of Lpm6 *)

LEMMA TypesFollow ==
  ASSUME Inv6, ReaderKept
  PROVE  TypeOK
<1>1. /\ DOMAIN rules \subseteq Prefix /\ \A k \in DOMAIN rules : rules[k] \in NextHops
      /\ used_rules = Cardinality(DOMAIN rules) /\ used_rules <= MAX_RULES
      /\ tbl8_pool \in [Groups -> Groups] /\ tbl8_pool_pos \in 0..NUMBER_TBL8S
  BY InheritedTypes, Constants6 DEF Inv6
<1>2. /\ DOMAIN tbl = Tables /\ \A t \in Tables : tbl[t] \in [Slots(t) -> Entry]
      /\ \A g \in Groups : /\ tbl8_hdrs[g].owner_tbl_ind \in Tables
                           /\ tbl8_hdrs[g].ref_cnt \in 0..(REF_MOD - 1)
      /\ op.level \in Levels /\ op.entry \in Entry
  BY DEF Inv6, Typed, TablesOK, Header, Locals
<1>3. \A t \in Tables : \A j \in Slots(t) : <<t, j>> \in Places
  BY DEF Places
<1>4. op.pc \in {"add", "link", "clear"} => <<op.cur, op.i>> \in Places
  BY <1>3, PlaceFacts DEF Inv6
<1>5. /\ reader.level \in Levels /\ reader.place \in Places
      /\ IsLink(tbl[reader.place[1]][reader.place[2]]) /\ reader.pc = "read" =>
           reader.level < IPV6_ADDR_SIZE
  <2>1. CASE reader = NoLookup
    <3>1. reader.level = ADD_FIRST_BYTE /\ reader.place = <<TBL24_IND, 0>>
          /\ reader.pc = "idle"
      BY <2>1 DEF NoLookup
    <3>2. 0 \in Slots(TBL24_IND)
      <4>1. StepBits(ADD_FIRST_BYTE) = ADD_FIRST_BYTE * BYTE_SIZE
        BY DEF StepBits, BitsCovered
      <4>2. ADD_FIRST_BYTE * BYTE_SIZE \in 0..MAX_DEPTH
        BY M!BitsCoveredRange, Parameters, SameConstants, Constants6 DEF BitsCovered
      <4>3. 2 ^ StepBits(ADD_FIRST_BYTE) \in Nat \ {0}
        BY <4>1, <4>2, PowersAssumption
      <4> QED BY <4>3 DEF Slots
    <3> QED BY <1>3, <3>1, <3>2, Constants6
  <2>2. CASE Reading
    <3>1. reader.place = <<reader.place[1], reader.place[2]>> /\ reader.level \in Levels
      BY <2>2 DEF Reading
    <3> QED BY <1>3, <2>2, <3>1, ReadsOnTheWay
  <2> QED BY <2>1, <2>2 DEF ReaderKept
<1> QED BY <1>1, <1>2, <1>4, <1>5 DEF TypeOK

LEMMA HeldFollows ==
  ASSUME Inv6, ReaderKept, Answering
  PROVE  AnswersHeld
<1> DEFINE e == tbl[reader.place[1]][reader.place[2]]
<1> SUFFICES ASSUME reader.pc = "read", ~IsLink(e) PROVE HopOf(e) \in reader.held
  BY DEF AnswersHeld
<1>1. Reading /\ Sought \in Address
  BY SoughtIsAddress DEF ReaderKept, NoLookup
<1>2. e = M!EndIn(tbl, Sought)
  BY <1>1, ReadsOnTheWay
<1>3. M!HopIn(tbl, Sought) = HopOf(M!EndIn(tbl, Sought))
  BY M!HopOfEnd, Parameters, SameOperators
<1>4. M!HopIn(tbl, Sought) \in {LongestMatch(before, Sought), LongestMatch(rules, Sought)}
  BY <1>1 DEF Reading, Answering, Answers
<1>5. LongestMatch(rules, Sought) \in reader.held /\ LongestMatch(before, Sought) \in reader.held
  BY <1>1 DEF Reading
<1> QED BY <1>2, <1>3, <1>4, <1>5

LEMMA LongestMatchFollows ==
  ASSUME Inv6, Answering
  PROVE  LookupIsLongestMatch
<1> SUFFICES ASSUME op.pc = "idle", NEW ip \in Address
             PROVE  TableHop(ip) = LongestMatch(rules, ip)
  BY DEF LookupIsLongestMatch
<1>1. op = Idle /\ before = rules
  BY DEF Inv6, CallKept
<1>2. Answers(ip)
  BY <1>1 DEF Answering, Idle
<1>3. M!HopIn(tbl, ip) = LongestMatch(rules, ip)
  BY <1>1, <1>2 DEF Answers
<1> QED BY <1>3, SameHop

LEMMA CountsFollow ==
  ASSUME CountsFit, Inv6
  PROVE  GroupsCounted
<1> SUFFICES ASSUME op.pc = "idle"
    PROVE  /\ \A i, j \in tbl8_pool_pos..(NUMBER_TBL8S - 1) : tbl8_pool[i] = tbl8_pool[j] => i = j
           /\ {tbl8_pool[i] : i \in tbl8_pool_pos..(NUMBER_TBL8S - 1)}
                = Groups \ {Target(p) : p \in Linking}
           /\ \A p \in Linking :
                LET header == tbl8_hdrs[Target(p)]
                IN  p = <<header.owner_tbl_ind, header.owner_entry_ind>>
           /\ deletes = "one" =>
                \A p \in Linking :
                  LET g == Target(p)
                      rules_in == {k \in DOMAIN rules : Path(k.ip)[LevelOf(k.depth)] = g}
                      links_in == {j \in Slots(g) : IsLink(tbl[g][j])}
                  IN  /\ tbl8_hdrs[g].ref_cnt = Cardinality(rules_in) + Cardinality(links_in)
                      /\ tbl8_hdrs[g].ref_cnt # 0
  BY DEF GroupsCounted
<1>1. Whole
  BY DEF Whole, HalfWritten
<1>2. DoneTbl = tbl /\ DoneHdrs = tbl8_hdrs /\ DoneOp.pc = "idle"
  BY <1>1, WhenWhole DEF AsCall
<1>3. \A i, j \in tbl8_pool_pos..(NUMBER_TBL8S - 1) : tbl8_pool[i] = tbl8_pool[j] => i = j
  BY InheritedInvariants DEF Inv6, M!PoolOnce
<1> DEFINE free == {tbl8_pool[i] : i \in tbl8_pool_pos..(NUMBER_TBL8S - 1)}
<1>4. M!Taken = Groups \ free /\ M!Free = free
  BY SameConstants DEF M!Taken, M!Free
<1>5. ASSUME NEW t \in Tables, NEW j \in Slots(t), IsLink(tbl[t][j])
      PROVE  /\ tbl[t][j].next_hop \in Groups \ free
             /\ tbl8_hdrs[tbl[t][j].next_hop].owner_tbl_ind = t
             /\ tbl8_hdrs[tbl[t][j].next_hop].owner_entry_ind = j
  <2>1. t \in M!Tables /\ j \in M!Slots(t) /\ M!IsLink(DoneTbl[t][j])
    BY <1>2, <1>5, SameConstants, SameOperators
  <2>2. /\ DoneTbl[t][j].next_hop \in M!Taken
        /\ M!Owner(DoneTbl[t][j].next_hop) = t
        /\ M!OwnerEntry(DoneTbl[t][j].next_hop) = j
    BY <2>1 DEF Inv6, M!LinksOwned
  <2> HIDE DEF free
  <2> QED BY <1>2, <1>4, <2>2 DEF M!Owner, M!OwnerEntry
<1>6. ASSUME NEW g \in Groups \ free
      PROVE  \E t \in Tables : \E j \in Slots(t) : IsLink(tbl[t][j]) /\ tbl[t][j].next_hop = g
  <2>1. g \in M!Taken /\ DoneOp.pc # "unlink"
    BY <1>2, <1>4
  <2>2. \E t \in M!Tables : \E j \in M!Slots(t) :
          M!IsLink(DoneTbl[t][j]) /\ DoneTbl[t][j].next_hop = g
    BY <2>1, M!TakenIsLinked, Parameters DEF Inv6
  <2> QED BY <1>2, <2>2, SameConstants, SameOperators
<1>7. free \subseteq Groups
  <2>1. tbl8_pool \in [Groups -> Groups] /\ tbl8_pool_pos \in 0..NUMBER_TBL8S
    BY InheritedTypes DEF Inv6
  <2> QED BY <2>1, Constants6 DEF Groups
<1> HIDE DEF free
<1>8. ASSUME NEW p \in Linking
      PROVE  \E t \in Tables : \E j \in Slots(t) :
               p = <<t, j>> /\ IsLink(tbl[t][j]) /\ Target(p) = tbl[t][j].next_hop
  <2>1. p \in Places /\ IsLink(tbl[p[1]][p[2]]) /\ Target(p) = tbl[p[1]][p[2]].next_hop
    BY DEF Linking, Target
  <2>2. PICK t \in Tables : p \in {t} \X Slots(t)
    BY <2>1 DEF Places
  <2>3. PICK j \in Slots(t) : p = <<t, j>>
    BY <2>2
  <2> QED BY <2>1, <2>3
<1>9. ASSUME NEW t \in Tables, NEW j \in Slots(t), IsLink(tbl[t][j])
      PROVE  <<t, j>> \in Linking /\ Target(<<t, j>>) = tbl[t][j].next_hop
  BY <1>9 DEF Linking, Target, Places
<1>10. free = Groups \ {Target(p) : p \in Linking}
  <2> DEFINE linked == {Target(p) : p \in Linking}
  <2>1. linked \subseteq Groups \ free
    BY <1>5, <1>8
  <2>2. ASSUME NEW g \in Groups \ free PROVE g \in linked
    <3>0. PICK t \in Tables : \E j \in Slots(t) : IsLink(tbl[t][j]) /\ tbl[t][j].next_hop = g
      BY <1>6
    <3>1. PICK j \in Slots(t) : IsLink(tbl[t][j]) /\ tbl[t][j].next_hop = g
      BY <3>0
    <3>2. <<t, j>> \in Linking /\ Target(<<t, j>>) = g
      BY <1>9, <3>1
    <3> QED BY <3>2
  <2> HIDE DEF linked
  <2>3. free = Groups \ linked
    BY <1>7, <2>1, <2>2
  <2> QED BY <2>3 DEF linked
<1>11. ASSUME NEW p \in Linking
       PROVE  p = <<tbl8_hdrs[Target(p)].owner_tbl_ind, tbl8_hdrs[Target(p)].owner_entry_ind>>
  BY <1>5, <1>8
<1>12. ASSUME deletes = "one", NEW g \in Groups \ free
       PROVE  LET rules_in == {k \in DOMAIN rules : Path(k.ip)[LevelOf(k.depth)] = g}
                  links_in == {j \in Slots(g) : IsLink(tbl[g][j])}
              IN  /\ tbl8_hdrs[g].ref_cnt = Cardinality(rules_in) + Cardinality(links_in)
                  /\ tbl8_hdrs[g].ref_cnt # 0
  <2> DEFINE rules_in == {k \in DOMAIN rules : Path(k.ip)[LevelOf(k.depth)] = g}
             links_in == {j \in Slots(g) : IsLink(tbl[g][j])}
             theirs == {k \in DOMAIN rules : M!Walk(k.ip)[M!LevelOf(k.depth)] = g}
             below  == {j \in M!Slots(g) : M!IsLink(DoneTbl[g][j])}
  <2>1. M!SingleInv /\ M!CountsFit
    BY <1>12, Fitting DEF Inv6, M!EitherInv, Deletion
  <2>2. M!RefCountsExact /\ M!PoolIsWhatIsUnlinked
    BY <2>1, M!SingleConsequences, Parameters
  <2>3. g \in M!Reachable
    <3>1. M!Free = M!Groups \ M!Reachable
      BY <1>2, <2>2 DEF M!PoolIsWhatIsUnlinked
    <3> QED BY <1>4, <3>1, SameConstants
  <2>4. /\ DoneHdrs[g].ref_cnt = M!Cardinality(theirs) + M!Cardinality(below)
        /\ DoneHdrs[g].ref_cnt # 0
    BY <1>2, <2>2, <2>3 DEF M!RefCountsExact, M!Quiet
  <2>5. theirs = rules_in /\ below = links_in
    BY <1>2, SameConstants, SameOperators, SameWalk DEF M!Walk
  <2> HIDE DEF theirs, below, rules_in, links_in
  <2>6. \A S : M!Cardinality(S) = Cardinality(S)
    BY DEF M!Cardinality, M!IsFiniteSet, Cardinality, IsFiniteSet
  <2>7. /\ tbl8_hdrs[g].ref_cnt = Cardinality(rules_in) + Cardinality(links_in)
        /\ tbl8_hdrs[g].ref_cnt # 0
    BY <1>2, <2>4, <2>5, <2>6
  <2> QED BY <2>7 DEF rules_in, links_in
<1>13. ASSUME NEW p \in Linking PROVE Target(p) \in Groups \ free
  BY <1>5, <1>8
<1>14. ASSUME deletes = "one", NEW p \in Linking
       PROVE  LET g == Target(p)
                  rules_in == {k \in DOMAIN rules : Path(k.ip)[LevelOf(k.depth)] = g}
                  links_in == {j \in Slots(g) : IsLink(tbl[g][j])}
              IN  /\ tbl8_hdrs[g].ref_cnt = Cardinality(rules_in) + Cardinality(links_in)
                  /\ tbl8_hdrs[g].ref_cnt # 0
  BY <1>12, <1>13, <1>14
<1> QED BY <1>3, <1>10, <1>11, <1>14 DEF free

LEMMA Inv6Holds ==
  ASSUME CountsFit
  PROVE  Spec => [](Inv6 /\ ReaderKept)
<1>1. rte_lpm6_create => Inv6 /\ ReaderKept
  BY CreateEstablishesInv6 DEF rte_lpm6_create, ReaderKept
<1>2. (Inv6 /\ ReaderKept) /\ [Next]_vars => (Inv6 /\ ReaderKept)'
  BY StepKeepsInv6, StepKeepsReader
<1> QED BY <1>1, <1>2, PTL DEF Spec

LEMMA AnsweringHolds ==
  ASSUME CountsFit, HopsFit
  PROVE  Spec => [](Inv6 /\ ReaderKept /\ Answering)
<1>1. rte_lpm6_create => Inv6 /\ ReaderKept /\ Answering
  <2> SUFFICES ASSUME rte_lpm6_create PROVE Inv6 /\ ReaderKept /\ Answering
    OBVIOUS
  <2>1. Inv6 /\ ReaderKept /\ op.pc = "idle"
    BY CreateEstablishesInv6 DEF rte_lpm6_create, ReaderKept, Idle
  <2> QED BY <2>1, IdleAnswers
<1>2. (Inv6 /\ ReaderKept /\ Answering) /\ [Next]_vars => (Inv6 /\ ReaderKept /\ Answering)'
  BY StepKeepsInv6, StepKeepsReader, StepKeepsAnswers
<1> QED BY <1>1, <1>2, PTL DEF Spec

-----------------------------------------------------------------------------
(* The theorems *)

\* The object of OMAR_dpdk_lpm6.c, whose insertions fill, link and expand one
\* entry at a time with lookups in between, implements the trie whose calls
\* write a rule in one step: every step is one of its steps, or none.
THEOREM ImplementsCallers ==
  ASSUME CountsFit
  PROVE  Spec => M!EitherSpec
<1>1. rte_lpm6_create => M!Create /\ Deletion \in {"single", "bulk"}
  BY CreateImplements
<1>2. Inv6 /\ [Next]_vars => [M!EitherNext]_<<M!vars, Deletion>>
  BY StepImplements
<1>3. Spec => []Inv6
  BY Inv6Holds, PTL
<1> QED BY <1>1, <1>2, <1>3, PTL DEF Spec, M!EitherSpec

\* TypeOK: tables, pool, headers and locals have their types, and neither an
\* insertion nor a lookup leaves the tables or the bytes of an address.
THEOREM TypeCorrect ==
  ASSUME CountsFit
  PROVE  Spec => []TypeOK
<1>1. Inv6 /\ ReaderKept => TypeOK
  BY TypesFollow
<1> QED BY <1>1, Inv6Holds, PTL

\* GroupsCounted: between calls a group is free or linked by the one entry
\* its header names, and its counter counts the rules and links in it.
THEOREM GroupsStayCounted ==
  ASSUME CountsFit
  PROVE  Spec => []GroupsCounted
<1>1. Inv6 /\ ReaderKept => GroupsCounted
  BY CountsFollow
<1> QED BY <1>1, Inv6Holds, PTL

\* AnswersHeld: a lookup between the steps of insertions answers each address
\* as the rules did at some moment while that address was looked up.
THEOREM LookupsBesideInsertions ==
  ASSUME CountsFit, HopsFit
  PROVE  Spec => []AnswersHeld
<1>1. Inv6 /\ ReaderKept /\ Answering => AnswersHeld
  BY HeldFollows
<1> QED BY <1>1, AnsweringHolds, PTL

\* LookupIsLongestMatch: between calls the tables answer each address with
\* the next hop of the most specific rule.
THEOREM LookupsAreLongestMatch ==
  ASSUME CountsFit, HopsFit
  PROVE  Spec => []LookupIsLongestMatch
<1>1. Inv6 /\ ReaderKept /\ Answering => LookupIsLongestMatch
  BY LongestMatchFollows
<1> QED BY <1>1, AnsweringHolds, PTL
=============================================================================
