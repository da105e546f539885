-------------------------- MODULE MultibitLpmProof --------------------------
(***************************************************************************)
(* Type correctness of MultibitLpm, the links of its groups, its pool and  *)
(* its reference counts, the answers of its lookups and its implementation *)
(* of Lpm, for every size of address, table and pool.                      *)
(***************************************************************************)
EXTENDS MultibitCallers, PrefixLemmas

USE DEF MISS, TBL24_IND

-----------------------------------------------------------------------------
(* Arithmetic *)

\* The bits consumed at a level are between zero and the length of an address.
LEMMA BitsCoveredRange ==
  ASSUME NEW level \in Levels
  PROVE  /\ level \in Nat \ {0}
         /\ BitsCovered(level) \in 0..MAX_DEPTH
         /\ MAX_DEPTH - BitsCovered(level) \in 0..MAX_DEPTH
         /\ StepBits(level) \in 0..MAX_DEPTH
<1>1. /\ BYTE_SIZE \in Nat \ {0} /\ IPV6_ADDR_SIZE \in Nat \ {0}
      /\ ADD_FIRST_BYTE \in 1..IPV6_ADDR_SIZE
  BY SizesAssumption, CreateAssumption
<1>2. level \in Nat \ {0} /\ level <= IPV6_ADDR_SIZE
  BY <1>1 DEF Levels
<1>3. level * BYTE_SIZE \in Nat /\ BYTE_SIZE * IPV6_ADDR_SIZE \in Nat
  BY <1>1, <1>2
<1>4. level * BYTE_SIZE <= BYTE_SIZE * IPV6_ADDR_SIZE
  BY <1>1, <1>2
<1>5. BYTE_SIZE <= BYTE_SIZE * IPV6_ADDR_SIZE
  BY <1>1
<1> QED
  BY <1>1, <1>2, <1>3, <1>4, <1>5 DEF BitsCovered, StepBits, MAX_DEPTH

\* The index of an address in the top table, and in any group, is a slot of it.
LEMMA SlotOfAddress ==
  ASSUME NEW ip \in Address, NEW level \in Levels, NEW t \in Tables,
         t = TBL24_IND <=> level = ADD_FIRST_BYTE
  PROVE  get_bitshift(ip, level) \in Slots(t)
<1> DEFINE width == StepBits(level)
<1>1. 2 ^ width \in Nat \ {0} /\ 2 ^ (MAX_DEPTH - BitsCovered(level)) \in Nat \ {0}
  BY BitsCoveredRange, PowersAssumption
<1>2. StepBits(IF t = TBL24_IND THEN ADD_FIRST_BYTE ELSE ADD_FIRST_BYTE + 1) = width
  BY BitsCoveredRange, CreateAssumption DEF StepBits, Levels
<1>3. ip \in Nat
  BY PowersAssumption DEF Address
<1>4. ip \div 2 ^ (MAX_DEPTH - BitsCovered(level)) \in Nat
  BY <1>1, <1>3
<1>5. get_bitshift(ip, level) \in 0..(2 ^ width - 1)
  BY <1>1, <1>4 DEF get_bitshift
<1> QED BY <1>2, <1>5 DEF Slots

\* The masked form of a prefix is a prefix.
LEMMA MaskedPrefix ==
  ASSUME NEW r, r.ip \in Address, r.depth \in Depth
  PROVE  Masked(r) \in Prefix
<1>1. r.depth \in 0..MAX_DEPTH
  BY DepthsAreNaturals DEF Depth
<1>2. ip6_mask_addr(r.ip, r.depth) \in Address
  BY <1>1, MaskAddress
<1> QED BY <1>2 DEF Masked, Prefix

\* Every depth ends at some level.
LEMMA LevelOfDepth ==
  ASSUME NEW depth \in Depth
  PROVE  LevelOf(depth) \in Levels
<1> DEFINE S == {n \in Levels : depth <= BitsCovered(n)}
<1>1. IPV6_ADDR_SIZE \in Levels /\ Levels \subseteq Nat
  BY SizesAssumption, CreateAssumption DEF Levels
<1>2. BitsCovered(IPV6_ADDR_SIZE) = MAX_DEPTH
  BY SizesAssumption DEF BitsCovered, MAX_DEPTH
<1>3. IPV6_ADDR_SIZE \in S
  BY <1>1, <1>2 DEF Depth
<1>4. PICK n \in S : \A k \in S : n <= k
  BY <1>1, <1>3, LeastNatural
<1>5. n = ADD_FIRST_BYTE \/ depth > BitsCovered(n - 1)
  <2> SUFFICES ASSUME n # ADD_FIRST_BYTE PROVE depth > BitsCovered(n - 1)
    OBVIOUS
  <2>1. n - 1 \in Levels
    BY CreateAssumption, SizesAssumption DEF Levels
  <2>2. n - 1 \notin S
    BY <1>1, <1>4
  <2>3. BitsCovered(n - 1) \in Nat /\ depth \in Nat
    BY <2>1, BitsCoveredRange DEF Depth
  <2> QED BY <2>1, <2>2, <2>3
<1> QED BY <1>4, <1>5 DEF LevelOf

-----------------------------------------------------------------------------
(* The pieces the tables are written with *)

LEMMA Constants ==
  /\ NUMBER_TBL8S \in Nat /\ MAX_RULES \in Nat \ {0} /\ REF_MOD \in Nat \ {0}
  /\ MAX_DEPTH \in Nat \ {0} /\ Depth \subseteq Nat
  /\ 2 ^ NEXT_HOP_BITS \in Nat \ {0} /\ NextHops \subseteq Nat
  /\ ADD_FIRST_BYTE \in Levels /\ TBL24_IND \in Tables /\ TBL24_IND \notin Groups
  /\ Groups \subseteq Nat /\ Groups \subseteq Tables
<1>1. BYTE_SIZE * IPV6_ADDR_SIZE \in Nat \ {0}
  BY SizesAssumption
<1> QED
  BY <1>1, SizesAssumption, CreateAssumption
  DEF MAX_DEPTH, Depth, Levels, Tables, Groups

\* What a leaf, a link and the zero entry contain has the type of an entry.
LEMMA LeafType ==
  ASSUME NEW hop \in Nat, NEW depth \in Depth
  PROVE  Leaf(hop, depth) \in Entry
<1>1. hop % 2 ^ NEXT_HOP_BITS \in Nat
  BY Constants
<1>2. depth \in 0..MAX_DEPTH
  BY Constants DEF Depth
<1> QED BY <1>1, <1>2 DEF Leaf, Entry

LEMMA LinkType ==
  ASSUME NEW g \in Groups
  PROVE  Link(g) \in Entry /\ Link(g).next_hop \in Groups
<1>1. g % 2 ^ NEXT_HOP_BITS \in 0..g
  BY Constants
<1>2. g % 2 ^ NEXT_HOP_BITS \in Groups
  BY <1>1, Constants DEF Groups
<1> QED BY <1>2, Constants DEF Link, Entry

LEMMA InvalidType == Invalid \in Entry
BY Constants DEF Invalid, Entry

\* Expanding a rule keeps the shape of every table.
TablesOK(T) == DOMAIN T = Tables /\ \A t \in Tables : T[t] \in [Slots(t) -> Entry]

LEMMA ZeroTablesType == TablesOK(ZeroTables)
BY InvalidType DEF TablesOK, ZeroTables

LEMMA WriteRuleType ==
  ASSUME TablesOK(tbl), NEW t, NEW cells, NEW hit, NEW depth, NEW e \in Entry
  PROVE  TablesOK(WriteRule(t, cells, hit, depth, e))
BY DEF TablesOK, WriteRule

\* What replaces a deleted rule's entries is an entry: the loop of
\* rule_find_less_specific ends at the greatest smaller depth with a rule.
LEMMA LessSpecificType ==
  ASSUME NEW key \in Prefix, rules \in [DOMAIN rules -> NextHops]
  PROVE  rule_find_less_specific(key) \in Entry
<1> DEFINE Shorter(d) == [ip |-> ip6_mask_addr(key.ip, d), depth |-> d]
           found == {d \in 1..(key.depth - 1) : Shorter(d) \in DOMAIN rules}
           best == CHOOSE d \in found : \A c \in found : c <= d
<1>1. CASE found = {}
  BY <1>1, InvalidType DEF rule_find_less_specific
<1>2. CASE found # {}
  <2>1. key.depth \in Nat /\ key.depth <= MAX_DEPTH
    BY Constants DEF Prefix, Depth
  <2>2. found \in SUBSET (0..key.depth)
    BY <2>1
  <2>3. \E d \in found : \A c \in found : c <= d
    <3> HIDE DEF found
    <3> QED BY <1>2, <2>1, <2>2, GreatestNatural
  <2>4. best \in found
    BY <2>3
  <2>5. rules[Shorter(best)] \in Nat
    BY <2>4, Constants
  <2>6. best \in Depth
    BY <2>1, <2>4, Constants DEF Depth
  <2>7. Leaf(rules[Shorter(best)], best) \in Entry
    BY <2>5, <2>6, LeafType
  <2> QED BY <1>2, <2>7 DEF rule_find_less_specific
<1> QED BY <1>1, <1>2

-----------------------------------------------------------------------------
(* The inductive invariant *)

\* TypeOK alone is not inductive: that a step reads its table inside its
\* bounds depends on the level the call has reached, and that used_rules does
\* not drop below zero on its being the number of rules.
IndInv == TypeOK /\ CallOK /\ RulesCounted

\* Facts about a call that every action needs in the same form.
LEMMA IdleType == Idle \in Call
<1>1. 2 ^ MAX_DEPTH \in Nat \ {0}
  BY Constants, PowersAssumption
<1>2. 0 \in Address /\ 1 \in Depth
  BY <1>1, Constants DEF Address, Depth
<1>3. <<>> \in Seq(Groups)
  OBVIOUS
<1> QED BY <1>2, <1>3, Constants, InvalidType DEF Idle, Call, Prefix

THEOREM CreateEstablishesInv == Create => IndInv
<1> SUFFICES ASSUME Create PROVE IndInv
  OBVIOUS
<1>1. TypeOK
  <2>1. DOMAIN rules = {}
    BY DEF Create, NoRules
  <2>2. rules \in [DOMAIN rules -> NextHops]
    BY <2>1 DEF Create, NoRules
  <2>3. TablesOK(tbl)
    BY ZeroTablesType DEF Create
  <2>4. tbl8_hdrs \in [Groups -> Header]
    BY Constants DEF Create, Header
  <2>5. op \in Call
    BY IdleType DEF Create
  <2>6. /\ used_rules \in 0..MAX_RULES /\ tbl8_pool \in [Groups -> Groups]
        /\ tbl8_pool_pos \in 0..NUMBER_TBL8S /\ ret.status \in Status
    BY Constants DEF Create, FullPool, Answer, Status
  <2> QED BY <2>1, <2>2, <2>3, <2>4, <2>5, <2>6 DEF TypeOK, TablesOK
<1>2. CallOK
  BY DEF Create, CallOK, Idle
<1>3. RulesCounted
  BY FS_EmptySet DEF Create, NoRules, RulesCounted
<1> QED BY <1>1, <1>2, <1>3 DEF IndInv

\* A step that only answers.
LEMMA AnswerKeepsInv ==
  ASSUME IndInv, UNCHANGED <<rules, used_rules, tables, op>>, ret'.status \in Status
  PROVE  IndInv'
BY DEF IndInv, TypeOK, CallOK, RulesCounted, tables

\* Rules inserted, whole and counted.
LEMMA WithRuleType ==
  ASSUME NEW key \in Prefix, NEW hop \in NextHops,
         DOMAIN rules \subseteq Prefix, rules \in [DOMAIN rules -> NextHops],
         rules' = WithRule(rules, key, hop)
  PROVE  /\ DOMAIN rules' = DOMAIN rules \cup {key}
         /\ DOMAIN rules' \subseteq Prefix
         /\ rules' \in [DOMAIN rules' -> NextHops]
BY DEF WithRule

LEMMA WithoutRulesType ==
  ASSUME NEW keys,
         DOMAIN rules \subseteq Prefix, rules \in [DOMAIN rules -> NextHops],
         rules' = WithoutRules(rules, keys)
  PROVE  /\ DOMAIN rules' = DOMAIN rules \ keys
         /\ DOMAIN rules' \subseteq Prefix
         /\ rules' \in [DOMAIN rules' -> NextHops]
BY DEF WithoutRules

\* A call returns, or goes on to insert rules again.
LEMMA ReturnKeepsCall ==
  ASSUME op' = Idle, ret' = Answer("ok")
  PROVE  op' \in Call /\ CallOK' /\ ret'.status \in Status
<1>1. Idle.pc = "idle" /\ Idle.todo = {}
  BY DEF Idle
<1>2. CallOK'
  BY <1>1 DEF CallOK
<1>3. ret'.status \in Status
  BY DEF Answer, Status
<1> QED BY <1>2, <1>3, IdleType

LEMMA RebuildKeepsCall ==
  ASSUME NEW todo \in SUBSET Prefix, todo \subseteq DOMAIN rules',
         op' = [Idle EXCEPT !.pc = "rebuild", !.todo = todo]
  PROVE  op' \in Call /\ CallOK'
<1>1. op' \in Call
  BY IdleType DEF Idle, Call
<1>2. op'.pc = "rebuild" /\ op'.todo = todo
  BY DEF Idle
<1>3. CallOK'
  BY <1>2 DEF CallOK
<1> QED BY <1>1, <1>3

LEMMA StartAddType ==
  ASSUME NEW key \in Prefix, NEW hop \in NextHops, NEW fresh \in BOOLEAN,
         NEW todo \in SUBSET Prefix, StartAdd(key, hop, fresh, todo)
  PROVE  op' \in Call /\ op'.pc = "add" /\ op'.todo = todo
         /\ op'.cur = TBL24_IND /\ op'.level = ADD_FIRST_BYTE
<1>1. Leaf(hop, key.depth) \in Entry
  BY LeafType, Constants DEF Prefix
<1> QED BY <1>1, IdleType DEF StartAdd, Call, Idle

LEMMA AddKeepsInv ==
  ASSUME IndInv, NEW r \in Routes, NEW hop \in NextHops, Add(r, hop)
  PROVE  IndInv'
<1> DEFINE key == Masked(r)
<1>1. key \in Prefix
  BY MaskedPrefix, CreateAssumption DEF Add
<1>2. /\ DOMAIN rules' = DOMAIN rules \cup {key}
      /\ DOMAIN rules' \subseteq Prefix
      /\ rules' \in [DOMAIN rules' -> NextHops]
  BY <1>1, WithRuleType DEF Add, IndInv, TypeOK
<1>3. RulesCounted'
  BY <1>2, FS_AddElement DEF Add, CountWith, IndInv, RulesCounted
<1>4. used_rules' \in 0..MAX_RULES
  <2>1. used_rules \in 0..MAX_RULES /\ MAX_RULES \in Nat
    BY Constants DEF IndInv, TypeOK
  <2>2. CASE key \in DOMAIN rules
    BY <2>1, <2>2 DEF Add, CountWith
  <2>3. CASE key \notin DOMAIN rules
    <3>1. used_rules # MAX_RULES /\ used_rules' = used_rules + 1
      BY <2>3 DEF Add, HasRoom, CountWith
    <3> QED BY <2>1, <3>1
  <2> QED BY <2>2, <2>3
<1>5. op' \in Call /\ op'.pc = "add" /\ op'.todo = {}
      /\ op'.cur = TBL24_IND /\ op'.level = ADD_FIRST_BYTE
  <2> DEFINE fresh == key \notin DOMAIN rules
  <2>1. StartAdd(key, hop, fresh, {})
    BY DEF Add
  <2>2. fresh \in BOOLEAN /\ {} \in SUBSET Prefix
    OBVIOUS
  <2> HIDE DEF fresh, key
  <2> QED BY <1>1, <2>1, <2>2, StartAddType
<1>6. TypeOK'
  BY <1>2, <1>4, <1>5 DEF Add, IndInv, TypeOK, tables, Answer, Status
<1>7. CallOK'
  BY <1>5 DEF CallOK
<1> QED BY <1>3, <1>6, <1>7 DEF IndInv

-----------------------------------------------------------------------------
(* The steps of an insertion *)

LEMMA AddEntryType ==
  ASSUME IndInv, op.pc = "add"
  PROVE  AddSlot \in Slots(op.cur) /\ AddEntry \in Entry
<1>1. op.key.ip \in Address /\ op.level \in Levels /\ op.cur \in Tables
  BY DEF IndInv, TypeOK, Call, Prefix
<1>2. op.cur = TBL24_IND <=> op.level = ADD_FIRST_BYTE
  BY DEF IndInv, CallOK
<1>3. AddSlot \in Slots(op.cur)
  BY <1>1, <1>2, SlotOfAddress DEF AddSlot
<1> QED BY <1>1, <1>3 DEF IndInv, TypeOK, AddEntry

\* A rule deeper than the bits covered so far has a level below.
LEMMA DescendType ==
  ASSUME IndInv, op.pc = "add", Deeper, NEW g \in Groups, Descend(g)
  PROVE  op' \in Call /\ op'.pc = "add" /\ op'.todo = op.todo
         /\ op'.cur # TBL24_IND /\ op'.level # ADD_FIRST_BYTE
<1>1. op \in Call /\ op.level \in Levels /\ op.key.depth \in Depth
  BY DEF IndInv, TypeOK, Call, Prefix
<1>2. op.level # IPV6_ADDR_SIZE
  <2>1. op.key.depth <= BYTE_SIZE * IPV6_ADDR_SIZE
    BY <1>1, Constants DEF Depth, MAX_DEPTH
  <2>2. IPV6_ADDR_SIZE * BYTE_SIZE = BYTE_SIZE * IPV6_ADDR_SIZE
    BY SizesAssumption
  <2>3. op.key.depth > op.level * BYTE_SIZE /\ op.key.depth \in Nat
    BY <1>1, Constants DEF Deeper, BitsCovered
  <2> QED BY <2>1, <2>2, <2>3, SizesAssumption
<1>3. op.level + 1 \in Levels /\ op.level + 1 # ADD_FIRST_BYTE
  BY <1>1, <1>2, SizesAssumption, CreateAssumption DEF Levels
<1>4. g \in Tables /\ g # TBL24_IND
  BY Constants
<1> QED BY <1>1, <1>3, <1>4 DEF Descend, Call

LEMMA ReferencedType ==
  ASSUME NEW hdrs \in [Groups -> Header], NEW t \in Tables
  PROVE  Referenced(hdrs, t) \in [Groups -> Header]
<1>1. CASE t = TBL24_IND
  BY <1>1 DEF Referenced
<1>2. CASE t # TBL24_IND
  <2>1. t \in Groups /\ hdrs[t] \in Header
    BY <1>2 DEF Tables
  <2>2. (hdrs[t].ref_cnt + 1) % REF_MOD \in 0..(REF_MOD - 1)
    BY <2>1, Constants DEF Header
  <2>3. [hdrs[t] EXCEPT !.ref_cnt = (@ + 1) % REF_MOD] \in Header
    BY <2>1, <2>2 DEF Header
  <2> QED BY <1>2, <2>1, <2>3 DEF Referenced
<1> QED BY <1>1, <1>2

LEMMA AddStepNewTableKeepsInv ==
  ASSUME IndInv, AddStepNewTable
  PROVE  IndInv'
<1> DEFINE g == tbl8_get
           header == init_tbl8_header(op.cur, AddSlot)
           content == [j \in Slots(g) |-> PushedDown(AddEntry)]
           filled == [tbl EXCEPT ![g] = content]
<1>1. op.pc = "add" /\ op.cur \in Tables
  BY DEF AddStepNewTable, IndInv, TypeOK, Call
<1>2. tbl8_pool_pos \in Groups /\ tbl8_pool_pos + 1 \in 0..NUMBER_TBL8S /\ g \in Groups
  BY Constants DEF AddStepNewTable, tbl8_get, IndInv, TypeOK, Groups
<1>3. AddSlot \in Slots(op.cur) /\ AddEntry \in Entry
  BY <1>1, AddEntryType
<1>4. TablesOK(tbl)
  BY DEF IndInv, TypeOK, TablesOK
<1>5. content \in [Slots(g) -> Entry]
  BY <1>3, InvalidType DEF PushedDown
<1>6. TablesOK(filled)
  BY <1>2, <1>4, <1>5, Constants DEF TablesOK
<1>7. TablesOK(tbl')
  <2>1. tbl' = [filled EXCEPT ![op.cur][AddSlot] = Link(g)]
    BY DEF AddStepNewTable
  <2>2. Link(g) \in Entry
    BY <1>2, LinkType
  <2>3. [filled[op.cur] EXCEPT ![AddSlot] = Link(g)] \in [Slots(op.cur) -> Entry]
    BY <1>1, <1>6, <2>2 DEF TablesOK
  <2>4. tbl' = [filled EXCEPT ![op.cur] = [filled[op.cur] EXCEPT ![AddSlot] = Link(g)]]
    BY <2>1
  <2> QED
    <3> HIDE DEF filled
    <3> QED BY <1>1, <1>6, <2>3, <2>4 DEF TablesOK
<1>8. tbl8_hdrs' \in [Groups -> Header]
  <2>1. AddSlot \in Nat
    BY <1>3 DEF Slots
  <2>2. header \in Header
    BY <1>1, <2>1, Constants DEF Header, init_tbl8_header
  <2>3. [tbl8_hdrs EXCEPT ![g] = header] \in [Groups -> Header]
    BY <2>2 DEF IndInv, TypeOK
  <2> QED BY <1>1, <2>3, ReferencedType DEF AddStepNewTable
<1>9. /\ op' \in Call /\ op'.pc = "add" /\ op'.todo = op.todo
      /\ op'.cur # TBL24_IND /\ op'.level # ADD_FIRST_BYTE
  BY <1>2, LinkType, DescendType DEF AddStepNewTable
<1>10. TypeOK'
  BY <1>2, <1>7, <1>8, <1>9 DEF AddStepNewTable, IndInv, TypeOK, TablesOK
<1>11. CallOK' /\ RulesCounted'
  BY <1>9 DEF AddStepNewTable, IndInv, CallOK, RulesCounted
<1> QED BY <1>10, <1>11 DEF IndInv

LEMMA AddStepDescendKeepsInv ==
  ASSUME IndInv, AddStepDescend
  PROVE  IndInv'
<1>1. op.pc = "add" /\ AddEntry \in Entry
  BY AddEntryType DEF AddStepDescend
<1>2. AddEntry.next_hop \in Groups
  BY <1>1 DEF AddStepDescend, IsLink, Entry
<1>3. /\ op' \in Call /\ op'.pc = "add" /\ op'.todo = op.todo
      /\ op'.cur # TBL24_IND /\ op'.level # ADD_FIRST_BYTE
  BY <1>2, DescendType DEF AddStepDescend
<1>4. TypeOK'
  BY <1>3 DEF AddStepDescend, IndInv, TypeOK, tables
<1>5. CallOK' /\ RulesCounted'
  BY <1>3 DEF AddStepDescend, IndInv, CallOK, RulesCounted
<1> QED BY <1>4, <1>5 DEF IndInv

LEMMA AddStepLastKeepsInv ==
  ASSUME IndInv, AddStepLast
  PROVE  IndInv'
<1>1. op \in Call /\ op.cur \in Tables /\ op.entry \in Entry
  BY DEF IndInv, TypeOK, Call
<1>2. TablesOK(tbl')
  <2>1. TablesOK(tbl)
    BY DEF IndInv, TypeOK, TablesOK
  <2> QED BY <1>1, <2>1, WriteRuleType DEF AddStepLast
<1>3. tbl8_hdrs' \in [Groups -> Header]
  BY <1>1, ReferencedType DEF AddStepLast, RuleCounted, IndInv, TypeOK
<1>4. op' \in Call /\ CallOK' /\ ret'.status \in Status
  <2>1. CASE op.todo = {}
    <3>1. op' = Idle /\ ret' = Answer("ok")
      BY <2>1 DEF AddStepLast
    <3> QED BY <3>1, ReturnKeepsCall
  <2>2. CASE op.todo # {}
    <3>1. op' = [Idle EXCEPT !.pc = "rebuild", !.todo = op.todo] /\ ret' = ret
      BY <2>2 DEF AddStepLast
    <3>2. op.todo \subseteq Prefix /\ op.todo \subseteq DOMAIN rules
      BY <1>1 DEF IndInv, CallOK, Call
    <3>3. rules' = rules /\ ret.status \in Status
      BY DEF AddStepLast, IndInv, TypeOK
    <3> QED BY <3>1, <3>2, <3>3, RebuildKeepsCall
  <2> QED BY <2>1, <2>2
<1>5. TypeOK'
  BY <1>2, <1>3, <1>4 DEF AddStepLast, IndInv, TypeOK, TablesOK
<1>6. RulesCounted'
  BY DEF AddStepLast, IndInv, RulesCounted
<1> QED BY <1>4, <1>5, <1>6 DEF IndInv
-----------------------------------------------------------------------------
(* Deletions *)

\* rule_delete counts off exactly the rules it removes.
LEMMA CountWithoutExact ==
  ASSUME IndInv, NEW keys,
         DOMAIN rules' = DOMAIN rules \ keys, used_rules' = CountWithout(keys)
  PROVE  RulesCounted' /\ used_rules' \in 0..MAX_RULES
<1> DEFINE left == DOMAIN rules \ keys
           gone == DOMAIN rules \cap keys
<1>1. /\ IsFiniteSet(DOMAIN rules) /\ used_rules = Cardinality(DOMAIN rules)
      /\ used_rules \in 0..MAX_RULES
  BY DEF IndInv, RulesCounted, TypeOK
<1>2. IsFiniteSet(left) /\ Cardinality(left) = Cardinality(DOMAIN rules) - Cardinality(gone)
  BY <1>1, FS_Difference
<1>3. IsFiniteSet(gone)
  BY <1>1, FS_Intersection
<1>4. Cardinality(left) \in Nat /\ Cardinality(gone) \in Nat
  BY <1>2, <1>3, FS_CardinalityType
<1>5. used_rules' = used_rules - Cardinality(gone) /\ DOMAIN rules' = left
  BY DEF CountWithout
<1> HIDE DEF left, gone
<1> QED BY <1>1, <1>2, <1>4, <1>5, Constants DEF RulesCounted

LEMMA DeleteKeepsInv ==
  ASSUME IndInv, NEW r \in Routes, Delete(r)
  PROVE  IndInv'
<1> DEFINE key == Masked(r)
           level == LevelOf(key.depth)
<1>1. key \in Prefix /\ key.depth \in Depth /\ key \in DOMAIN rules
  BY MaskedPrefix, CreateAssumption DEF Delete, Prefix
<1>2. level \in Levels /\ rule_find_less_specific(key) \in Entry
  BY <1>1, LevelOfDepth, LessSpecificType DEF IndInv, TypeOK
<1>3. /\ DOMAIN rules' = DOMAIN rules \ {key}
      /\ DOMAIN rules' \subseteq Prefix
      /\ rules' \in [DOMAIN rules' -> NextHops]
  BY WithoutRulesType DEF Delete, IndInv, TypeOK
<1>4. RulesCounted' /\ used_rules' \in 0..MAX_RULES
  BY <1>3, CountWithoutExact DEF Delete
<1>5. PICK t \in Tables :
        op' = [Idle EXCEPT !.pc = IF t = TBL24_IND THEN "clear" ELSE "unref",
                           !.key = key, !.cur = t, !.level = level,
                           !.entry = rule_find_less_specific(key)]
  BY DEF Delete
<1>6. op' \in Call /\ CallOK'
  <2> HIDE DEF key, level
  <2>1. op' \in Call
    BY <1>1, <1>2, <1>5, IdleType DEF Idle, Call
  <2>2. /\ op'.pc = IF t = TBL24_IND THEN "clear" ELSE "unref"
        /\ op'.cur = t /\ op'.todo = {}
    BY <1>5 DEF Idle
  <2>3. t # TBL24_IND => t \in Groups
    BY DEF Tables
  <2> QED BY <2>1, <2>2, <2>3 DEF CallOK
<1>7. UNCHANGED tables /\ ret' = Answer("pending")
  BY DEF Delete
<1>8. TypeOK'
  <2> HIDE DEF key, level
  <2>1. UNCHANGED <<tbl, tbl8_pool, tbl8_pool_pos, tbl8_hdrs>> /\ ret'.status \in Status
    BY <1>7 DEF tables, Answer, Status
  <2> QED BY <1>3, <1>4, <1>6, <2>1 DEF IndInv, TypeOK
<1> QED BY <1>4, <1>6, <1>8 DEF IndInv

\* A table is added to the chain of those to remove, or the chain is complete.
LEMMA DeleteUnrefKeepsInv ==
  ASSUME IndInv, DeleteUnref
  PROVE  IndInv'
<1> DEFINE count == (tbl8_hdrs[op.cur].ref_cnt - 1) % REF_MOD
           owner == tbl8_hdrs[op.cur].owner_tbl_ind
<1>1. op \in Call /\ op.pc = "unref" /\ op.cur \in Groups /\ op.chain \in Seq(Groups)
  BY DEF DeleteUnref, IndInv, TypeOK, CallOK, Call
<1>2. tbl8_hdrs[op.cur] \in Header
  BY <1>1 DEF IndInv, TypeOK
<1>3. owner \in Tables /\ count \in 0..(REF_MOD - 1)
  BY <1>2, Constants DEF Header
<1>4. tbl8_hdrs' \in [Groups -> Header]
  <2>1. [tbl8_hdrs[op.cur] EXCEPT !.ref_cnt = count] \in Header
    BY <1>2, <1>3 DEF Header
  <2>2. tbl8_hdrs' = [tbl8_hdrs EXCEPT ![op.cur] =
                        [tbl8_hdrs[op.cur] EXCEPT !.ref_cnt = count]]
    BY DEF DeleteUnref
  <2> QED BY <2>1, <2>2 DEF IndInv, TypeOK
<1>5. op' \in Call /\ CallOK'
  <2> HIDE DEF count, owner
  <2>0. op.todo \subseteq DOMAIN rules /\ rules' = rules
    BY DEF IndInv, CallOK, DeleteUnref
  <2>1. CASE op' = [op EXCEPT !.pc = IF op.chain = <<>> THEN "clear" ELSE "unlink"]
    <3>1. op' \in Call
      BY <1>1, <2>1 DEF Call
    <3>2. /\ op'.pc = IF op.chain = <<>> THEN "clear" ELSE "unlink"
          /\ op'.chain = op.chain /\ op'.todo = op.todo
      BY <1>1, <2>1 DEF Call
    <3> QED BY <2>0, <3>1, <3>2 DEF CallOK
  <2>2. CASE op' = [op EXCEPT !.chain = <<op.cur>> \o @,
                              !.pc = IF owner = TBL24_IND THEN "unlink" ELSE "unref",
                              !.cur = owner]
    <3>1. <<op.cur>> \o op.chain \in Seq(Groups) /\ <<op.cur>> \o op.chain # <<>>
      BY <1>1
    <3> DEFINE longer == <<op.cur>> \o op.chain
    <3>2. op' = [op EXCEPT !.chain = longer,
                           !.pc = IF owner = TBL24_IND THEN "unlink" ELSE "unref",
                           !.cur = owner]
      BY <2>2
    <3> HIDE DEF longer
    <3>3. op' \in Call
      BY <1>1, <1>3, <3>1, <3>2 DEF Call, longer
    <3>4. /\ op'.pc = IF owner = TBL24_IND THEN "unlink" ELSE "unref"
          /\ op'.chain = longer /\ op'.todo = op.todo /\ op'.cur = owner
      BY <1>1, <3>2 DEF Call
    <3>5. owner # TBL24_IND => owner \in Groups
      BY <1>3 DEF Tables
    <3> QED BY <2>0, <3>1, <3>3, <3>4, <3>5 DEF CallOK, longer
  <2> QED BY <2>1, <2>2 DEF DeleteUnref, count, owner
<1>6. TypeOK'
  BY <1>4, <1>5 DEF DeleteUnref, IndInv, TypeOK
<1>7. RulesCounted'
  BY DEF DeleteUnref, IndInv, RulesCounted
<1> QED BY <1>5, <1>6, <1>7 DEF IndInv

LEMMA DeleteUnlinkKeepsInv ==
  ASSUME IndInv, DeleteUnlink
  PROVE  IndInv'
<1> DEFINE g == Head(op.chain)
           header == tbl8_hdrs[g]
<1>1. /\ op \in Call /\ op.pc = "unlink" /\ op.chain \in Seq(Groups)
      /\ op.chain # <<>> /\ op.entry \in Entry
  BY DEF DeleteUnlink, IndInv, TypeOK, CallOK, Call
<1>2. g \in Groups /\ Tail(op.chain) \in Seq(Groups)
  BY <1>1
<1>3. TablesOK(tbl')
  <2>1. TablesOK(tbl)
    BY DEF IndInv, TypeOK, TablesOK
  <2> DEFINE t == header.owner_tbl_ind
             written == [tbl[t] EXCEPT ![header.owner_entry_ind] = op.entry]
  <2>2. t \in Tables
    BY <1>2 DEF IndInv, TypeOK, Header
  <2>3. written \in [Slots(t) -> Entry]
    BY <1>1, <2>1, <2>2 DEF TablesOK
  <2>4. tbl' = [tbl EXCEPT ![t] = written]
    BY DEF DeleteUnlink
  <2> HIDE DEF t, written
  <2> QED BY <2>1, <2>3, <2>4 DEF TablesOK
<1>4. tbl8_pool' \in [Groups -> Groups] /\ tbl8_pool_pos' \in 0..NUMBER_TBL8S
  <2>1. tbl8_pool \in [Groups -> Groups] /\ tbl8_pool_pos \in 0..NUMBER_TBL8S
    BY DEF IndInv, TypeOK
  <2>2. CASE tbl8_pool_pos = 0
    BY <2>1, <2>2 DEF DeleteUnlink, tbl8_put
  <2>3. CASE tbl8_pool_pos # 0
    <3>1. /\ tbl8_pool_pos' = tbl8_pool_pos - 1
          /\ tbl8_pool' = [tbl8_pool EXCEPT ![tbl8_pool_pos - 1] = g]
      BY <2>3 DEF DeleteUnlink, tbl8_put
    <3>2. tbl8_pool_pos - 1 \in 0..NUMBER_TBL8S
      BY <2>1, <2>3, Constants
    <3>3. g \in Groups
      BY <1>2
    <3> HIDE DEF g
    <3> QED BY <2>1, <3>1, <3>2, <3>3
  <2> QED BY <2>2, <2>3
<1>5. op' \in Call /\ CallOK' /\ ret'.status \in Status
  <2>1. CASE Tail(op.chain) = <<>>
    <3>1. op' = Idle /\ ret' = Answer("ok")
      BY <2>1 DEF DeleteUnlink
    <3> QED BY <3>1, ReturnKeepsCall
  <2>2. CASE Tail(op.chain) # <<>>
    <3> DEFINE rest == Tail(op.chain)
    <3>1. op' = [op EXCEPT !.chain = rest] /\ ret' = ret
      BY <2>2 DEF DeleteUnlink
    <3>2. op' \in Call /\ op'.pc = "unlink" /\ op'.chain # <<>> /\ op'.todo = op.todo
      BY <1>1, <1>2, <2>2, <3>1 DEF Call
    <3>3. op.todo \subseteq DOMAIN rules /\ rules' = rules /\ ret.status \in Status
      BY DEF IndInv, TypeOK, CallOK, DeleteUnlink
    <3> QED BY <3>1, <3>2, <3>3 DEF CallOK
  <2> QED BY <2>1, <2>2
<1>6. TypeOK'
  BY <1>3, <1>4, <1>5 DEF DeleteUnlink, IndInv, TypeOK, TablesOK
<1>7. RulesCounted'
  BY DEF DeleteUnlink, IndInv, RulesCounted
<1> QED BY <1>5, <1>6, <1>7 DEF IndInv

LEMMA DeleteClearKeepsInv ==
  ASSUME IndInv, DeleteClear
  PROVE  IndInv'
<1>1. op \in Call /\ op.entry \in Entry
  BY DEF IndInv, TypeOK, Call
<1>2. TablesOK(tbl')
  <2>1. TablesOK(tbl)
    BY DEF IndInv, TypeOK, TablesOK
  <2> QED BY <1>1, <2>1, WriteRuleType DEF DeleteClear
<1>3. op' \in Call /\ CallOK' /\ ret'.status \in Status
  BY ReturnKeepsCall DEF DeleteClear
<1>4. TypeOK'
  BY <1>2, <1>3 DEF DeleteClear, IndInv, TypeOK, TablesOK
<1>5. RulesCounted'
  BY DEF DeleteClear, IndInv, RulesCounted
<1> QED BY <1>3, <1>4, <1>5 DEF IndInv

\* The tables after create and after the deletions of everything.
LEMMA ResetTablesType ==
  ASSUME IndInv, ResetTables
  PROVE  /\ TablesOK(tbl') /\ tbl8_pool' \in [Groups -> Groups]
         /\ tbl8_pool_pos' \in 0..NUMBER_TBL8S /\ tbl8_hdrs' \in [Groups -> Header]
BY ZeroTablesType, Constants DEF ResetTables, FullPool, IndInv, TypeOK

LEMMA DeleteAllKeepsInv ==
  ASSUME IndInv, DeleteAll
  PROVE  IndInv'
<1>1. DOMAIN rules' = {} /\ used_rules' = 0
  BY DEF DeleteAll, NoRules
<1>2. RulesCounted'
  BY <1>1, FS_EmptySet DEF RulesCounted
<1>3. op = Idle /\ op' = Idle /\ ret' = Answer("ok")
  BY DEF DeleteAll, IndInv, CallOK
<1>4. op' \in Call /\ CallOK' /\ ret'.status \in Status
  BY <1>3, ReturnKeepsCall
<1>5. rules' \in [DOMAIN rules' -> NextHops]
  BY <1>1 DEF DeleteAll, NoRules
<1>6. TypeOK'
  BY <1>1, <1>4, <1>5, ResetTablesType, Constants DEF DeleteAll, TypeOK, TablesOK
<1> QED BY <1>2, <1>4, <1>6 DEF IndInv

LEMMA DeleteBulkKeepsInv ==
  ASSUME IndInv, NEW keys, DeleteBulk(keys)
  PROVE  IndInv'
<1> DEFINE left == DOMAIN rules \ keys
<1>1. /\ DOMAIN rules' = left
      /\ DOMAIN rules' \subseteq Prefix
      /\ rules' \in [DOMAIN rules' -> NextHops]
  BY WithoutRulesType DEF DeleteBulk, IndInv, TypeOK
<1>2. RulesCounted' /\ used_rules' \in 0..MAX_RULES
  BY <1>1, CountWithoutExact DEF DeleteBulk
<1>3. op' \in Call /\ CallOK' /\ ret'.status \in Status
  <2>1. CASE left = {}
    <3>1. op' = Idle /\ ret' = Answer("ok")
      BY <2>1 DEF DeleteBulk, IndInv, CallOK
    <3> QED BY <3>1, ReturnKeepsCall
  <2>2. CASE left # {}
    <3>1. op' = [Idle EXCEPT !.pc = "rebuild", !.todo = left] /\ ret' = Answer("pending")
      BY <2>2 DEF DeleteBulk
    <3> QED BY <1>1, <3>1, RebuildKeepsCall DEF Answer, Status
  <2> QED BY <2>1, <2>2
<1>4. TypeOK'
  BY <1>1, <1>2, <1>3, ResetTablesType DEF DeleteBulk, TypeOK, TablesOK
<1> QED BY <1>2, <1>3, <1>4 DEF IndInv

LEMMA RebuildKeepsInv ==
  ASSUME IndInv, NEW key, Rebuild(key)
  PROVE  IndInv'
<1>1. op.todo \subseteq DOMAIN rules /\ key \in op.todo
  BY DEF Rebuild, IndInv, CallOK
<1>2. key \in Prefix /\ rules[key] \in NextHops /\ op.todo \ {key} \in SUBSET Prefix
  BY <1>1 DEF IndInv, TypeOK
<1>3. /\ op' \in Call /\ op'.pc = "add" /\ op'.todo = op.todo \ {key}
      /\ op'.cur = TBL24_IND /\ op'.level = ADD_FIRST_BYTE
  BY <1>2, StartAddType DEF Rebuild
<1>4. TypeOK'
  BY <1>3 DEF Rebuild, IndInv, TypeOK, tables
<1>5. CallOK' /\ RulesCounted'
  BY <1>1, <1>3 DEF Rebuild, IndInv, CallOK, RulesCounted
<1> QED BY <1>4, <1>5 DEF IndInv

-----------------------------------------------------------------------------
(* Lookup, rejections and the theorems *)

LEMMA LookupKeepsInv ==
  ASSUME IndInv, NEW ip, Lookup(ip)
  PROVE  IndInv'
<1>1. ret'.status \in Status
  BY DEF Lookup, Status
<1> QED BY <1>1, AnswerKeepsInv DEF Lookup

LEMMA RejectKeepsInv ==
  ASSUME IndInv, NEW status \in Status, Reject(status)
  PROVE  IndInv'
<1>1. ret'.status \in Status
  BY DEF Reject, Answer
<1> QED BY <1>1, AnswerKeepsInv DEF Reject

\* Every call and every step of a call keeps the invariant, whatever mix of
\* operations the callers use.
THEOREM StepKeepsInv == IndInv /\ [AnyNext]_vars => IndInv'
<1> SUFFICES ASSUME IndInv, [AnyNext]_vars PROVE IndInv'
  OBVIOUS
<1>1. CASE Update
  <2>1. ASSUME NEW r \in Routes, RejectDepth(r) PROVE IndInv'
    BY <2>1, RejectKeepsInv DEF RejectDepth, Status
  <2>2. ASSUME NEW r \in Routes, AddThrows(r) PROVE IndInv'
    BY <2>2, RejectKeepsInv DEF AddThrows, Status
  <2>3. ASSUME NEW r \in Routes, AddNoSpace(r) PROVE IndInv'
    BY <2>3, RejectKeepsInv DEF AddNoSpace, Status
  <2>4. ASSUME NEW r \in Routes, NEW hop \in NextHops, Add(r, hop) PROVE IndInv'
    BY <2>4, AddKeepsInv
  <2>5. CASE DeleteAll
    BY <2>5, DeleteAllKeepsInv
  <2> QED BY <1>1, <2>1, <2>2, <2>3, <2>4, <2>5 DEF Update
<1>2. CASE Remove
  <2>1. ASSUME NEW r \in Routes, DeleteAbsent(r) PROVE IndInv'
    BY <2>1, RejectKeepsInv DEF DeleteAbsent, Status
  <2>2. ASSUME NEW r \in Routes, Delete(r) PROVE IndInv'
    BY <2>2, DeleteKeepsInv
  <2> QED BY <1>2, <2>1, <2>2 DEF Remove
<1>3. CASE AddStep
  BY <1>3, AddStepNewTableKeepsInv, AddStepDescendKeepsInv, AddStepLastKeepsInv DEF AddStep
<1>4. CASE DeleteStep
  BY <1>4, DeleteUnrefKeepsInv, DeleteUnlinkKeepsInv, DeleteClearKeepsInv DEF DeleteStep
<1>5. CASE Bulk
  BY <1>5, DeleteBulkKeepsInv, RebuildKeepsInv DEF Bulk
<1>6. CASE Lookups
  BY <1>6, LookupKeepsInv DEF Lookups
<1>7. CASE UNCHANGED vars
  BY <1>7 DEF vars, IndInv, TypeOK, CallOK, RulesCounted
<1> QED BY <1>1, <1>2, <1>3, <1>4, <1>5, <1>6, <1>7 DEF AnyNext, Next

\* With every operation in the mix, the variables keep their types: no index
\* leaves its table, no counter its range, and no entry's group is one that
\* the trie was not given.
THEOREM TypeCorrect == AnySpec => []TypeOK
<1>1. IndInv => TypeOK
  BY DEF IndInv
<1> QED BY <1>1, CreateEstablishesInv, StepKeepsInv, PTL DEF AnySpec

\* The locals of a running call fit its progress.
THEOREM CallsConsistent == AnySpec => []CallOK
<1>1. IndInv => CallOK
  BY DEF IndInv
<1> QED BY <1>1, CreateEstablishesInv, StepKeepsInv, PTL DEF AnySpec

\* used_rules never drifts from the number of rules in the table.
THEOREM RulesCountedExactly == AnySpec => []RulesCounted
<1>1. IndInv => RulesCounted
  BY DEF IndInv
<1> QED BY <1>1, CreateEstablishesInv, StepKeepsInv, PTL DEF AnySpec

\* The same for callers that delete one rule at a time, and only in bulk.
COROLLARY SpecIsAnySpec == (Spec => AnySpec) /\ (BulkSpec => AnySpec)
<1>1. [Next]_vars => [AnyNext]_vars
  BY DEF AnyNext
<1>2. [BulkNext]_vars => [AnyNext]_vars
  BY DEF AnyNext, Next, BulkNext
<1> QED BY <1>1, <1>2, PTL DEF Spec, BulkSpec, AnySpec

-----------------------------------------------------------------------------
(* The dictionary of module Lpm *)

\* A call runs exactly while its answer is pending.
PendingOK == op.pc # "idle" <=> ret = Promise!Answer("pending")

LEMMA SameWords ==
  /\ \A status : Promise!Answer(status) = Answer(status)
  /\ \A r : Promise!Masked(r) = Masked(r)
  /\ \A R, keys : Promise!WithoutRules(R, keys) = WithoutRules(R, keys)
  /\ \A R, key, hop : Promise!WithRule(R, key, hop) = WithRule(R, key, hop)
  /\ \A R, ip : Promise!LongestMatch(R, ip) = LongestMatch(R, ip)
  /\ Promise!NoRules = NoRules /\ Promise!Depth = Depth /\ Promise!Address = Address
  /\ Promise!MISS = MISS
  /\ \A S : Promise!Cardinality(S) = Cardinality(S)
BY DEF Promise!Answer, Answer, Promise!Masked, Masked, Promise!ip6_mask_addr, ip6_mask_addr,
       Promise!MAX_DEPTH, MAX_DEPTH, Promise!WithoutRules, WithoutRules, Promise!WithRule,
       WithRule, Promise!LongestMatch, LongestMatch, Promise!Matching, Matching,
       Promise!NoRules, NoRules, Promise!Depth, Depth, Promise!Address, Address,
       Promise!MISS, MISS, Promise!Cardinality, Cardinality,
       Promise!IsFiniteSet, IsFiniteSet

LEMMA AnswersDiffer ==
  /\ \A status : status # "pending" => Answer(status) # Answer("pending")
  /\ \A status, hop : status # "pending" =>
       [status |-> status, hop |-> hop] # Answer("pending")
BY DEF Answer

\* The beginning of a call: refused, done at once, or left running.
LEMMA CallsRefine ==
  ASSUME IndInv, IndInv', PendingOK, Update \/ Remove
  PROVE  Promise!Next /\ PendingOK'
<1> USE SameWords DEF Promise!Busy
<1>1. op.pc = "idle" /\ ~Promise!Busy
  BY DEF Update, Remove, RejectDepth, AddThrows, AddNoSpace, Add, DeleteAll, DeleteAbsent,
         Delete, PendingOK
<1>2. ASSUME NEW status, status # "pending", Reject(status)
      PROVE  Promise!Reject(status) /\ PendingOK'
  BY <1>1, <1>2, AnswersDiffer DEF Reject, Promise!Reject, PendingOK
<1>3. ASSUME NEW r \in Routes, RejectDepth(r)
      PROVE  Promise!Next /\ PendingOK'
  <2>1. r.depth \notin Depth /\ Reject("EINVAL")
    BY <1>3 DEF RejectDepth
  <2> QED BY <1>2, <2>1 DEF Promise!Next
<1>4. ASSUME NEW r \in Routes, AddThrows(r)
      PROVE  Promise!Next /\ PendingOK'
  <2>1. r.depth \in Depth /\ Reject("exception")
    BY <1>4 DEF AddThrows
  <2> QED BY <1>2, <2>1 DEF Promise!Next
<1>5. ASSUME NEW r \in Routes, AddNoSpace(r)
      PROVE  Promise!Next /\ PendingOK'
  <2>1. r.depth \in Depth /\ Reject("ENOSPC") /\ Masked(r) \notin DOMAIN rules
        /\ Cardinality(DOMAIN rules) = MAX_RULES
    BY <1>5 DEF AddNoSpace, HasRoom, IndInv, RulesCounted
  <2> QED BY <1>2, <2>1 DEF Promise!Next
<1>6. ASSUME NEW r \in Routes, NEW hop \in NextHops, Add(r, hop)
      PROVE  Promise!Next /\ PendingOK'
  <2>1. /\ r.depth \in Depth /\ rules' = WithRule(rules, Masked(r), hop)
        /\ ret' = Answer("pending") /\ op'.pc = "add"
    BY <1>6 DEF Add, StartAdd, Idle
  <2>2. Cardinality(DOMAIN rules') <= MAX_RULES
    BY Constants DEF IndInv, TypeOK, RulesCounted
  <2> QED BY <1>1, <2>1, <2>2 DEF Promise!Next, Promise!Add, PendingOK
<1>7. ASSUME DeleteAll
      PROVE  Promise!Next /\ PendingOK'
  BY <1>1, <1>7, AnswersDiffer DEF DeleteAll, Promise!Next, Promise!DeleteAll, PendingOK
<1>8. ASSUME NEW r \in Routes, DeleteAbsent(r)
      PROVE  Promise!Next /\ PendingOK'
  <2>1. r.depth \in Depth /\ Reject("ENOENT") /\ Masked(r) \notin DOMAIN rules
    BY <1>8 DEF DeleteAbsent
  <2> QED BY <1>2, <2>1 DEF Promise!Next
<1>9. ASSUME NEW r \in Routes, Delete(r)
      PROVE  Promise!Next /\ PendingOK'
  <2>1. /\ r.depth \in Depth /\ Masked(r) \in DOMAIN rules
        /\ rules' = WithoutRules(rules, {Masked(r)}) /\ ret' = Answer("pending")
    BY <1>9 DEF Delete
  <2>2. op'.pc # "idle"
    BY <1>9 DEF Delete, Idle
  <2>3. Promise!Delete(r)
    BY <1>1, <2>1 DEF Promise!Delete
  <2> QED BY <2>1, <2>2, <2>3 DEF Promise!Next, PendingOK
<1> QED BY <1>3, <1>4, <1>5, <1>6, <1>7, <1>8, <1>9 DEF Update, Remove

\* A bulk deletion, and the steps within calls: the last one returns, the
\* others show nothing.
LEMMA StepsRefine ==
  ASSUME IndInv, PendingOK, AddStep \/ DeleteStep \/ Bulk
  PROVE  [Promise!Next]_(Promise!vars) /\ PendingOK'
<1> USE SameWords
<1>1. Idle.pc = "idle"
  BY DEF Idle
<1>2. ASSUME op.pc # "idle", rules' = rules, op' = Idle /\ ret' = Answer("ok")
      PROVE  Promise!Next /\ PendingOK'
  <2>1. Promise!Return
    BY <1>2 DEF Promise!Return, Promise!Busy, PendingOK
  <2> QED BY <1>1, <1>2, <2>1, AnswersDiffer DEF Promise!Next, PendingOK
<1>3. ASSUME op.pc # "idle", op'.pc # "idle", UNCHANGED <<rules, ret>>
      PROVE  UNCHANGED Promise!vars /\ PendingOK'
  BY <1>3 DEF Promise!vars, PendingOK
<1>4. CASE AddStep
  <2>1. op \in Call /\ op.pc = "add" /\ rules' = rules
    BY <1>4 DEF AddStep, AddStepNewTable, AddStepDescend, AddStepLast, IndInv, TypeOK
  <2>2. \/ op' = Idle /\ ret' = Answer("ok")
        \/ op'.pc # "idle" /\ ret' = ret
    BY <1>4, <2>1 DEF AddStep, AddStepNewTable, AddStepDescend, AddStepLast, Descend,
                      Call, Idle
  <2> QED BY <1>2, <1>3, <2>1, <2>2
<1>5. CASE DeleteStep
  <2>1. op \in Call /\ op.pc # "idle" /\ rules' = rules
    BY <1>5 DEF DeleteStep, DeleteUnref, DeleteUnlink, DeleteClear, IndInv, TypeOK
  <2>2. \/ op' = Idle /\ ret' = Answer("ok")
        \/ op'.pc # "idle" /\ ret' = ret
    BY <1>5, <2>1 DEF DeleteStep, DeleteUnref, DeleteUnlink, DeleteClear, Call
  <2> QED BY <1>2, <1>3, <2>1, <2>2
<1>6. ASSUME NEW keys, DeleteBulk(keys)
      PROVE  Promise!Next /\ PendingOK'
  <2>1. op.pc = "idle" /\ ~Promise!Busy
    BY <1>6 DEF DeleteBulk, PendingOK, Promise!Busy
  <2>2. /\ DOMAIN rules' \subseteq DOMAIN rules
        /\ rules' = [p \in DOMAIN rules' |-> rules[p]]
    BY <1>6 DEF DeleteBulk, WithoutRules
  <2>3. \/ op' = op /\ ret' = Answer("ok")
        \/ op'.pc = "rebuild" /\ ret' = Answer("pending")
    BY <1>6 DEF DeleteBulk, Idle
  <2> QED BY <2>1, <2>2, <2>3, AnswersDiffer DEF Promise!Next, Promise!DeleteBulk, PendingOK
<1>7. ASSUME NEW key, Rebuild(key)
      PROVE  UNCHANGED Promise!vars /\ PendingOK'
  <2>1. op.pc # "idle" /\ op'.pc # "idle" /\ UNCHANGED <<rules, ret>>
    BY <1>7 DEF Rebuild, StartAdd, Idle
  <2> QED BY <1>3, <2>1
<1> QED BY <1>4, <1>5, <1>6, <1>7 DEF Bulk

\* Between calls, a lookup is the dictionary's if the tables agree with the rules.
LEMMA LookupsRefine ==
  ASSUME PendingOK, Lookups
  PROVE  PendingOK' /\ (LookupIsLongestMatch => Promise!Next)
<1> USE SameWords
<1>1. PICK ip \in Probes : Lookup(ip)
  BY DEF Lookups
<1>2. op.pc = "idle" /\ ~Promise!Busy /\ ip \in Address
  BY <1>1, CreateAssumption DEF Lookup, PendingOK, Promise!Busy
<1> DEFINE status == IF LookupHop(ip) = MISS THEN "ENOENT" ELSE "ok"
<1>3. /\ ret' = [status |-> status, hop |-> LookupHop(ip)]
      /\ status # "pending" /\ rules' = rules /\ op' = op
  BY <1>1 DEF Lookup
<1>4. PendingOK'
  <2> HIDE DEF status
  <2> QED BY <1>2, <1>3, AnswersDiffer DEF PendingOK
<1>5. ASSUME LookupIsLongestMatch PROVE Promise!Next
  <2>1. LookupHop(ip) = LongestMatch(rules, ip)
    BY <1>2, <1>5 DEF LookupIsLongestMatch, Quiet
  <2>2. Promise!Lookup(ip)
    BY <1>2, <1>3, <2>1 DEF Promise!Lookup
  <2> QED BY <1>2, <2>2 DEF Promise!Next
<1> QED BY <1>4, <1>5

RefinementInv == IndInv /\ PendingOK

LEMMA CreateRefines == Create => RefinementInv /\ Promise!Init
BY CreateEstablishesInv, SameWords, AnswersDiffer
   DEF Create, RefinementInv, PendingOK, Promise!Init, Idle

LEMMA NextRefines ==
  RefinementInv /\ [AnyNext]_vars =>
    /\ RefinementInv'
    /\ [Lookups \/ Promise!Next]_(Promise!vars)
    /\ LookupIsLongestMatch => [Promise!Next]_(Promise!vars)
<1> SUFFICES ASSUME RefinementInv, [AnyNext]_vars
             PROVE  /\ PendingOK'
                    /\ [Lookups \/ Promise!Next]_(Promise!vars)
                    /\ LookupIsLongestMatch => [Promise!Next]_(Promise!vars)
  BY StepKeepsInv DEF RefinementInv
<1>1. IndInv /\ PendingOK /\ IndInv'
  BY StepKeepsInv DEF RefinementInv
<1>2. CASE Update \/ Remove
  BY <1>1, <1>2, CallsRefine
<1>3. CASE AddStep \/ DeleteStep \/ Bulk
  BY <1>1, <1>3, StepsRefine
<1>4. CASE Lookups
  BY <1>1, <1>4, LookupsRefine
<1>5. CASE UNCHANGED vars
  BY <1>1, <1>5 DEF vars, Promise!vars, PendingOK
<1> QED BY <1>2, <1>3, <1>4, <1>5 DEF AnyNext, Next

\* Every call but a lookup is one of the dictionary's: an update takes effect
\* at one step, whole, and returns at a later one, whatever the tables hold,
\* and a refused one leaves the rules as they were.
THEOREM UpdatesImplementLpm ==
  AnySpec => Promise!Init /\ [][Lookups \/ Promise!Next]_(Promise!vars)
BY CreateRefines, NextRefines, PTL DEF AnySpec

\* What the tables add to that is one invariant: callers that see every lookup
\* between calls agree with the rules see the dictionary.
THEOREM LookupsCompletePromise ==
  AnySpec /\ []LookupIsLongestMatch => ImplementsLpm
BY CreateRefines, NextRefines, PTL DEF AnySpec, ImplementsLpm, Promise!Spec

-----------------------------------------------------------------------------
(* The groups: none is linked twice or linked while it is in the pool, the *)
(* owner of a linked group is the entry that links it, and a deletion      *)
(* unlinks what is linked.  For every size of address and table, and for   *)
(* pools whose indexes fit the next_hop field.                             *)

HIDE DEF MISS, TBL24_IND

\* The tables in use: the groups outside the pool, and tbl24.
Taken == Groups \ Free
Live  == Taken \cup {TBL24_IND}

Owner(g) == tbl8_hdrs[g].owner_tbl_ind
OwnerEntry(g) == tbl8_hdrs[g].owner_entry_ind

\* Beyond it a link names another group than the one that was taken.
GroupsFit == NUMBER_TBL8S <= 2 ^ NEXT_HOP_BITS

-----------------------------------------------------------------------------
(* The inductive invariant *)

\* The stack of free groups holds no group twice.
PoolOnce ==
  \A i, j \in tbl8_pool_pos..(NUMBER_TBL8S - 1) : tbl8_pool[i] = tbl8_pool[j] => i = j

\* What a table in use links is in use, and its header names the entry.
LinksKept ==
  \A t \in Live : \A j \in Slots(t) :
    IsLink(tbl[t][j]) =>
      /\ tbl[t][j].next_hop \in Taken
      /\ Owner(tbl[t][j].next_hop) = t
      /\ OwnerEntry(tbl[t][j].next_hop) = j

\* While references are given back: the groups below op.cur on the walk to the
\* deleted rule have lost their last one.
ChainOnWalk ==
  \E k \in Levels :
    /\ op.cur = Walk(op.key.ip)[k]
    /\ \A i \in DOMAIN op.chain : k + i \in Levels /\ op.chain[i] = Walk(op.key.ip)[k + i]

\* The groups still to be unlinked are linked, each from a table of its own.
\* That table may be one that has just been put back.
ChainLinked ==
  /\ \A i \in DOMAIN op.chain :
       /\ op.chain[i] \in Taken
       /\ tbl[Owner(op.chain[i])][OwnerEntry(op.chain[i])].ext_entry
  /\ \A i, j \in DOMAIN op.chain :
       i # j => op.chain[i] # op.chain[j] /\ Owner(op.chain[i]) # Owner(op.chain[j])

CallLinks ==
  /\ ~op.entry.ext_entry
  /\ op.pc = "add" => op.cur \in Live
  /\ op.pc = "unref" => ChainOnWalk
  /\ op.pc = "unlink" => ChainLinked
  /\ op.pc \notin {"unref", "unlink"} => op.chain = <<>>

LinksInv == IndInv /\ PoolOnce /\ LinksKept /\ CallLinks

LEMMA LiveTables ==
  /\ Taken \subseteq Groups /\ Live \subseteq Tables /\ TBL24_IND \notin Taken
  /\ NO_TABLE \notin Tables
<1>1. NO_TABLE \notin Nat /\ NO_TABLE # TBL24_IND
  BY DEF NO_TABLE, TBL24_IND
<1> QED BY <1>1, Constants DEF Taken, Live, Tables

LEMMA LevelRange ==
  /\ ADD_FIRST_BYTE \in Nat \ {0} /\ IPV6_ADDR_SIZE \in Nat
  /\ ADD_FIRST_BYTE <= IPV6_ADDR_SIZE
  /\ Levels = ADD_FIRST_BYTE..IPV6_ADDR_SIZE
BY SizesAssumption, CreateAssumption DEF Levels

-----------------------------------------------------------------------------
(* The walk of an address *)

\* The table one level below a table, on the way of an address.
BelowIn(T, t, ip, n) ==
  LET e == T[t][get_bitshift(ip, n - 1)]
  IN  IF t # NO_TABLE /\ IsLink(e) THEN e.next_hop ELSE NO_TABLE

Below(t, ip, n) == BelowIn(tbl, t, ip, n)

LEMMA EntryOnTheWay ==
  ASSUME IndInv, NEW ip \in Address, NEW n \in Levels, NEW t \in Tables,
         t = TBL24_IND <=> n = ADD_FIRST_BYTE
  PROVE  /\ get_bitshift(ip, n) \in Slots(t)
         /\ tbl[t][get_bitshift(ip, n)] \in Entry
BY SlotOfAddress DEF IndInv, TypeOK

\* An entry with the flag of a link is one.
LEMMA LinkEntry ==
  ASSUME NEW e \in Entry
  PROVE  /\ IsLink(e) <=> e.ext_entry
         /\ IsLink(e) => e.next_hop \in Groups
BY DEF Entry, IsLink

\* The recursion of WalkIn has a solution, so that WalkIn is one; only tbl24
\* is the table of the first level, and all others are groups.
LEMMA WalkInUnfolds ==
  ASSUME NEW T, TablesOK(T), NEW ip \in Address
  PROVE  /\ WalkIn(T, ip)[ADD_FIRST_BYTE] = TBL24_IND
         /\ \A n \in Levels \ {ADD_FIRST_BYTE} :
              WalkIn(T, ip)[n] = BelowIn(T, WalkIn(T, ip)[n - 1], ip, n)
         /\ \A n \in Levels : /\ WalkIn(T, ip)[n] \in Tables \cup {NO_TABLE}
                              /\ WalkIn(T, ip)[n] = TBL24_IND <=> n = ADD_FIRST_BYTE
<1> DEFINE V == Tables \cup {NO_TABLE}
           \* the value away from the tables a walk may meet is of no concern
           next(n, t) == IF BelowIn(T, t, ip, n) \in V THEN BelowIn(T, t, ip, n) ELSE NO_TABLE
           lo == ADD_FIRST_BYTE
           hi == IPV6_ADDR_SIZE
           step == [n \in (lo + 1)..hi |-> [t \in V |-> next(n, t)]]
<1>1. lo \in Nat /\ hi \in Nat /\ lo <= hi /\ Levels = lo..hi /\ TBL24_IND \in V
  BY LevelRange, Constants
<1>2. step \in Steps(lo, hi, V)
  BY DEF Steps
<1>3. PICK f : Computed(f, lo, hi, V, TBL24_IND, step)
  <2> HIDE DEF V, lo, hi, step
  <2> QED BY <1>1, <1>2, RecursiveFunction
<1> USE DEF Computed
<1> DEFINE Good(n) ==
             /\ f[n] \in V
             /\ f[n] = TBL24_IND <=> n = lo
<1>4. ASSUME NEW n \in (lo + 1)..hi, Good(n - 1)
      PROVE  Good(n) /\ f[n] = BelowIn(T, f[n - 1], ip, n)
  <2>1. n - 1 \in lo..hi /\ n - 1 \in Levels /\ n # lo
    BY <1>1
  <2>2. f[n] = next(n, f[n - 1])
    BY <1>3, <1>4, <2>1
  <2>3. CASE f[n - 1] = NO_TABLE
    <3>1. BelowIn(T, f[n - 1], ip, n) = NO_TABLE
      BY <2>3 DEF BelowIn
    <3> QED BY <2>1, <2>2, <3>1, LiveTables, Constants
  <2>4. CASE f[n - 1] # NO_TABLE
    <3> DEFINE e == T[f[n - 1]][get_bitshift(ip, n - 1)]
    <3>1. f[n - 1] \in Tables /\ (f[n - 1] = TBL24_IND <=> n - 1 = ADD_FIRST_BYTE)
      BY <1>4, <2>4
    <3>2. e \in Entry
      BY <2>1, <3>1, SlotOfAddress DEF TablesOK
    <3>3. BelowIn(T, f[n - 1], ip, n) = IF IsLink(e) THEN e.next_hop ELSE NO_TABLE
      BY <2>4 DEF BelowIn
    <3>4. BelowIn(T, f[n - 1], ip, n) \in Groups \cup {NO_TABLE}
      BY <3>2, <3>3, LinkEntry
    <3> QED BY <2>1, <2>2, <3>4, LiveTables, Constants
  <2> QED BY <2>3, <2>4
<1>5. Good(lo)
  BY <1>1, <1>3
<1>6. \A n \in lo..hi : Good(n)
  <2> DEFINE Bad == {n \in lo..hi : ~Good(n)}
  <2> SUFFICES ASSUME Bad # {} PROVE FALSE
    OBVIOUS
  <2>1. Bad \in SUBSET Nat
    BY <1>1
  <2>2. PICK n \in Bad : \A k \in Bad : n <= k
    <3> HIDE DEF Bad
    <3> QED BY <2>1, LeastNatural
  <2>3. n \in (lo + 1)..hi
    <3>1. n # lo
      BY <1>5
    <3> QED BY <1>1, <3>1
  <2>4. n - 1 \in lo..hi /\ n - 1 \notin Bad
    <3>1. n - 1 \in lo..hi /\ ~(n <= n - 1)
      BY <1>1, <2>3
    <3> HIDE DEF Bad
    <3> QED BY <2>2, <3>1
  <2>5. Good(n - 1)
    BY <2>4
  <2>6. Good(n)
    <3> HIDE DEF Good
    <3> QED BY <1>4, <2>3, <2>5
  <2> QED BY <2>6
<1>7. \A n \in (lo + 1)..hi : f[n] = BelowIn(T, f[n - 1], ip, n)
  <2> TAKE n \in (lo + 1)..hi
  <2>1. n - 1 \in lo..hi
    BY <1>1
  <2>2. Good(n - 1)
    BY <1>6, <2>1
  <2> HIDE DEF Good
  <2> QED BY <1>4, <2>2
<1> DEFINE Unfolded(t) ==
             [n \in Levels |->
                IF n = ADD_FIRST_BYTE
                THEN TBL24_IND
                ELSE LET above == t[n - 1]
                         e == T[above][get_bitshift(ip, n - 1)]
                     IN  IF above # NO_TABLE /\ IsLink(e) THEN e.next_hop ELSE NO_TABLE]
<1>8. f = Unfolded(f)
  <2>1. \A n \in Levels : f[n] = IF n = lo THEN TBL24_IND ELSE BelowIn(T, f[n - 1], ip, n)
    BY <1>1, <1>3, <1>7
  <2> QED BY <1>1, <1>3, <2>1 DEF BelowIn
<1>9. WalkIn(T, ip) = CHOOSE t : t = Unfolded(t)
  BY DEF WalkIn
<1> DEFINE w == WalkIn(T, ip)
<1>10. w = Unfolded(w)
  <2> HIDE DEF Unfolded
  <2> QED BY <1>8, <1>9
<1>11. \A n \in Levels : w[n] = IF n = lo THEN TBL24_IND ELSE BelowIn(T, w[n - 1], ip, n)
  <2> HIDE DEF w
  <2> QED BY <1>10 DEF BelowIn
<1>12. ASSUME NEW n \in (lo + 1)..hi, w[n - 1] \in V, w[n - 1] = TBL24_IND <=> n - 1 = lo
       PROVE  w[n] \in Groups \cup {NO_TABLE}
  <2> HIDE DEF w
  <2>1. n \in Levels /\ n # lo /\ n - 1 \in Levels /\ w[n] = BelowIn(T, w[n - 1], ip, n)
    BY <1>1, <1>11
  <2> DEFINE e == T[w[n - 1]][get_bitshift(ip, n - 1)]
  <2>2. CASE w[n - 1] = NO_TABLE \/ ~IsLink(e)
    BY <2>1, <2>2 DEF BelowIn
  <2>3. CASE w[n - 1] # NO_TABLE /\ IsLink(e)
    <3>1. w[n - 1] \in Tables
      BY <1>12, <2>3
    <3>2. e \in Entry
      BY <1>12, <2>1, <3>1, SlotOfAddress DEF TablesOK
    <3>3. w[n] = e.next_hop
      BY <2>1, <2>3 DEF BelowIn
    <3> QED BY <2>3, <3>2, <3>3, LinkEntry
  <2> QED BY <2>2, <2>3
<1> DEFINE Shaped(n) == w[n] \in V /\ (w[n] = TBL24_IND <=> n = lo)
           Off == {n \in lo..hi : ~Shaped(n)}
<1>13. Off = {}
  <2> SUFFICES ASSUME Off # {} PROVE FALSE
    OBVIOUS
  <2>1. Off \in SUBSET Nat
    BY <1>1
  <2>2. PICK n \in Off : \A k \in Off : n <= k
    <3> HIDE DEF Off
    <3> QED BY <2>1, LeastNatural
  <2>3. Shaped(lo)
    <3> HIDE DEF w
    <3> QED BY <1>1, <1>11
  <2>4. n \in (lo + 1)..hi
    BY <1>1, <2>3
  <2>5. n - 1 \in lo..hi /\ n - 1 \notin Off
    <3>1. n - 1 \in lo..hi /\ ~(n <= n - 1)
      BY <1>1, <2>4
    <3> HIDE DEF Off
    <3> QED BY <2>2, <3>1
  <2>6. Shaped(n - 1)
    BY <2>5
  <2>7. w[n] \in Groups \cup {NO_TABLE}
    BY <1>12, <2>4, <2>6
  <2>8. w[n] \in V /\ w[n] # TBL24_IND
    <3> HIDE DEF w
    <3> QED BY <2>7, Constants, LiveTables
  <2>9. n # lo
    BY <1>1, <2>4
  <2> QED BY <2>8, <2>9
<1>14. \A n \in Levels : Shaped(n)
  BY <1>1, <1>13
<1> QED BY <1>1, <1>11, <1>14

\* The tables of the state have the shape, so that the same holds of Walk.
LEMMA TablesShaped == IndInv => TablesOK(tbl)
BY DEF IndInv, TypeOK, TablesOK

LEMMA WalkUnfolds ==
  ASSUME IndInv, NEW ip \in Address
  PROVE  /\ Walk(ip)[ADD_FIRST_BYTE] = TBL24_IND
         /\ \A n \in Levels \ {ADD_FIRST_BYTE} : Walk(ip)[n] = Below(Walk(ip)[n - 1], ip, n)
BY TablesShaped, WalkInUnfolds DEF Walk, Below

\* The walk goes through tables in use, from each group's owner to the group.
LEMMA WalkIsLive ==
  ASSUME IndInv, LinksKept, NEW ip \in Address, NEW n \in Levels
  PROVE  /\ Walk(ip)[n] \in Live \cup {NO_TABLE}
         /\ Walk(ip)[n] = TBL24_IND <=> n = ADD_FIRST_BYTE
         /\ Walk(ip)[n] \in Taken =>
              /\ n - 1 \in Levels
              /\ Walk(ip)[n - 1] \in Live
              /\ Owner(Walk(ip)[n]) = Walk(ip)[n - 1]
              /\ tbl[Walk(ip)[n - 1]][OwnerEntry(Walk(ip)[n])].ext_entry
<1> DEFINE w == Walk(ip)
           Good(m) == /\ w[m] \in Live \cup {NO_TABLE}
                      /\ w[m] = TBL24_IND <=> m = ADD_FIRST_BYTE
                      /\ w[m] \in Taken =>
                           /\ m - 1 \in Levels
                           /\ w[m - 1] \in Live
                           /\ Owner(w[m]) = w[m - 1]
                           /\ tbl[w[m - 1]][OwnerEntry(w[m])].ext_entry
           Bad == {m \in Levels : ~Good(m)}
<1> HIDE DEF w
<1>1. w[ADD_FIRST_BYTE] = TBL24_IND
  BY WalkUnfolds DEF w
<1>2. \A m \in Levels \ {ADD_FIRST_BYTE} : w[m] = Below(w[m - 1], ip, m)
  BY WalkUnfolds DEF w
<1>3. Good(ADD_FIRST_BYTE)
  BY <1>1, LiveTables DEF Live
<1>4. ASSUME NEW m \in Levels, m - 1 \in Levels, m # ADD_FIRST_BYTE, Good(m - 1)
      PROVE  Good(m)
  <2> DEFINE t == w[m - 1]
             j == get_bitshift(ip, m - 1)
             e == tbl[t][j]
  <2>1. w[m] = IF t # NO_TABLE /\ IsLink(e) THEN e.next_hop ELSE NO_TABLE
    BY <1>2, <1>4 DEF Below, BelowIn
  <2>2. CASE t = NO_TABLE \/ ~IsLink(e)
    <3>1. w[m] = NO_TABLE
      BY <2>1, <2>2
    <3> QED BY <1>4, <3>1, LiveTables, Constants
  <2>3. CASE t # NO_TABLE /\ IsLink(e)
    <3>1. t \in Live /\ t \in Tables /\ (t = TBL24_IND <=> m - 1 = ADD_FIRST_BYTE)
      BY <1>4, <2>3, LiveTables
    <3>2. j \in Slots(t) /\ e \in Entry
      BY <1>4, <3>1, EntryOnTheWay
    <3>3. w[m] = e.next_hop
      BY <2>1, <2>3
    <3>4. w[m] \in Taken /\ Owner(w[m]) = t /\ OwnerEntry(w[m]) = j
      BY <2>3, <3>1, <3>2, <3>3 DEF LinksKept
    <3>5. e.ext_entry
      BY <2>3, <3>2, LinkEntry
    <3> QED BY <1>4, <3>1, <3>4, <3>5, LiveTables DEF Live
  <2> QED BY <2>2, <2>3
<1>5. Bad = {}
  <2> SUFFICES ASSUME Bad # {} PROVE FALSE
    OBVIOUS
  <2>1. Bad \in SUBSET Nat /\ \A m \in Bad : m \in Levels /\ ~Good(m)
    BY LevelRange
  <2>2. \A m \in Levels : m \notin Bad => Good(m)
    OBVIOUS
  <2> HIDE DEF Bad, Good
  <2>3. PICK m \in Bad : \A k \in Bad : m <= k
    BY <2>1, LeastNatural
  <2>4. m \in Levels /\ m # ADD_FIRST_BYTE
    BY <1>3, <2>1
  <2>5. m - 1 \in Levels /\ ~(m <= m - 1)
    BY <2>4, LevelRange
  <2> QED BY <1>4, <2>1, <2>2, <2>3, <2>4, <2>5
<1>6. Good(n)
  BY <1>5
<1> QED BY <1>6 DEF w

\* The walk meets no group twice: the owners of both would be one, up to tbl24.
LEMMA WalkMeetsOnce ==
  ASSUME IndInv, LinksKept, NEW ip \in Address,
         NEW m \in Levels, NEW n \in Levels,
         Walk(ip)[m] \in Live, Walk(ip)[m] = Walk(ip)[n]
  PROVE  m = n
<1> DEFINE w == Walk(ip)
           Twice == {k \in Levels : w[k] \in Live /\ \E l \in Levels : l # k /\ w[l] = w[k]}
<1>1. \A k \in Levels :
        /\ w[k] = TBL24_IND <=> k = ADD_FIRST_BYTE
        /\ w[k] \in Taken =>
             k - 1 \in Levels /\ w[k - 1] \in Live /\ Owner(w[k]) = w[k - 1]
  BY WalkIsLive
<1> HIDE DEF w
<1>2. ASSUME NEW k \in Twice
      PROVE  k - 1 \in Twice
  <2>1. PICK l \in Levels : l # k /\ w[l] = w[k]
    OBVIOUS
  <2>2. w[k] \in Taken
    BY <1>1, <2>1 DEF Live
  <2>3. k - 1 \in Levels /\ l - 1 \in Levels /\ w[k - 1] \in Live /\ w[k - 1] = w[l - 1]
    BY <1>1, <2>1, <2>2
  <2>4. k - 1 # l - 1
    BY <2>1, LevelRange
  <2> QED BY <2>3, <2>4
<1>3. Twice = {}
  <2> SUFFICES ASSUME Twice # {} PROVE FALSE
    OBVIOUS
  <2>1. Twice \in SUBSET Nat
    BY LevelRange
  <2> HIDE DEF Twice
  <2>2. PICK k \in Twice : \A l \in Twice : k <= l
    BY <2>1, LeastNatural
  <2> QED BY <1>2, <2>1, <2>2
<1> QED BY <1>3 DEF w

\* A stretch of the walk that consists of groups can be unlinked in order.
LEMMA WalkIsChain ==
  ASSUME IndInv, LinksKept, NEW ip \in Address, NEW k \in Levels, NEW chain \in Seq(Groups),
         \A i \in DOMAIN chain : k + i \in Levels /\ chain[i] = Walk(ip)[k + i]
  PROVE  /\ \A i \in DOMAIN chain :
              chain[i] \in Taken /\ tbl[Owner(chain[i])][OwnerEntry(chain[i])].ext_entry
         /\ \A i, j \in DOMAIN chain :
              i # j => chain[i] # chain[j] /\ Owner(chain[i]) # Owner(chain[j])
<1> DEFINE w == Walk(ip)
<1>1. ASSUME NEW i \in DOMAIN chain
      PROVE  /\ i \in Nat /\ k + i \in Levels /\ chain[i] = w[k + i] /\ chain[i] \in Taken
             /\ (k + i) - 1 \in Levels
             /\ w[(k + i) - 1] \in Live /\ Owner(chain[i]) = w[(k + i) - 1]
             /\ tbl[w[(k + i) - 1]][OwnerEntry(chain[i])].ext_entry
  <2>1. chain[i] \in Groups /\ i \in Nat /\ k + i \in Levels /\ chain[i] = w[k + i]
    OBVIOUS
  <2>2. w[k + i] \in Taken
    BY <2>1, WalkIsLive, LiveTables, Constants DEF Live, Tables
  <2> QED BY <2>1, <2>2, WalkIsLive
<1>2. \A m, n \in Levels : w[m] \in Live /\ w[m] = w[n] => m = n
  BY WalkMeetsOnce
<1> HIDE DEF w
<1>3. ASSUME NEW i \in DOMAIN chain, NEW j \in DOMAIN chain, i # j
      PROVE  chain[i] # chain[j] /\ Owner(chain[i]) # Owner(chain[j])
  <2>1. k \in Nat /\ i \in Nat /\ j \in Nat
    BY <1>1, LevelRange
  <2>2. k + i # k + j /\ (k + i) - 1 # (k + j) - 1
    BY <1>3, <2>1
  <2>3. chain[i] \in Live /\ Owner(chain[i]) \in Live
    BY <1>1 DEF Live
  <2> QED BY <1>1, <1>2, <2>2, <2>3
<1> QED BY <1>1, <1>3

-----------------------------------------------------------------------------
(* Steps that write no link *)

\* The pool, the owners and the links stay; entries may become leaves.
LEMMA LinksStay ==
  ASSUME PoolOnce, LinksKept, UNCHANGED <<tbl8_pool, tbl8_pool_pos>>,
         \A g \in Groups : Owner(g)' = Owner(g) /\ OwnerEntry(g)' = OwnerEntry(g),
         \A t \in Tables : \A j \in Slots(t) :
           IsLink(tbl'[t][j]) => tbl'[t][j] = tbl[t][j]
  PROVE  PoolOnce' /\ LinksKept' /\ Taken' = Taken
<1>1. PoolOnce' /\ Taken' = Taken /\ Live' = Live
  BY DEF PoolOnce, Taken, Live, Free
<1>2. ASSUME NEW t \in Live, NEW j \in Slots(t), IsLink(tbl'[t][j])
      PROVE  \E h \in Taken : /\ tbl'[t][j].next_hop = h
                              /\ tbl8_hdrs'[h].owner_tbl_ind = t
                              /\ tbl8_hdrs'[h].owner_entry_ind = j
  <2>1. tbl'[t][j] = tbl[t][j]
    BY <1>2, LiveTables
  <2>2. PICK h \in Taken : h = tbl[t][j].next_hop /\ Owner(h) = t /\ OwnerEntry(h) = j
    BY <1>2, <2>1 DEF LinksKept
  <2>3. h \in Groups
    BY LiveTables
  <2> QED BY <2>1, <2>2, <2>3 DEF Owner, OwnerEntry
<1>3. LinksKept'
  BY <1>1, <1>2 DEF LinksKept, Owner, OwnerEntry
<1> QED BY <1>1, <1>3

\* Nothing happens to the tables, as in a call that only answers.
LEMMA LinksUnchanged ==
  ASSUME PoolOnce, LinksKept, UNCHANGED tables
  PROVE  PoolOnce' /\ LinksKept' /\ Taken' = Taken /\ Live' = Live
BY DEF tables, PoolOnce, LinksKept, Taken, Live, Free, Owner, OwnerEntry

\* Expanding a rule makes no link.
LEMMA WriteRuleKeepsLinks ==
  ASSUME IndInv, NEW t, NEW cells, NEW hit, NEW depth, NEW e \in Entry, ~e.ext_entry,
         tbl' = WriteRule(t, cells, hit, depth, e)
  PROVE  \A u \in Tables : \A j \in Slots(u) :
           IsLink(tbl'[u][j]) => tbl'[u][j] = tbl[u][j]
<1> TAKE u \in Tables
<1> TAKE j \in Slots(u)
<1>1. tbl'[u][j] = e \/ tbl'[u][j] = tbl[u][j]
  BY DEF WriteRule
<1> QED BY <1>1, LinkEntry

LEMMA CountingKeepsOwners ==
  ASSUME NEW hdrs \in [Groups -> Header], NEW t \in Tables, NEW g \in Groups
  PROVE  /\ Referenced(hdrs, t)[g].owner_tbl_ind = hdrs[g].owner_tbl_ind
         /\ Referenced(hdrs, t)[g].owner_entry_ind = hdrs[g].owner_entry_ind
<1>1. hdrs[g] \in Header
  OBVIOUS
<1>2. CASE t = TBL24_IND \/ t # g
  BY <1>2 DEF Referenced
<1>3. CASE t # TBL24_IND /\ t = g
  <2>1. Referenced(hdrs, t)[g] = [hdrs[g] EXCEPT !.ref_cnt = (@ + 1) % REF_MOD]
    BY <1>3 DEF Referenced
  <2> QED BY <1>1, <2>1 DEF Header
<1> QED BY <1>2, <1>3

\* What a call that ends, or goes on to rebuild, leaves in its locals.
LEMMA ReturnKeepsLinks ==
  ASSUME op' = Idle
  PROVE  CallLinks'
BY DEF CallLinks, Idle, Invalid

LEMMA RebuildKeepsLinks ==
  ASSUME NEW todo, op' = [Idle EXCEPT !.pc = "rebuild", !.todo = todo]
  PROVE  CallLinks'
<1>1. op'.pc = "rebuild" /\ op'.entry = Invalid /\ op'.chain = <<>>
  BY DEF Idle
<1> QED BY <1>1 DEF CallLinks, Invalid

LEMMA StartAddKeepsLinks ==
  ASSUME NEW key, NEW hop, NEW fresh, NEW todo, StartAdd(key, hop, fresh, todo)
  PROVE  CallLinks'
<1>1. /\ op'.entry = Leaf(hop, key.depth) /\ op'.pc = "add" /\ op'.cur = TBL24_IND
      /\ op'.chain = <<>>
  BY DEF StartAdd, Idle
<1>2. ~op'.entry.ext_entry
  BY <1>1 DEF Leaf
<1> QED BY <1>1, <1>2 DEF CallLinks, Live

\* A step that leaves the call as it was.
LEMMA CallUnchanged ==
  ASSUME CallLinks, UNCHANGED <<tables, op>>
  PROVE  CallLinks'
BY SMTT(30) DEF tables, CallLinks, ChainOnWalk, ChainLinked, Walk, Taken, Live, Free, Owner,
       OwnerEntry

LEMMA AddStepLastKeepsLinks ==
  ASSUME LinksInv, AddStepLast
  PROVE  PoolOnce' /\ LinksKept' /\ CallLinks'
<1>1. op.cur \in Tables /\ op.entry \in Entry /\ ~op.entry.ext_entry
  BY DEF LinksInv, IndInv, TypeOK, Call, CallLinks
<1>2. \A u \in Tables : \A j \in Slots(u) : IsLink(tbl'[u][j]) => tbl'[u][j] = tbl[u][j]
  BY <1>1, WriteRuleKeepsLinks DEF AddStepLast, LinksInv
<1>3. \A g \in Groups : Owner(g)' = Owner(g) /\ OwnerEntry(g)' = OwnerEntry(g)
  <2>1. tbl8_hdrs \in [Groups -> Header]
    BY DEF LinksInv, IndInv, TypeOK
  <2>2. tbl8_hdrs' = Referenced(tbl8_hdrs, op.cur) \/ tbl8_hdrs' = tbl8_hdrs
    BY DEF AddStepLast, RuleCounted
  <2> QED BY <1>1, <2>1, <2>2, CountingKeepsOwners DEF Owner, OwnerEntry
<1>4. PoolOnce' /\ LinksKept'
  BY <1>2, <1>3, LinksStay DEF LinksInv, AddStepLast
<1>5. CallLinks'
  <2>1. CASE op.todo = {}
    BY <2>1, ReturnKeepsLinks DEF AddStepLast
  <2>2. CASE op.todo # {}
    BY <2>2, RebuildKeepsLinks DEF AddStepLast
  <2> QED BY <2>1, <2>2
<1> QED BY <1>4, <1>5

LEMMA DeleteClearKeepsLinks ==
  ASSUME LinksInv, DeleteClear
  PROVE  PoolOnce' /\ LinksKept' /\ CallLinks'
<1>1. op.entry \in Entry /\ ~op.entry.ext_entry
  BY DEF LinksInv, IndInv, TypeOK, Call, CallLinks
<1>2. \A u \in Tables : \A j \in Slots(u) : IsLink(tbl'[u][j]) => tbl'[u][j] = tbl[u][j]
  BY <1>1, WriteRuleKeepsLinks DEF DeleteClear, LinksInv
<1>3. \A g \in Groups : Owner(g)' = Owner(g) /\ OwnerEntry(g)' = OwnerEntry(g)
  BY DEF DeleteClear, Owner, OwnerEntry
<1>4. PoolOnce' /\ LinksKept'
  BY <1>2, <1>3, LinksStay DEF LinksInv, DeleteClear
<1>5. CallLinks'
  BY ReturnKeepsLinks DEF DeleteClear
<1> QED BY <1>4, <1>5

\* Every table zeroed and every group in the pool.
LEMMA EmptyTablesHaveNoLinks ==
  ASSUME NUMBER_TBL8S \in Nat, tbl' = ZeroTables, tbl8_pool' = FullPool, tbl8_pool_pos' = 0
  PROVE  PoolOnce' /\ LinksKept'
<1>1. \A i \in Groups : tbl8_pool'[i] = i
  BY DEF FullPool
<1>2. PoolOnce'
  BY <1>1 DEF PoolOnce, Groups
<1>3. ASSUME NEW t \in Tables, NEW j \in Slots(t)
      PROVE  ~IsLink(tbl'[t][j])
  BY DEF ZeroTables, Invalid, IsLink
<1>4. Taken' \subseteq Groups /\ Live' \subseteq Tables
  BY DEF Taken, Live, Tables
<1> QED BY <1>2, <1>3, <1>4 DEF LinksKept

LEMMA DeleteManyKeepsLinks ==
  ASSUME LinksInv, NEW keys, DeleteAll \/ DeleteBulk(keys)
  PROVE  PoolOnce' /\ LinksKept' /\ CallLinks'
<1>1. ResetTables /\ op.pc = "idle"
  BY DEF DeleteAll, DeleteBulk
<1>2. PoolOnce' /\ LinksKept'
  BY <1>1, Constants, EmptyTablesHaveNoLinks DEF ResetTables
<1>3. op = Idle
  BY <1>1 DEF LinksInv, IndInv, CallOK
<1>4. CASE op' = op
  BY <1>2, <1>3, <1>4, ReturnKeepsLinks
<1>5. CASE op' # op
  <2> DEFINE left == DOMAIN rules \ keys
  <2>1. op' = [Idle EXCEPT !.pc = "rebuild", !.todo = left]
    BY <1>5 DEF DeleteAll, DeleteBulk
  <2> HIDE DEF left
  <2> QED BY <1>2, <2>1, RebuildKeepsLinks
<1> QED BY <1>2, <1>4, <1>5

-----------------------------------------------------------------------------
(* The steps of an insertion *)

LEMMA DescendKeepsLinks ==
  ASSUME CallLinks, op \in Call, op.pc = "add", NEW g, Descend(g), g \in Live'
  PROVE  CallLinks'
<1>1. /\ op'.pc = "add" /\ op'.cur = g /\ op'.entry = op.entry /\ op'.chain = op.chain
  BY DEF Descend, Call
<1> QED BY <1>1 DEF CallLinks

LEMMA AddStepDescendKeepsLinks ==
  ASSUME LinksInv, AddStepDescend
  PROVE  PoolOnce' /\ LinksKept' /\ CallLinks'
<1>1. op.cur \in Live /\ AddSlot \in Slots(op.cur) /\ op \in Call /\ op.pc = "add"
  BY AddEntryType DEF AddStepDescend, LinksInv, CallLinks, IndInv, TypeOK
<1>2. AddEntry.next_hop \in Taken
  BY <1>1 DEF AddStepDescend, AddEntry, LinksInv, LinksKept
<1>3. PoolOnce' /\ LinksKept' /\ Live' = Live
  BY LinksUnchanged DEF AddStepDescend, LinksInv
<1>4. Descend(AddEntry.next_hop) /\ AddEntry.next_hop \in Live'
  BY <1>2, <1>3 DEF AddStepDescend, Live
<1>5. CallLinks'
  BY <1>1, <1>4, DescendKeepsLinks DEF LinksInv
<1> QED BY <1>3, <1>5

\* The group from the pool is filled with leaves, so that its one link is the
\* one just made, and it makes none.
LEMMA AddStepNewTableKeepsLinks ==
  ASSUME GroupsFit, LinksInv, AddStepNewTable
  PROVE  PoolOnce' /\ LinksKept' /\ CallLinks'
<1> DEFINE g == tbl8_get
           c == op.cur
           s == AddSlot
           e == AddEntry
           fill == [j \in Slots(g) |-> PushedDown(e)]
           header == init_tbl8_header(c, s)
<1>1. /\ op \in Call /\ op.pc = "add" /\ c \in Live /\ c \in Tables
      /\ s \in Slots(c) /\ e \in Entry /\ ~IsLink(e)
  BY AddEntryType, LiveTables DEF AddStepNewTable, LinksInv, CallLinks, IndInv, TypeOK
<1>2. /\ tbl8_pool_pos \in 0..(NUMBER_TBL8S - 1) /\ tbl8_pool_pos' = tbl8_pool_pos + 1
      /\ tbl8_pool' = tbl8_pool /\ g = tbl8_pool[tbl8_pool_pos]
      /\ g \in Free /\ g \in Groups /\ NUMBER_TBL8S \in Nat
  BY Constants DEF AddStepNewTable, tbl8_get, LinksInv, IndInv, TypeOK, Groups, Free
<1>3. PoolOnce' /\ Free' = Free \ {g}
  BY <1>2 DEF LinksInv, PoolOnce, Free
<1>4. Taken' = Taken \cup {g} /\ Live' = Live \cup {g} /\ g \notin Live /\ c # g
  BY <1>1, <1>2, <1>3, Constants DEF Taken, Live
<1>5. Link(g).next_hop = g /\ Link(g) \in Entry
  <2>1. g \in Nat /\ g < 2 ^ NEXT_HOP_BITS
    BY <1>2, Constants DEF GroupsFit, Groups
  <2>2. g % 2 ^ NEXT_HOP_BITS = g
    BY <2>1, Constants
  <2> QED BY <1>2, <2>2, LinkType DEF Link
<1>6. /\ \A u \in Tables \ {g, c} : tbl'[u] = tbl[u]
      /\ tbl'[g] = fill
      /\ \A i \in Slots(c) : tbl'[c][i] = IF i = s THEN Link(g) ELSE tbl[c][i]
  <2>1. tbl' = [[tbl EXCEPT ![g] = fill] EXCEPT ![c][s] = Link(g)]
    BY DEF AddStepNewTable
  <2>2. DOMAIN tbl = Tables /\ tbl[c] \in [Slots(c) -> Entry] /\ g \in Tables
    BY <1>1, <1>2, Constants DEF LinksInv, IndInv, TypeOK
  <2> HIDE DEF fill, g, c, s
  <2> QED BY <1>1, <1>4, <2>1, <2>2
<1>7. ~IsLink(PushedDown(e))
  BY <1>1 DEF PushedDown, IsLink, Invalid
<1>8. \A h \in Groups :
        /\ tbl8_hdrs'[h].owner_tbl_ind = IF h = g THEN c ELSE Owner(h)
        /\ tbl8_hdrs'[h].owner_entry_ind = IF h = g THEN s ELSE OwnerEntry(h)
  <2> DEFINE hdrs == [tbl8_hdrs EXCEPT ![g] = header]
  <2>1. tbl8_hdrs \in [Groups -> Header] /\ header \in Header
    <3>1. s \in Nat
      BY <1>1 DEF Slots
    <3> QED BY <1>1, <3>1, Constants DEF LinksInv, IndInv, TypeOK, Header, init_tbl8_header
  <2>2. hdrs \in [Groups -> Header] /\ tbl8_hdrs' = Referenced(hdrs, c)
    BY <2>1 DEF AddStepNewTable
  <2>3. \A h \in Groups :
          /\ tbl8_hdrs'[h].owner_tbl_ind = hdrs[h].owner_tbl_ind
          /\ tbl8_hdrs'[h].owner_entry_ind = hdrs[h].owner_entry_ind
    <3> HIDE DEF hdrs
    <3> QED BY <1>1, <2>2, CountingKeepsOwners
  <2>4. header.owner_tbl_ind = c /\ header.owner_entry_ind = s
    BY DEF init_tbl8_header
  <2> HIDE DEF header, g
  <2>5. \A h \in Groups : hdrs[h] = IF h = g THEN header ELSE tbl8_hdrs[h]
    BY <2>1
  <2> QED BY <2>3, <2>4, <2>5 DEF Owner, OwnerEntry
<1>9. ASSUME NEW u \in Live', NEW i \in Slots(u), IsLink(tbl'[u][i])
      PROVE  \E h \in Taken' : /\ tbl'[u][i].next_hop = h
                               /\ tbl8_hdrs'[h].owner_tbl_ind = u
                               /\ tbl8_hdrs'[h].owner_entry_ind = i
  <2>1. u # g
    BY <1>6, <1>7, <1>9
  <2>2. CASE u = c /\ i = s
    BY <1>2, <1>4, <1>5, <1>6, <1>8, <2>2
  <2>3. CASE ~(u = c /\ i = s)
    <3>1. u \in Live /\ u \in Tables /\ tbl'[u][i] = tbl[u][i]
      BY <1>4, <1>6, <2>1, <2>3, LiveTables
    <3>2. PICK h \in Taken : h = tbl[u][i].next_hop /\ Owner(h) = u /\ OwnerEntry(h) = i
      BY <1>9, <3>1 DEF LinksInv, LinksKept
    <3>3. h \in Groups /\ h # g
      BY <1>4, LiveTables DEF Live
    <3> QED BY <1>4, <1>8, <3>1, <3>2, <3>3
  <2> QED BY <2>2, <2>3
<1>10. LinksKept'
  BY <1>9 DEF LinksKept, Owner, OwnerEntry
<1>11. CallLinks'
  <2>1. Descend(g) /\ g \in Live'
    BY <1>4, <1>5 DEF AddStepNewTable
  <2> HIDE DEF g
  <2> QED BY <1>1, <2>1, DescendKeepsLinks DEF LinksInv
<1> QED BY <1>3, <1>10, <1>11

-----------------------------------------------------------------------------
(* Deletion of one rule *)

LEMMA DeleteKeepsLinks ==
  ASSUME LinksInv, NEW r \in Routes, Delete(r)
  PROVE  PoolOnce' /\ LinksKept' /\ CallLinks'
<1> DEFINE key == Masked(r)
           level == LevelOf(key.depth)
<1>1. key \in Prefix /\ level \in Levels
  BY MaskedPrefix, LevelOfDepth, CreateAssumption DEF Delete, Prefix
<1>2. PoolOnce' /\ LinksKept' /\ tbl' = tbl
  BY LinksUnchanged DEF Delete, LinksInv, tables
<1>3. PICK t \in Tables :
        /\ t = Walk(key.ip)[level]
        /\ op' = [Idle EXCEPT !.pc = IF t = TBL24_IND THEN "clear" ELSE "unref",
                              !.key = key, !.cur = t, !.level = level,
                              !.entry = rule_find_less_specific(key)]
  BY DEF Delete
<1>4. ~rule_find_less_specific(key).ext_entry
  BY DEF rule_find_less_specific, Leaf, Invalid
<1> HIDE DEF key, level
<1>5. /\ op'.pc = IF t = TBL24_IND THEN "clear" ELSE "unref"
      /\ op'.key = key /\ op'.cur = t /\ op'.chain = <<>>
      /\ op'.entry = rule_find_less_specific(key)
  BY <1>3 DEF Idle
<1>6. ChainOnWalk'
  <2>1. Walk(key.ip)' = Walk(key.ip)
    BY <1>2 DEF Walk
  <2>2. op'.cur = WalkIn(tbl', op'.key.ip)[level]
    BY <1>2, <1>3, <1>5 DEF Walk
  <2> QED BY <1>1, <1>5, <2>2 DEF ChainOnWalk, Walk
<1>7. CallLinks'
  BY <1>4, <1>5, <1>6 DEF CallLinks
<1> QED BY <1>2, <1>7

LEMMA DeleteUnrefKeepsLinks ==
  ASSUME LinksInv, DeleteUnref
  PROVE  PoolOnce' /\ LinksKept' /\ CallLinks'
<1> DEFINE count == (tbl8_hdrs[op.cur].ref_cnt - 1) % REF_MOD
           owner == tbl8_hdrs[op.cur].owner_tbl_ind
           longer == <<op.cur>> \o op.chain
           ip == op.key.ip
<1>1. /\ op \in Call /\ op.pc = "unref" /\ op.cur \in Groups /\ op.chain \in Seq(Groups)
      /\ ip \in Address /\ ~op.entry.ext_entry /\ tbl8_hdrs \in [Groups -> Header]
  BY DEF DeleteUnref, LinksInv, IndInv, TypeOK, CallOK, Call, Prefix, CallLinks
<1>2. PICK k \in Levels :
        /\ op.cur = Walk(ip)[k]
        /\ \A i \in DOMAIN op.chain : k + i \in Levels /\ op.chain[i] = Walk(ip)[k + i]
  BY <1>1 DEF LinksInv, CallLinks, ChainOnWalk
<1>3. /\ op.cur \in Taken /\ k - 1 \in Levels /\ owner = Walk(ip)[k - 1]
  <2>1. op.cur \in Taken
    <3> HIDE DEF ip
    <3>1. Walk(ip)[k] \in Live \cup {NO_TABLE}
      BY <1>1, WalkIsLive DEF LinksInv
    <3>2. op.cur # NO_TABLE /\ op.cur # TBL24_IND
      BY <1>1, LiveTables, Constants
    <3> QED BY <1>2, <3>1, <3>2 DEF Live
  <2> HIDE DEF ip
  <2>2. k - 1 \in Levels /\ Owner(Walk(ip)[k]) = Walk(ip)[k - 1]
    BY <1>1, <1>2, <2>1, WalkIsLive DEF LinksInv
  <2> QED BY <1>2, <2>1, <2>2 DEF Owner
<1>4. \A g \in Groups : Owner(g)' = Owner(g) /\ OwnerEntry(g)' = OwnerEntry(g)
  <2>1. tbl8_hdrs' = [tbl8_hdrs EXCEPT ![op.cur] =
                        [tbl8_hdrs[op.cur] EXCEPT !.ref_cnt = count]]
    BY DEF DeleteUnref
  <2> HIDE DEF count
  <2>2. \A g \in Groups : tbl8_hdrs[g] \in Header
    BY <1>1
  <2> QED BY <1>1, <2>1, <2>2 DEF Owner, OwnerEntry, Header
<1>5. PoolOnce' /\ LinksKept' /\ Taken' = Taken
  BY <1>4, LinksStay DEF DeleteUnref, LinksInv
<1>6. tbl' = tbl /\ \A a : WalkIn(tbl', a) = Walk(a)
  BY DEF DeleteUnref, Walk
\* Groups that follow each other on the walk make a chain.
<1>7. ASSUME NEW m \in Levels, NEW chain \in Seq(Groups), op'.chain = chain,
             \A i \in DOMAIN chain : m + i \in Levels /\ chain[i] = Walk(ip)[m + i]
      PROVE  ChainLinked'
  <2> HIDE DEF ip
  <2>1. /\ \A i \in DOMAIN chain :
             chain[i] \in Taken /\ tbl[Owner(chain[i])][OwnerEntry(chain[i])].ext_entry
        /\ \A i, j \in DOMAIN chain :
             i # j => chain[i] # chain[j] /\ Owner(chain[i]) # Owner(chain[j])
    BY <1>1, <1>7, WalkIsChain DEF LinksInv
  <2>2. \A i \in DOMAIN chain :
          /\ chain[i] \in Groups
          /\ tbl8_hdrs'[chain[i]].owner_tbl_ind = Owner(chain[i])
          /\ tbl8_hdrs'[chain[i]].owner_entry_ind = OwnerEntry(chain[i])
    BY <1>4, <1>7 DEF Owner, OwnerEntry
  <2> QED BY <1>5, <1>6, <1>7, <2>1, <2>2 DEF ChainLinked, Owner, OwnerEntry
<1> HIDE DEF count, owner
<1>8. CASE op' = [op EXCEPT !.pc = IF op.chain = <<>> THEN "clear" ELSE "unlink"]
  <2>1. /\ op'.pc = IF op.chain = <<>> THEN "clear" ELSE "unlink"
        /\ op'.chain = op.chain /\ op'.entry = op.entry
    BY <1>1, <1>8 DEF Call
  <2>2. ChainLinked'
    BY <1>1, <1>2, <1>7, <2>1
  <2> QED BY <1>1, <1>5, <2>1, <2>2 DEF CallLinks
<1>9. CASE op' = [op EXCEPT !.chain = longer,
                            !.pc = IF owner = TBL24_IND THEN "unlink" ELSE "unref",
                            !.cur = owner]
  <2>1. longer \in Seq(Groups) /\ longer # <<>>
    BY <1>1
  <2>2. \A i \in DOMAIN longer :
          (k - 1) + i \in Levels /\ longer[i] = Walk(ip)[(k - 1) + i]
    <3>1. ASSUME NEW i \in DOMAIN longer
          PROVE  (k - 1) + i \in Levels /\ longer[i] = Walk(ip)[(k - 1) + i]
      <4>1. k \in Nat /\ i \in Nat \ {0} /\ i <= Len(op.chain) + 1
        BY <1>1, LevelRange
      <4>2. CASE i = 1
        BY <1>1, <1>2, <4>1, <4>2
      <4>3. CASE i # 1
        <5>1. i - 1 \in DOMAIN op.chain /\ longer[i] = op.chain[i - 1]
          BY <1>1, <4>1, <4>3
        <5>2. k + (i - 1) = (k - 1) + i
          BY <4>1
        <5> QED BY <1>2, <5>1, <5>2
      <4> QED BY <4>2, <4>3
    <3> QED BY <3>1
  <2> HIDE DEF longer
  <2>3. /\ op'.pc = IF owner = TBL24_IND THEN "unlink" ELSE "unref"
        /\ op'.chain = longer /\ op'.cur = owner /\ op'.entry = op.entry
        /\ op'.key = op.key
    BY <1>1, <1>9 DEF Call
  <2>4. ChainLinked'
    BY <1>3, <1>7, <2>1, <2>2, <2>3
  <2>5. ChainOnWalk'
    BY <1>3, <1>6, <2>2, <2>3 DEF ChainOnWalk, Walk
  <2> QED BY <1>1, <1>5, <2>1, <2>3, <2>4, <2>5 DEF CallLinks
<1> QED BY <1>8, <1>9 DEF DeleteUnref, count, owner

\* The link of a group is overwritten before the group goes into the pool.
LEMMA DeleteUnlinkKeepsLinks ==
  ASSUME LinksInv, DeleteUnlink
  PROVE  PoolOnce' /\ LinksKept' /\ CallLinks'
<1> DEFINE g == Head(op.chain)
           t == Owner(g)
           j == OwnerEntry(g)
           written == [tbl[t] EXCEPT ![j] = op.entry]
<1>1. /\ op \in Call /\ op.pc = "unlink" /\ op.chain \in Seq(Groups) /\ op.chain # <<>>
      /\ op.entry \in Entry /\ ~op.entry.ext_entry /\ ChainLinked
      /\ tbl8_pool \in [Groups -> Groups] /\ tbl8_pool_pos \in 0..NUMBER_TBL8S
      /\ NUMBER_TBL8S \in Nat
  BY Constants
  DEF DeleteUnlink, LinksInv, IndInv, TypeOK, CallOK, Call, CallLinks
<1>2. g = op.chain[1] /\ 1 \in DOMAIN op.chain
  BY <1>1
<1>3. g \in Taken /\ g \in Groups /\ t \in Tables
  <2>1. g \in Taken /\ g \in Groups
    BY <1>1, <1>2, LiveTables DEF ChainLinked
  <2> HIDE DEF g
  <2> QED BY <2>1 DEF LinksInv, IndInv, TypeOK, Owner, Header
<1>4. /\ tbl' = [tbl EXCEPT ![t] = written]
      /\ tbl8_hdrs' = tbl8_hdrs
      /\ tbl8_put(g)
  BY DEF DeleteUnlink, Owner, OwnerEntry
<1>5. /\ \A u \in Tables \ {t} : tbl'[u] = tbl[u]
      /\ \A i \in Slots(t) : tbl'[t][i] = IF i = j THEN op.entry ELSE tbl[t][i]
  <2>1. DOMAIN tbl = Tables /\ tbl[t] \in [Slots(t) -> Entry]
    BY <1>3 DEF LinksInv, IndInv, TypeOK
  <2> HIDE DEF g, t, j
  <2> QED BY <1>3, <1>4, <2>1 DEF written
<1>6. ~IsLink(op.entry)
  BY <1>1, LinkEntry
<1> HIDE DEF g, t, j, written
<1>7. PoolOnce' /\ Taken' \subseteq Taken /\ Taken \ {g} \subseteq Taken'
  <2>1. CASE tbl8_pool_pos = 0
    BY <1>4, <2>1 DEF tbl8_put, LinksInv, PoolOnce, Taken, Free
  <2>2. CASE tbl8_pool_pos # 0
    <3> DEFINE p == tbl8_pool_pos - 1
    <3>1. p \in Groups /\ p + 1 = tbl8_pool_pos
      BY <1>1, <2>2 DEF Groups
    <3>2. tbl8_pool_pos' = p /\ tbl8_pool' = [tbl8_pool EXCEPT ![p] = g]
      BY <1>4, <2>2 DEF tbl8_put
    <3>3. \A i \in p..(NUMBER_TBL8S - 1) :
            /\ i \in Groups
            /\ i = p \/ i \in tbl8_pool_pos..(NUMBER_TBL8S - 1)
            /\ tbl8_pool'[i] = IF i = p THEN g ELSE tbl8_pool[i]
      BY <1>1, <3>1, <3>2 DEF Groups
    <3>4. \A i \in tbl8_pool_pos..(NUMBER_TBL8S - 1) :
            i \in p..(NUMBER_TBL8S - 1) /\ i # p
      BY <1>1, <3>1
    <3>5. p \in p..(NUMBER_TBL8S - 1)
      BY <1>1, <3>1 DEF Groups
    <3>6. Free' = Free \cup {g}
      <4> HIDE DEF p
      <4> QED BY <3>2, <3>3, <3>4, <3>5 DEF Free
    <3>7. g \notin Free
      BY <1>3 DEF Taken
    <3>8. PoolOnce'
      <4>1. \A i \in tbl8_pool_pos..(NUMBER_TBL8S - 1) : tbl8_pool[i] # g
        BY <3>7 DEF Free
      <4> HIDE DEF p
      <4> QED BY <3>2, <3>3, <4>1 DEF LinksInv, PoolOnce
    <3> QED BY <3>6, <3>8 DEF Taken
  <2> QED BY <2>1, <2>2
<1>8. ASSUME NEW u \in Live', NEW i \in Slots(u), IsLink(tbl'[u][i])
      PROVE  \E h \in Taken' : /\ tbl'[u][i].next_hop = h
                               /\ tbl8_hdrs'[h].owner_tbl_ind = u
                               /\ tbl8_hdrs'[h].owner_entry_ind = i
  <2>1. ~(u = t /\ i = j)
    BY <1>5, <1>6, <1>8
  <2>2. u \in Live /\ u \in Tables
    BY <1>7, LiveTables DEF Live
  <2>3. tbl'[u][i] = tbl[u][i]
    BY <1>5, <1>8, <2>1, <2>2
  <2>4. PICK h \in Taken : h = tbl[u][i].next_hop /\ Owner(h) = u /\ OwnerEntry(h) = i
    BY <1>8, <2>2, <2>3 DEF LinksInv, LinksKept
  <2>5. h # g
    BY <2>1, <2>4 DEF t, j
  <2> QED BY <1>4, <1>7, <2>3, <2>4, <2>5 DEF Owner, OwnerEntry
<1>9. LinksKept'
  BY <1>8 DEF LinksKept, Owner, OwnerEntry
<1>10. CallLinks'
  <2> DEFINE rest == Tail(op.chain)
  <2>1. CASE rest = <<>>
    BY <2>1, ReturnKeepsLinks DEF DeleteUnlink
  <2>2. CASE rest # <<>>
    <3>1. op' = [op EXCEPT !.chain = rest]
      BY <2>2 DEF DeleteUnlink
    <3>2. op'.chain = rest /\ op'.pc = "unlink" /\ op'.entry = op.entry
      BY <1>1, <3>1 DEF Call
    <3>3. \A i \in DOMAIN rest :
            i + 1 \in DOMAIN op.chain /\ i + 1 # 1 /\ rest[i] = op.chain[i + 1]
      BY <1>1
    <3> HIDE DEF rest
    <3>4. ASSUME NEW i \in DOMAIN rest
          PROVE  rest[i] \in Taken' /\ tbl'[Owner(rest[i])][OwnerEntry(rest[i])].ext_entry
      <4>1. /\ rest[i] \in Taken /\ rest[i] # g /\ Owner(rest[i]) # t
            /\ tbl[Owner(rest[i])][OwnerEntry(rest[i])].ext_entry
        BY <1>1, <1>2, <3>3 DEF ChainLinked, t
      <4>2. Owner(rest[i]) \in Tables
        BY <4>1, LiveTables DEF LinksInv, IndInv, TypeOK, Owner, Header
      <4> QED BY <1>5, <1>7, <4>1, <4>2
    <3>5. \A i, k \in DOMAIN rest :
            i # k => rest[i] # rest[k] /\ Owner(rest[i]) # Owner(rest[k])
      <4>1. \A i, k \in DOMAIN rest : i # k => i + 1 # k + 1
        BY <1>1 DEF rest
      <4> QED BY <1>1, <3>3, <4>1 DEF ChainLinked
    <3>6. ChainLinked'
      BY <1>4, <3>2, <3>4, <3>5 DEF ChainLinked, Owner, OwnerEntry
    <3> QED BY <1>1, <3>2, <3>6 DEF CallLinks
  <2> QED BY <2>1, <2>2
<1> QED BY <1>7, <1>9, <1>10

-----------------------------------------------------------------------------
(* The invariant, and what follows from it *)

LEMMA CreateEstablishesLinks == Create => LinksInv
<1> SUFFICES ASSUME Create PROVE LinksInv
  OBVIOUS
<1>1. IndInv
  BY CreateEstablishesInv
<1>2. PoolOnce
  BY DEF Create, FullPool, PoolOnce, Groups
<1>3. \A t \in Tables : \A j \in Slots(t) : ~IsLink(tbl[t][j])
  BY DEF Create, ZeroTables, Invalid, IsLink
<1>4. LinksKept
  BY <1>3, LiveTables DEF LinksKept
<1>5. CallLinks
  BY DEF Create, CallLinks, Idle, Invalid
<1> QED BY <1>1, <1>2, <1>4, <1>5 DEF LinksInv

\* Every call and every step of a call keeps the links, whatever mix of
\* operations the callers use and whatever the reference counts say.
THEOREM StepKeepsLinks ==
  ASSUME GroupsFit
  PROVE  LinksInv /\ [AnyNext]_vars => LinksInv'
<1> SUFFICES ASSUME LinksInv, [AnyNext]_vars PROVE PoolOnce' /\ LinksKept' /\ CallLinks'
  BY StepKeepsInv DEF LinksInv
<1> DEFINE Goal == PoolOnce' /\ LinksKept' /\ CallLinks'
<1>1. ASSUME UNCHANGED <<tables, op>> PROVE Goal
  BY <1>1, LinksUnchanged, CallUnchanged DEF LinksInv
<1>2. CASE Update
  <2>1. ASSUME NEW r \in Routes, RejectDepth(r) \/ AddThrows(r) \/ AddNoSpace(r) PROVE Goal
    <3>1. UNCHANGED <<tables, op>>
      BY <2>1 DEF RejectDepth, AddThrows, AddNoSpace, Reject
    <3> QED BY <1>1, <3>1
  <2>2. ASSUME NEW r \in Routes, NEW hop \in NextHops, Add(r, hop) PROVE Goal
    <3> DEFINE key == Masked(r)
               fresh == key \notin DOMAIN rules
    <3>1. UNCHANGED tables /\ StartAdd(key, hop, fresh, {})
      BY <2>2 DEF Add
    <3>2. PoolOnce' /\ LinksKept'
      BY <3>1, LinksUnchanged DEF LinksInv
    <3>3. CallLinks'
      <4> HIDE DEF key, fresh
      <4> QED BY <3>1, StartAddKeepsLinks
    <3> QED BY <3>2, <3>3
  <2>3. CASE DeleteAll
    BY <2>3, DeleteManyKeepsLinks
  <2> QED BY <1>2, <2>1, <2>2, <2>3 DEF Update
<1>3. CASE Remove
  <2>1. ASSUME NEW r \in Routes, DeleteAbsent(r) PROVE Goal
    <3>1. UNCHANGED <<tables, op>>
      BY <2>1 DEF DeleteAbsent, Reject
    <3> QED BY <1>1, <3>1
  <2>2. ASSUME NEW r \in Routes, Delete(r) PROVE Goal
    BY <2>2, DeleteKeepsLinks
  <2> QED BY <1>3, <2>1, <2>2 DEF Remove
<1>4. CASE AddStep
  BY <1>4, AddStepNewTableKeepsLinks, AddStepDescendKeepsLinks, AddStepLastKeepsLinks
  DEF AddStep
<1>5. CASE DeleteStep
  BY <1>5, DeleteUnrefKeepsLinks, DeleteUnlinkKeepsLinks, DeleteClearKeepsLinks
  DEF DeleteStep
<1>6. CASE Bulk
  <2>1. ASSUME NEW keys, DeleteBulk(keys) PROVE Goal
    BY <2>1, DeleteManyKeepsLinks
  <2>2. ASSUME NEW key, Rebuild(key) PROVE Goal
    <3> DEFINE rest == op.todo \ {key}
    <3>1. UNCHANGED tables /\ StartAdd(key, rules[key], FALSE, rest)
      BY <2>2 DEF Rebuild
    <3>2. PoolOnce' /\ LinksKept'
      BY <3>1, LinksUnchanged DEF LinksInv
    <3>3. CallLinks'
      <4> HIDE DEF rest
      <4> QED BY <3>1, StartAddKeepsLinks
    <3> QED BY <3>2, <3>3
  <2> QED BY <1>6, <2>1, <2>2 DEF Bulk
<1>7. CASE Lookups
  <2>1. UNCHANGED <<tables, op>>
    BY <1>7 DEF Lookups, Lookup
  <2> QED BY <1>1, <2>1
<1>8. CASE UNCHANGED vars
  <2>1. UNCHANGED <<tables, op>>
    BY <1>8 DEF vars, tables
  <2> QED BY <1>1, <2>1
<1> QED BY <1>2, <1>3, <1>4, <1>5, <1>6, <1>7, <1>8 DEF AnyNext, Next

\* Subtree adds, step by step, what is linked from the groups it has; they are
\* all in use.
LEMMA SubtreeSteps ==
  ASSUME LinksKept, NEW groups \in SUBSET Taken
  PROVE  \E s : /\ s[0] = groups /\ s[IPV6_ADDR_SIZE] = Subtree(groups)
                /\ \A n \in 0..IPV6_ADDR_SIZE : s[n] \subseteq Taken
                /\ \A n \in 1..IPV6_ADDR_SIZE :
                     s[n] = s[n - 1] \cup UNION {LinkedFrom(g, Slots(g)) : g \in s[n - 1]}
<1> DEFINE lo == 0
           hi == IPV6_ADDR_SIZE
           V == SUBSET Taken
           more(above) == above \cup UNION {LinkedFrom(g, Slots(g)) : g \in above}
           step == [n \in (lo + 1)..hi |-> [above \in V |-> more(above)]]
           Unfolded(s) ==
             [n \in 0..IPV6_ADDR_SIZE |-> IF n = 0 THEN groups ELSE more(s[n - 1])]
<1>1. \A above \in V : more(above) \in V
  <2> SUFFICES ASSUME NEW above \in V, NEW g \in above
               PROVE  LinkedFrom(g, Slots(g)) \subseteq Taken
    OBVIOUS
  <2> QED BY DEF LinkedFrom, LinksKept, Live
<1>2. lo \in Nat /\ hi \in Nat /\ lo <= hi /\ groups \in V
  BY LevelRange
<1>3. step \in Steps(lo, hi, V)
  <2> HIDE DEF V, more
  <2> QED BY <1>1 DEF Steps
<1>4. PICK f : Computed(f, lo, hi, V, groups, step)
  <2> HIDE DEF V, step, lo, hi
  <2> QED BY <1>2, <1>3, RecursiveFunction
<1>5. f = Unfolded(f)
  <2> HIDE DEF V, more
  <2>1. f \in [lo..hi -> V] /\ f[0] = groups
    BY <1>4 DEF Computed
  <2>2. ASSUME NEW n \in lo..hi, n # 0
        PROVE  f[n] = more(f[n - 1])
    <3>1. n \in (lo + 1)..hi /\ n - 1 \in lo..hi
      BY <1>2, <2>2
    <3>2. f[n - 1] \in V /\ f[n] = step[n][f[n - 1]]
      BY <1>4, <2>1, <3>1 DEF Computed
    <3> QED BY <3>1, <3>2
  <2> QED BY <2>1, <2>2
<1>6. PICK s : s = Unfolded(s) /\ Subtree(groups) = s[IPV6_ADDR_SIZE]
  <2> DEFINE s == CHOOSE s : s = Unfolded(s)
  <2>1. Subtree(groups) = s[IPV6_ADDR_SIZE]
    BY DEF Subtree
  <2> HIDE DEF Unfolded
  <2>2. s = Unfolded(s)
    BY <1>5
  <2> QED BY <2>1, <2>2
<1> DEFINE Bad == {n \in lo..hi : ~(s[n] \subseteq Taken)}
<1>7. \A n \in lo..hi : s[n] = IF n = 0 THEN groups ELSE more(s[n - 1])
  <2> HIDE DEF more
  <2> QED BY <1>6
<1>8. Bad = {}
  <2> SUFFICES ASSUME Bad # {} PROVE FALSE
    OBVIOUS
  <2>1. Bad \in SUBSET Nat
    OBVIOUS
  <2>2. PICK n \in Bad : \A k \in Bad : n <= k
    <3> HIDE DEF Bad
    <3> QED BY <2>1, LeastNatural
  <2>3. n \in lo..hi /\ n # 0
    BY <1>7
  <2>4. n - 1 \in lo..hi /\ n - 1 \notin Bad
    <3>1. n - 1 \in lo..hi /\ ~(n <= n - 1)
      BY <1>2, <2>3
    <3> HIDE DEF Bad
    <3> QED BY <2>2, <3>1
  <2>5. s[n - 1] \in V /\ s[n] = more(s[n - 1])
    BY <1>7, <2>3, <2>4
  <2>6. s[n] \in V
    <3> HIDE DEF V, more
    <3> QED BY <1>1, <2>5
  <2> QED BY <2>6
<1>9. s[0] = groups /\ \A n \in 1..hi : s[n] = more(s[n - 1])
  <2>1. 0 \in lo..hi /\ \A n \in 1..hi : n \in lo..hi /\ n # 0
    BY <1>2
  <2> HIDE DEF more
  <2> QED BY <1>7, <2>1
<1> QED BY <1>6, <1>8, <1>9

\* Whatever links lead to from tables in use is in use.
LEMMA SubtreeIsTaken ==
  ASSUME LinksKept, NEW groups \in SUBSET Taken
  PROVE  Subtree(groups) \subseteq Taken
<1>1. PICK s : /\ s[IPV6_ADDR_SIZE] = Subtree(groups)
               /\ \A n \in 0..IPV6_ADDR_SIZE : s[n] \subseteq Taken
  BY SubtreeSteps
<1>2. IPV6_ADDR_SIZE \in 0..IPV6_ADDR_SIZE
  BY LevelRange
<1> QED BY <1>1, <1>2

\* With a group outside the pool, the pool's position is not at its start.
LEMMA TakenMeansPosition ==
  ASSUME IndInv, PoolOnce, NEW g \in Taken
  PROVE  tbl8_pool_pos # 0
<1> SUFFICES ASSUME tbl8_pool_pos = 0 PROVE FALSE
  OBVIOUS
<1>1. tbl8_pool \in [Groups -> Groups] /\ Groups = 0..(NUMBER_TBL8S - 1) /\ g \in Groups
  BY LiveTables DEF IndInv, TypeOK, Groups
<1>2. \A i \in Groups : tbl8_pool[i] # g
  BY <1>1 DEF Taken, Free
<1>3. tbl8_pool \in [Groups -> Groups \ {g}]
  BY <1>1, <1>2
<1>4. IsFiniteSet(Groups)
  BY <1>1, Constants, FS_Interval
<1>5. IsFiniteSet(Groups \ {g}) /\ Cardinality(Groups \ {g}) = Cardinality(Groups) - 1
  BY <1>1, <1>4, FS_RemoveElement
<1>6. Cardinality(Groups) \in Nat
  BY <1>4, FS_CardinalityType
<1>7. \E i, j \in Groups : i # j /\ tbl8_pool[i] = tbl8_pool[j]
  BY <1>3, <1>4, <1>5, <1>6, FS_PigeonHole
<1> QED BY <1>1, <1>7 DEF PoolOnce

LEMMA ConsequencesOfLinks ==
  ASSUME LinksInv
  PROVE  OwnersExact /\ UnlinkFindsLink
<1>1. Reachable \cup {TBL24_IND} \subseteq Live
  <2>1. LinkedFrom(TBL24_IND, Slots(TBL24_IND)) \in SUBSET Taken
    BY DEF LinksInv, LinksKept, LinkedFrom, Live
  <2>2. Reachable \subseteq Taken
    BY <2>1, SubtreeIsTaken DEF LinksInv, Reachable
  <2> QED BY <2>2 DEF Live
<1>2. OwnersExact
  BY <1>1 DEF OwnersExact, LinksInv, LinksKept, Owner, OwnerEntry
<1>3. ASSUME op.pc = "unlink" PROVE UnlinkFindsLink
  <2>1. op.chain \in Seq(Groups) /\ op.chain # <<>> /\ ChainLinked
    BY <1>3 DEF LinksInv, IndInv, TypeOK, CallOK, CallLinks, Call
  <2>2. Head(op.chain) = op.chain[1] /\ 1 \in DOMAIN op.chain
    BY <2>1
  <2>3. /\ op.chain[1] \in Taken
        /\ tbl[Owner(op.chain[1])][OwnerEntry(op.chain[1])].ext_entry
    BY <2>1, <2>2 DEF ChainLinked
  <2>4. tbl8_pool_pos # 0
    BY <2>3, TakenMeansPosition DEF LinksInv
  <2> QED BY <2>2, <2>3, <2>4 DEF UnlinkFindsLink, Owner, OwnerEntry
<1> QED BY <1>2, <1>3 DEF UnlinkFindsLink

\* The header of a linked group names the one entry that links it: no two
\* entries share a group, whatever the calls and even where reference counts
\* have gone wrong after a bulk deletion (init_tbl8_header, remove_tbl).
THEOREM OwnersStayExact ==
  ASSUME GroupsFit
  PROVE  AnySpec => []OwnersExact
<1>1. LinksInv /\ [AnyNext]_vars => LinksInv'
  BY StepKeepsLinks
<1>2. LinksInv => OwnersExact
  BY ConsequencesOfLinks
<1> QED BY <1>1, <1>2, CreateEstablishesLinks, PTL DEF AnySpec

\* Both assertions of remove_tbl hold in every deletion: the entry a group is
\* unlinked from is a link, and the pool has room for the group.
THEOREM UnlinkAlwaysFindsLink ==
  ASSUME GroupsFit
  PROVE  AnySpec => []UnlinkFindsLink
<1>1. LinksInv /\ [AnyNext]_vars => LinksInv'
  BY StepKeepsLinks
<1>2. LinksInv => UnlinkFindsLink
  BY ConsequencesOfLinks
<1> QED BY <1>1, <1>2, CreateEstablishesLinks, PTL DEF AnySpec

\* A group that links lead to from a table in use is never in the pool, and
\* the pool holds no group twice: tbl8_get hands out none that lookups may walk.
THEOREM LinkedIsNeverFree ==
  ASSUME GroupsFit
  PROVE  AnySpec => [](PoolOnce /\ LinksKept)
<1>1. LinksInv /\ [AnyNext]_vars => LinksInv'
  BY StepKeepsLinks
<1>2. LinksInv => PoolOnce /\ LinksKept
  BY DEF LinksInv
<1> QED BY <1>1, <1>2, CreateEstablishesLinks, PTL DEF AnySpec

-----------------------------------------------------------------------------
(* Walks through any tables of the right shape: how far they go            *)

\* A walk that has met no table at some level meets none below it.
LEMMA WalkStops ==
  ASSUME NEW T, TablesOK(T), NEW ip \in Address, NEW m \in Levels, NEW n \in Levels,
         m <= n, WalkIn(T, ip)[n] # NO_TABLE
  PROVE  WalkIn(T, ip)[m] # NO_TABLE
<1> DEFINE w == WalkIn(T, ip)
           Lost == {k \in Levels : m <= k /\ w[k] # NO_TABLE}
<1> SUFFICES ASSUME w[m] = NO_TABLE PROVE FALSE
  OBVIOUS
<1>1. \A k \in Levels \ {ADD_FIRST_BYTE} : w[k] = BelowIn(T, w[k - 1], ip, k)
  BY WalkInUnfolds
<1> HIDE DEF w
<1>2. Lost \in SUBSET Nat /\ n \in Lost
  BY LevelRange DEF w
<1>3. PICK k \in Lost : \A l \in Lost : k <= l
  <2> HIDE DEF Lost
  <2> QED BY <1>2, LeastNatural
<1>4. k # m /\ k - 1 \in Levels /\ m <= k - 1 /\ k # ADD_FIRST_BYTE
  BY LevelRange
<1>5. w[k - 1] = NO_TABLE
  <2>1. k - 1 \notin Lost
    <3>1. ~(k <= k - 1)
      BY LevelRange
    <3> HIDE DEF Lost
    <3> QED BY <1>3, <3>1
  <2> QED BY <1>4, <2>1
<1>6. w[k] = NO_TABLE
  BY <1>1, <1>4, <1>5 DEF BelowIn
<1> QED BY <1>6

\* Where the links of the tables on a walk stay, the walk goes on as it did.
LEMMA WalkGoesOn ==
  ASSUME NEW T, NEW U, TablesOK(T), TablesOK(U), NEW ip \in Address, NEW L,
         \A t \in Tables \cap L : \A j \in Slots(t) : IsLink(T[t][j]) => U[t][j] = T[t][j],
         \A m \in Levels : WalkIn(T, ip)[m] \in L \cup {NO_TABLE},
         NEW n \in Levels, WalkIn(T, ip)[n] # NO_TABLE
  PROVE  WalkIn(U, ip)[n] = WalkIn(T, ip)[n]
<1> DEFINE w == WalkIn(T, ip)
           v == WalkIn(U, ip)
           Off == {k \in Levels : w[k] # NO_TABLE /\ v[k] # w[k]}
<1>1. \A k \in Levels \ {ADD_FIRST_BYTE} :
        w[k] = BelowIn(T, w[k - 1], ip, k) /\ v[k] = BelowIn(U, v[k - 1], ip, k)
  BY WalkInUnfolds
<1>2. /\ v[ADD_FIRST_BYTE] = w[ADD_FIRST_BYTE]
      /\ \A k \in Levels : /\ w[k] \in Tables \cup {NO_TABLE}
                           /\ w[k] = TBL24_IND <=> k = ADD_FIRST_BYTE
                           /\ w[k] \in L \cup {NO_TABLE}
  BY WalkInUnfolds
<1> SUFFICES ASSUME v[n] # w[n] PROVE FALSE
  OBVIOUS
<1>3. Off \in SUBSET Nat /\ n \in Off
  BY LevelRange
<1> HIDE DEF w, v
<1>4. PICK k \in Off : \A l \in Off : k <= l
  <2> HIDE DEF Off
  <2> QED BY <1>3, LeastNatural
<1>5. k \in Levels /\ k # ADD_FIRST_BYTE /\ k - 1 \in Levels
  BY <1>2, LevelRange
<1> DEFINE t == w[k - 1]
           j == get_bitshift(ip, k - 1)
<1>6. w[k] = (IF t # NO_TABLE /\ IsLink(T[t][j]) THEN T[t][j].next_hop ELSE NO_TABLE)
  BY <1>1, <1>5 DEF BelowIn
<1>7. t # NO_TABLE /\ IsLink(T[t][j])
  BY <1>6
<1>8. v[k - 1] = t
  <2>1. k - 1 \notin Off
    <3>1. ~(k <= k - 1)
      BY <1>5, LevelRange
    <3> HIDE DEF Off
    <3> QED BY <1>4, <3>1
  <2> QED BY <1>5, <1>7, <2>1
<1>9. t \in Tables \cap L /\ j \in Slots(t)
  BY <1>2, <1>5, <1>7, SlotOfAddress
<1>10. U[t][j] = T[t][j]
  BY <1>7, <1>9
<1>11. v[k] = w[k]
  <2> HIDE DEF t, j
  <2> QED BY <1>1, <1>5, <1>8, <1>6, <1>10 DEF BelowIn, t, j
<1> QED BY <1>11

\* The last level of a walk is there, and no table is below it.
LEMMA LastLevelIs ==
  ASSUME NEW T, TablesOK(T), NEW ip \in Address, NEW n \in Levels
  PROVE  /\ LastLevel(WalkIn(T, ip), n) \in ADD_FIRST_BYTE..n
         /\ WalkIn(T, ip)[LastLevel(WalkIn(T, ip), n)] # NO_TABLE
         /\ \A m \in Levels : m <= n /\ LastLevel(WalkIn(T, ip), n) < m =>
              WalkIn(T, ip)[m] = NO_TABLE
<1> DEFINE w == WalkIn(T, ip)
           lo == ADD_FIRST_BYTE
           S == {m \in lo..n : w[m] # NO_TABLE}
<1>1. lo \in Nat /\ n \in Nat /\ lo <= n /\ \A m \in lo..n : m \in Levels
  BY LevelRange
<1>2. w[lo] # NO_TABLE
  BY WalkInUnfolds, LiveTables, Constants
<1> HIDE DEF w
<1>3. PICK m \in S : \A k \in S : k <= m
  <2>1. S \in SUBSET (0..n) /\ lo \in S
    BY <1>1, <1>2
  <2> HIDE DEF S
  <2> QED BY <1>1, <2>1, GreatestNatural
<1>4. m = n \/ w[m + 1] = NO_TABLE
  <2>1. m + 1 \notin S
    <3>1. ~(m + 1 <= m)
      BY <1>1
    <3> HIDE DEF S
    <3> QED BY <1>3, <3>1
  <2> QED BY <1>1, <2>1
<1> DEFINE last == LastLevel(w, n)
<1>5. last \in lo..n /\ w[last] # NO_TABLE /\ (last = n \/ w[last + 1] = NO_TABLE)
  BY <1>3, <1>4 DEF LastLevel
<1>6. ASSUME NEW k \in Levels, k <= n, last < k PROVE w[k] = NO_TABLE
  <2> HIDE DEF last
  <2>1. last + 1 \in Levels /\ last + 1 <= k /\ last # n
    BY <1>1, <1>5, <1>6, LevelRange
  <2> QED BY <1>5, <2>1, WalkStops DEF w
<1> QED BY <1>5, <1>6 DEF w

\* The level where a rule ends is the first that covers its depth.
LEMMA LevelOfIs ==
  ASSUME NEW depth \in Depth
  PROVE  /\ LevelOf(depth) \in Levels
         /\ depth <= BitsCovered(LevelOf(depth))
         /\ LevelOf(depth) = ADD_FIRST_BYTE \/ depth > BitsCovered(LevelOf(depth) - 1)
<1> DEFINE S == {n \in Levels : depth <= BitsCovered(n)}
<1>1. IPV6_ADDR_SIZE \in Levels /\ Levels \subseteq Nat
  BY LevelRange
<1>2. BitsCovered(IPV6_ADDR_SIZE) = MAX_DEPTH
  BY SizesAssumption DEF BitsCovered, MAX_DEPTH
<1>3. IPV6_ADDR_SIZE \in S
  BY <1>1, <1>2 DEF Depth
<1>4. PICK n \in S : \A k \in S : n <= k
  BY <1>1, <1>3, LeastNatural
<1>5. n = ADD_FIRST_BYTE \/ depth > BitsCovered(n - 1)
  <2> SUFFICES ASSUME n # ADD_FIRST_BYTE PROVE depth > BitsCovered(n - 1)
    OBVIOUS
  <2>1. n - 1 \in Levels
    BY LevelRange
  <2>2. n - 1 \notin S
    BY <1>1, <1>4
  <2>3. BitsCovered(n - 1) \in Nat /\ depth \in Nat
    BY <2>1, BitsCoveredRange DEF Depth
  <2> QED BY <2>1, <2>2, <2>3
<1> QED BY <1>4, <1>5 DEF LevelOf

\* Levels cover more bits the deeper they are.
LEMMA BitsGrow ==
  ASSUME NEW m \in Levels, NEW n \in Levels, m <= n
  PROVE  BitsCovered(m) <= BitsCovered(n)
<1>1. m \in Nat /\ n \in Nat /\ BYTE_SIZE \in Nat
  BY LevelRange, SizesAssumption
<1> QED BY <1>1 DEF BitsCovered

\* An insertion goes on exactly from the levels above the one where it ends.
LEMMA DeeperIsAbove ==
  ASSUME NEW depth \in Depth, NEW n \in Levels
  PROVE  depth > BitsCovered(n) <=> n < LevelOf(depth)
<1> DEFINE L == LevelOf(depth)
<1>1. /\ L \in Levels /\ depth <= BitsCovered(L)
      /\ L = ADD_FIRST_BYTE \/ depth > BitsCovered(L - 1)
  BY LevelOfIs
<1> HIDE DEF L
<1>2. \A k \in Levels : BitsCovered(k) \in Nat
  BY BitsCoveredRange
<1>3. depth \in Nat
  BY Constants
<1>4. CASE n < L
  <2>1. L # ADD_FIRST_BYTE /\ L - 1 \in Levels /\ n <= L - 1
    BY <1>1, <1>4, LevelRange
  <2>2. BitsCovered(n) <= BitsCovered(L - 1)
    BY <2>1, BitsGrow
  <2> QED BY <1>1, <1>2, <1>3, <1>4, <2>1, <2>2 DEF L
<1>5. CASE ~(n < L)
  <2>1. L <= n
    BY <1>1, <1>5, LevelRange
  <2>2. BitsCovered(L) <= BitsCovered(n)
    BY <1>1, <2>1, BitsGrow
  <2> QED BY <1>1, <1>2, <1>3, <1>5, <2>2 DEF L
<1> QED BY <1>4, <1>5

\* More than q bytes and at most one more are q + 1 bytes, the last perhaps in part.
LEMMA BytesRoundUp ==
  ASSUME NEW b \in Nat \ {0}, NEW q \in Nat, NEW rest \in Nat,
         rest > q * b, rest <= (q + 1) * b
  PROVE  rest \div b + (IF rest % b > 0 THEN 1 ELSE 0) = q + 1
<1> DEFINE d == rest \div b
           r == rest % b
<1>1. d \in Nat /\ r \in 0..(b - 1) /\ rest = b * d + r
  OBVIOUS
<1> HIDE DEF d, r
<1>2. CASE r = 0
  <2>1. q * b < d * b /\ d * b <= (q + 1) * b
    BY <1>1, <1>2
  <2>2. d = q + 1
    BY <1>1, <2>1
  <2> QED BY <1>2, <2>2 DEF d, r
<1>3. CASE r # 0
  <2>1. r > 0 /\ q * b < d * b + b /\ d * b < (q + 1) * b
    BY <1>1, <1>3
  <2>2. (d + 1) * b = d * b + b
    BY <1>1
  <2>3. d < q + 1 /\ q < d + 1
    BY <1>1, <2>1, <2>2
  <2>4. d = q
    BY <1>1, <2>3
  <2> QED BY <2>1, <2>4 DEF d, r
<1> QED BY <1>2, <1>3

\* simulate_add counts the levels below the last table on the rule's way.
LEMMA SimulatedGroups ==
  ASSUME IndInv, NEW key \in Prefix
  PROVE  simulate_add(key) =
           LevelOf(key.depth) - LastLevel(Walk(key.ip), LevelOf(key.depth))
<1> DEFINE L == LevelOf(key.depth)
           last == LastLevel(Walk(key.ip), L)
           rest == key.depth - BitsCovered(last)
<1>1. key.ip \in Address /\ key.depth \in Depth /\ TablesOK(tbl)
  BY DEF Prefix, IndInv, TypeOK, TablesOK
<1>2. /\ L \in Levels /\ key.depth <= BitsCovered(L)
      /\ L = ADD_FIRST_BYTE \/ key.depth > BitsCovered(L - 1)
  BY <1>1, LevelOfIs
<1>3. last \in ADD_FIRST_BYTE..L
  <2> HIDE DEF L
  <2> QED BY <1>1, <1>2, LastLevelIs DEF Walk
<1>4. simulate_add(key) = IF rest <= 0 THEN 0
                          ELSE rest \div BYTE_SIZE + (IF rest % BYTE_SIZE > 0 THEN 1 ELSE 0)
  BY DEF simulate_add
<1> HIDE DEF last, L
<1>5. last \in Levels /\ last \in Nat /\ L \in Nat /\ key.depth \in Nat /\ BYTE_SIZE \in Nat \ {0}
  <2>1. L \in Levels /\ last \in ADD_FIRST_BYTE..L
    BY <1>2, <1>3
  <2>2. last \in Levels /\ last \in Nat /\ L \in Nat
    BY <2>1, LevelRange
  <2>3. key.depth \in Nat
    BY <1>1, Constants
  <2> QED BY <2>2, <2>3, SizesAssumption
<1>6. BitsCovered(last) \in Nat
  BY <1>5 DEF BitsCovered
<1>7. CASE last = L
  <2>1. rest <= 0
    BY <1>2, <1>5, <1>6, <1>7
  <2> QED BY <1>4, <1>5, <1>7, <2>1 DEF L, last
<1>8. CASE last # L
  <2> DEFINE q == L - 1 - last
  <2>1. q \in Nat /\ L # ADD_FIRST_BYTE /\ L = last + (q + 1)
    BY <1>2, <1>3, <1>5, <1>8, LevelRange
  <2>2. key.depth > BitsCovered(L - 1)
    BY <1>2, <2>1
  <2>3. /\ BitsCovered(L - 1) = BitsCovered(last) + q * BYTE_SIZE
        /\ BitsCovered(L) = BitsCovered(last) + (q + 1) * BYTE_SIZE
    BY <1>5 DEF BitsCovered
  <2>4. q * BYTE_SIZE \in Nat /\ (q + 1) * BYTE_SIZE \in Nat
    BY <1>5, <2>1
  <2> HIDE DEF q
  <2>5. rest > q * BYTE_SIZE /\ rest <= (q + 1) * BYTE_SIZE /\ rest \in Nat /\ rest > 0
    BY <1>2, <1>5, <1>6, <2>2, <2>3, <2>4
  <2> HIDE DEF rest
  <2>6. rest \div BYTE_SIZE + (IF rest % BYTE_SIZE > 0 THEN 1 ELSE 0) = q + 1
    BY <1>5, <2>1, <2>5, BytesRoundUp
  <2>7. q + 1 = L - last
    BY <1>5, <2>1
  <2> QED BY <1>4, <2>5, <2>6, <2>7 DEF L, last
<1> QED BY <1>7, <1>8

-----------------------------------------------------------------------------
(* Admission: a rule that simulate_add lets in finds its groups            *)

\* An insertion is at a table of the walk to its rule.
AddOnWalk ==
  op.pc = "add" =>
    /\ op.cur = Walk(op.key.ip)[op.level]
    /\ op.level <= LevelOf(op.key.depth)

\* The pool has a group for each level below some table on that walk.
RoomLeft ==
  op.pc = "add" =>
    \E m \in ADD_FIRST_BYTE..LevelOf(op.key.depth) :
      /\ Walk(op.key.ip)[m] # NO_TABLE
      /\ tbl8_available >= LevelOf(op.key.depth) - m

AdmitInv == LinksInv /\ AddOnWalk /\ RoomLeft

\* The call of an insertion has a rule and a level.
LEMMA AddingTypes ==
  ASSUME IndInv
  PROVE  /\ op \in Call /\ op.key \in Prefix /\ op.key.ip \in Address
         /\ op.key.depth \in Depth /\ op.level \in Levels
         /\ LevelOf(op.key.depth) \in Levels /\ op.todo \in SUBSET Prefix
<1>1. op \in Call /\ op.key \in Prefix /\ op.level \in Levels /\ op.todo \in SUBSET Prefix
  BY DEF IndInv, TypeOK, Call
<1>2. op.key.ip \in Address /\ op.key.depth \in Depth
  BY <1>1 DEF Prefix
<1> QED BY <1>1, <1>2, LevelOfDepth

\* What the step that takes a group does to the tables and the pool.
LEMMA NewTableEffect ==
  ASSUME GroupsFit, LinksInv, AddStepNewTable
  PROVE  /\ op.cur \in Live /\ op.cur \in Tables /\ op.cur # tbl8_get
         /\ AddSlot \in Slots(op.cur)
         /\ AddEntry \in Entry /\ ~IsLink(AddEntry)
         /\ tbl8_get \in Groups \ Live
         /\ Taken' = Taken \cup {tbl8_get}
         /\ Link(tbl8_get).next_hop = tbl8_get /\ IsLink(Link(tbl8_get))
         /\ \A u \in Tables \ {tbl8_get, op.cur} : tbl'[u] = tbl[u]
         /\ \A i \in Slots(op.cur) :
              tbl'[op.cur][i] = IF i = AddSlot THEN Link(tbl8_get) ELSE tbl[op.cur][i]
         /\ \A i \in Slots(tbl8_get) : ~IsLink(tbl'[tbl8_get][i])
<1> DEFINE g == tbl8_get
           c == op.cur
           s == AddSlot
           e == AddEntry
           fill == [j \in Slots(g) |-> PushedDown(e)]
<1>1. /\ op \in Call /\ op.pc = "add" /\ c \in Live /\ c \in Tables
      /\ s \in Slots(c) /\ e \in Entry /\ ~IsLink(e)
  BY AddEntryType, LiveTables DEF AddStepNewTable, LinksInv, CallLinks, IndInv, TypeOK
<1>2. /\ tbl8_pool_pos \in 0..(NUMBER_TBL8S - 1) /\ tbl8_pool_pos' = tbl8_pool_pos + 1
      /\ tbl8_pool' = tbl8_pool /\ g = tbl8_pool[tbl8_pool_pos]
      /\ g \in Free /\ g \in Groups /\ NUMBER_TBL8S \in Nat
  BY Constants DEF AddStepNewTable, tbl8_get, LinksInv, IndInv, TypeOK, Groups, Free
<1>3. Free' = Free \ {g}
  BY <1>2 DEF LinksInv, PoolOnce, Free
<1>4. Taken' = Taken \cup {g} /\ g \notin Live /\ c # g
  BY <1>1, <1>2, <1>3, Constants DEF Taken, Live
<1>5. Link(g).next_hop = g /\ IsLink(Link(g))
  <2>1. g \in Nat /\ g < 2 ^ NEXT_HOP_BITS
    BY <1>2, Constants DEF GroupsFit, Groups
  <2>2. g % 2 ^ NEXT_HOP_BITS = g
    BY <2>1, Constants
  <2> QED BY <2>2 DEF Link, IsLink
<1>6. /\ \A u \in Tables \ {g, c} : tbl'[u] = tbl[u]
      /\ tbl'[g] = fill
      /\ \A i \in Slots(c) : tbl'[c][i] = IF i = s THEN Link(g) ELSE tbl[c][i]
  <2>1. tbl' = [[tbl EXCEPT ![g] = fill] EXCEPT ![c][s] = Link(g)]
    BY DEF AddStepNewTable
  <2>2. DOMAIN tbl = Tables /\ tbl[c] \in [Slots(c) -> Entry] /\ g \in Tables
    BY <1>1, <1>2, Constants DEF LinksInv, IndInv, TypeOK
  <2> HIDE DEF fill, g, c, s
  <2> QED BY <1>1, <1>4, <2>1, <2>2
<1>7. ~IsLink(PushedDown(e))
  BY <1>1 DEF PushedDown, IsLink, Invalid
<1>8. \A i \in Slots(g) : ~IsLink(tbl'[g][i])
  BY <1>6, <1>7
<1> QED BY <1>1, <1>2, <1>4, <1>5, <1>6, <1>8

\* A new group lengthens the walk to the rule and disturbs no other.
LEMMA NewTableWalks ==
  ASSUME GroupsFit, LinksInv, IndInv', AddOnWalk, AddStepNewTable
  PROVE  /\ \A ip \in Address : \A n \in Levels :
              Walk(ip)[n] # NO_TABLE => WalkIn(tbl', ip)[n] = Walk(ip)[n]
         /\ op.level + 1 \in Levels /\ op.level < LevelOf(op.key.depth)
         /\ op.cur = Walk(op.key.ip)[op.level]
         /\ Walk(op.key.ip)[op.level + 1] = NO_TABLE
         /\ WalkIn(tbl', op.key.ip)[op.level + 1] = tbl8_get
<1> DEFINE g == tbl8_get
           c == op.cur
           s == AddSlot
           ip0 == op.key.ip
<1>1. /\ c \in Live /\ c \in Tables /\ c # g /\ s \in Slots(c) /\ ~IsLink(AddEntry)
      /\ g \in Groups \ Live
      /\ Link(g).next_hop = g /\ IsLink(Link(g))
      /\ \A u \in Tables \ {g, c} : tbl'[u] = tbl[u]
      /\ \A i \in Slots(c) : tbl'[c][i] = IF i = s THEN Link(g) ELSE tbl[c][i]
  BY NewTableEffect
<1>2. TablesOK(tbl) /\ TablesOK(tbl') /\ IndInv
  BY DEF LinksInv, IndInv, TypeOK, TablesOK
<1>3. /\ op.pc = "add" /\ Deeper /\ ip0 \in Address /\ op.level \in Levels
      /\ LevelOf(op.key.depth) \in Levels /\ c = Walk(ip0)[op.level]
      /\ op.key.depth \in Depth
  BY <1>2, AddingTypes DEF AddStepNewTable, AddOnWalk
<1>4. op.level < LevelOf(op.key.depth) /\ op.level + 1 \in Levels /\ op.level \in Nat
  <2>1. op.level < LevelOf(op.key.depth)
    BY <1>3, DeeperIsAbove DEF Deeper
  <2> QED BY <1>3, <2>1, LevelRange
<1>5. s = get_bitshift(ip0, op.level) /\ AddEntry = tbl[c][s]
  BY DEF AddSlot, AddEntry
<1> HIDE DEF g, c, s, ip0
<1>6. \A t \in Tables \cap Live : \A j \in Slots(t) :
        IsLink(tbl[t][j]) => tbl'[t][j] = tbl[t][j]
  <2> TAKE t \in Tables \cap Live
  <2> TAKE j \in Slots(t)
  <2>1. CASE t = c
    BY <1>1, <1>5, <2>1
  <2>2. CASE t # c
    <3>1. t # g
      BY <1>1
    <3> QED BY <1>1, <2>2, <3>1
  <2> QED BY <2>1, <2>2
<1>7. ASSUME NEW ip \in Address, NEW n \in Levels, Walk(ip)[n] # NO_TABLE
      PROVE  WalkIn(tbl', ip)[n] = Walk(ip)[n]
  <2>1. \A m \in Levels : WalkIn(tbl, ip)[m] \in Live \cup {NO_TABLE}
    BY WalkIsLive DEF LinksInv, Walk
  <2> QED BY <1>2, <1>6, <1>7, <2>1, WalkGoesOn DEF Walk
<1>8. c # NO_TABLE
  BY <1>1, LiveTables
<1>9. WalkIn(tbl', ip0)[op.level] = c
  BY <1>3, <1>7, <1>8
<1>10. op.level + 1 # ADD_FIRST_BYTE /\ (op.level + 1) - 1 = op.level
  BY <1>3, <1>4, LevelRange
<1>11. /\ WalkIn(tbl', ip0)[op.level + 1] = BelowIn(tbl', c, ip0, op.level + 1)
       /\ Walk(ip0)[op.level + 1] = BelowIn(tbl, c, ip0, op.level + 1)
  BY <1>2, <1>3, <1>4, <1>9, <1>10, WalkInUnfolds DEF Walk
<1>12. tbl'[c][s] = Link(g)
  BY <1>1
<1>13. WalkIn(tbl', ip0)[op.level + 1] = g /\ Walk(ip0)[op.level + 1] = NO_TABLE
  BY <1>1, <1>5, <1>8, <1>10, <1>11, <1>12 DEF BelowIn
<1> QED BY <1>3, <1>4, <1>7, <1>13 DEF g, c, ip0

LEMMA NewTableKeepsAdmission ==
  ASSUME GroupsFit, AdmitInv, IndInv', AddStepNewTable
  PROVE  AddOnWalk' /\ RoomLeft'
<1> DEFINE L == LevelOf(op.key.depth)
           ip == op.key.ip
<1>1. /\ \A n \in Levels : Walk(ip)[n] # NO_TABLE => WalkIn(tbl', ip)[n] = Walk(ip)[n]
      /\ op.level + 1 \in Levels /\ op.level < L
      /\ Walk(ip)[op.level + 1] = NO_TABLE
      /\ WalkIn(tbl', ip)[op.level + 1] = tbl8_get
      /\ tbl8_get \in Groups /\ Link(tbl8_get).next_hop = tbl8_get
      /\ op \in Call /\ ip \in Address /\ op.level \in Levels /\ L \in Levels
      /\ TablesOK(tbl)
  BY NewTableWalks, NewTableEffect, AddingTypes, TablesShaped DEF AdmitInv, LinksInv
<1>2. /\ op'.cur = tbl8_get /\ op'.level = op.level + 1 /\ op'.key = op.key
      /\ op'.pc = "add"
  <2>1. Descend(tbl8_get) /\ op.pc = "add"
    BY <1>1 DEF AddStepNewTable
  <2> QED BY <1>1, <2>1 DEF Descend, Call
<1>3. AddOnWalk'
  <2> HIDE DEF ip, L
  <2>1. op.level + 1 <= L
    BY <1>1, LevelRange
  <2> QED BY <1>1, <1>2, <2>1 DEF AddOnWalk, Walk, ip, L
<1>4. PICK m \in ADD_FIRST_BYTE..L : Walk(ip)[m] # NO_TABLE /\ tbl8_available >= L - m
  BY DEF AdmitInv, RoomLeft, AddStepNewTable
<1> HIDE DEF ip, L
<1>5. m \in Levels /\ m <= op.level
  <2>1. m \in Levels
    BY <1>1, LevelRange
  <2>2. ~(op.level + 1 <= m)
    BY <1>1, <1>4, <2>1, WalkStops DEF Walk
  <2> QED BY <1>1, <2>1, <2>2, LevelRange
<1>6. tbl8_available' = tbl8_available - 1 /\ tbl8_available \in Int
  <2>1. tbl8_pool_pos \in Nat /\ tbl8_pool_pos' = tbl8_pool_pos + 1 /\ NUMBER_TBL8S \in Nat
    BY Constants DEF AddStepNewTable, AdmitInv, LinksInv, IndInv, TypeOK
  <2> QED BY <2>1 DEF tbl8_available
<1>7. tbl8_available' >= L - (op.level + 1)
  BY <1>1, <1>4, <1>5, <1>6, LevelRange
<1>8. op.level + 1 \in ADD_FIRST_BYTE..L /\ WalkIn(tbl', ip)[op.level + 1] # NO_TABLE
  BY <1>1, LevelRange, LiveTables, Constants
<1>9. RoomLeft'
  BY <1>2, <1>7, <1>8 DEF RoomLeft, Walk, ip, L
<1> QED BY <1>3, <1>9

LEMMA DescendKeepsAdmission ==
  ASSUME AdmitInv, AddStepDescend
  PROVE  AddOnWalk' /\ RoomLeft'
<1> DEFINE L == LevelOf(op.key.depth)
           ip == op.key.ip
           e == AddEntry
<1>1. /\ op \in Call /\ ip \in Address /\ op.level \in Levels /\ L \in Levels
      /\ TablesOK(tbl) /\ op.key.depth \in Depth /\ op.pc = "add" /\ Deeper /\ IsLink(e)
      /\ Descend(e.next_hop)
  BY AddingTypes, TablesShaped DEF AdmitInv, LinksInv, AddStepDescend
<1>2. op.cur = Walk(ip)[op.level] /\ op.cur # NO_TABLE
  BY <1>1, LiveTables DEF AdmitInv, AddOnWalk, LinksInv, CallLinks
<1>3. op.level < L /\ op.level + 1 \in Levels /\ op.level + 1 # ADD_FIRST_BYTE
  <2>1. op.level < L
    BY <1>1, DeeperIsAbove DEF Deeper
  <2> HIDE DEF L
  <2> QED BY <1>1, <2>1, LevelRange
<1>4. (op.level + 1) - 1 = op.level
  BY <1>1, LevelRange
<1>5. Walk(ip)[op.level + 1] = e.next_hop
  <2>1. Walk(ip)[op.level + 1] = BelowIn(tbl, op.cur, ip, op.level + 1)
    BY <1>1, <1>2, <1>3, <1>4, WalkInUnfolds DEF Walk
  <2> QED BY <1>1, <1>2, <1>4, <2>1 DEF BelowIn, AddEntry, AddSlot
<1>6. /\ op'.cur = e.next_hop /\ op'.level = op.level + 1 /\ op'.key = op.key
      /\ op'.pc = "add"
  <2> HIDE DEF e
  <2> QED BY <1>1 DEF Descend, Call
<1>7. UNCHANGED tables
  BY DEF AddStepDescend
<1>8. AddOnWalk'
  <2>1. op.level + 1 <= L
    <3> HIDE DEF L
    <3> QED BY <1>1, <1>3, LevelRange
  <2> QED BY <1>5, <1>6, <1>7, <2>1 DEF AddOnWalk, Walk, tables
<1>9. RoomLeft'
  BY <1>1, <1>6, <1>7 DEF AdmitInv, RoomLeft, Walk, tables, tbl8_available
<1> QED BY <1>8, <1>9

\* A rule is admitted where it starts, at the top table.
LEMMA StartKeepsAdmission ==
  ASSUME LinksInv, UNCHANGED tables, NEW key \in Prefix, NEW hop, NEW fresh, NEW todo,
         StartAdd(key, hop, fresh, todo), tbl8_available >= simulate_add(key)
  PROVE  AddOnWalk' /\ RoomLeft'
<1> DEFINE L == LevelOf(key.depth)
           last == LastLevel(Walk(key.ip), L)
<1>1. /\ op'.pc = "add" /\ op'.cur = TBL24_IND /\ op'.key = key
      /\ op'.level = ADD_FIRST_BYTE
  BY DEF StartAdd, Idle
<1>2. key.ip \in Address /\ key.depth \in Depth /\ L \in Levels /\ TablesOK(tbl)
  BY LevelOfDepth, TablesShaped DEF Prefix, LinksInv
<1>3. tbl' = tbl /\ tbl8_available' = tbl8_available
  BY DEF tables, tbl8_available
<1>4. Walk(key.ip)[ADD_FIRST_BYTE] = TBL24_IND
  BY <1>2, WalkInUnfolds DEF Walk
<1>5. ADD_FIRST_BYTE <= L
  <2> HIDE DEF L
  <2> QED BY <1>2, LevelRange
<1>6. AddOnWalk'
  BY <1>1, <1>3, <1>4, <1>5 DEF AddOnWalk, Walk
<1>7. last \in ADD_FIRST_BYTE..L /\ Walk(key.ip)[last] # NO_TABLE
  <2> HIDE DEF L
  <2> QED BY <1>2, LastLevelIs DEF Walk
<1>8. simulate_add(key) = L - last
  BY SimulatedGroups DEF LinksInv
<1> HIDE DEF L, last
<1>9. RoomLeft'
  BY <1>1, <1>3, <1>7, <1>8 DEF RoomLeft, Walk, L
<1> QED BY <1>6, <1>9

LEMMA CreateEstablishesAdmission == Create => AdmitInv
<1> SUFFICES ASSUME Create PROVE AdmitInv
  OBVIOUS
<1>1. op.pc = "idle"
  BY DEF Create, Idle
<1> QED BY <1>1, CreateEstablishesLinks DEF AdmitInv, AddOnWalk, RoomLeft

\* A step that ends an insertion, or starts none.
LEMMA NotAdding ==
  ASSUME op'.pc # "add"
  PROVE  AddOnWalk' /\ RoomLeft'
BY DEF AddOnWalk, RoomLeft

\* Every call and every step of a call keeps the room of a running insertion.
THEOREM StepKeepsAdmission ==
  ASSUME GroupsFit
  PROVE  AdmitInv /\ [AnyNext]_vars => AdmitInv'
<1> SUFFICES ASSUME AdmitInv, [AnyNext]_vars PROVE AddOnWalk' /\ RoomLeft'
  BY StepKeepsLinks DEF AdmitInv
<1> DEFINE Goal == AddOnWalk' /\ RoomLeft'
<1>1. LinksInv /\ IndInv /\ IndInv'
  BY StepKeepsInv DEF AdmitInv, LinksInv
<1>2. ASSUME UNCHANGED <<tables, op>> PROVE Goal
  BY <1>2 DEF AdmitInv, AddOnWalk, RoomLeft, Walk, tables, tbl8_available
<1>3. ASSUME op.pc = "idle", op' = op PROVE Goal
  BY <1>3, NotAdding
<1>4. CASE Update
  <2>1. ASSUME NEW r \in Routes, RejectDepth(r) \/ AddThrows(r) \/ AddNoSpace(r) PROVE Goal
    <3>1. UNCHANGED <<tables, op>>
      BY <2>1 DEF RejectDepth, AddThrows, AddNoSpace, Reject
    <3> QED BY <1>2, <3>1
  <2>2. ASSUME NEW r \in Routes, NEW hop \in NextHops, Add(r, hop) PROVE Goal
    <3> DEFINE key == Masked(r)
               fresh == key \notin DOMAIN rules
    <3>1. /\ UNCHANGED tables /\ StartAdd(key, hop, fresh, {})
          /\ tbl8_available >= simulate_add(key) /\ r.depth \in Depth
      BY <2>2 DEF Add
    <3>2. key \in Prefix
      BY <3>1, MaskedPrefix, CreateAssumption
    <3> HIDE DEF key, fresh
    <3> QED BY <1>1, <3>1, <3>2, StartKeepsAdmission
  <2>3. CASE DeleteAll
    BY <1>3, <2>3 DEF DeleteAll
  <2> QED BY <1>4, <2>1, <2>2, <2>3 DEF Update
<1>5. CASE Remove
  <2>1. ASSUME NEW r \in Routes, DeleteAbsent(r) PROVE Goal
    <3>1. UNCHANGED <<tables, op>>
      BY <2>1 DEF DeleteAbsent, Reject
    <3> QED BY <1>2, <3>1
  <2>2. ASSUME NEW r \in Routes, Delete(r) PROVE Goal
    <3>1. op'.pc # "add"
      BY <2>2 DEF Delete, Idle
    <3> QED BY <3>1, NotAdding
  <2> QED BY <1>5, <2>1, <2>2 DEF Remove
<1>6. CASE AddStep
  <2>1. CASE AddStepNewTable
    BY <1>1, <2>1, NewTableKeepsAdmission
  <2>2. CASE AddStepDescend
    BY <2>2, DescendKeepsAdmission
  <2>3. CASE AddStepLast
    <3>1. op' = Idle \/ op' = [Idle EXCEPT !.pc = "rebuild", !.todo = op.todo]
      <4> HIDE DEF Idle
      <4> QED BY <2>3 DEF AddStepLast
    <3>2. op'.pc = "idle" \/ op'.pc = "rebuild"
      <4>1. CASE op' = Idle
        BY <4>1 DEF Idle
      <4>2. CASE op' = [Idle EXCEPT !.pc = "rebuild", !.todo = op.todo]
        BY <4>2 DEF Idle
      <4> QED BY <3>1, <4>1, <4>2
    <3> QED BY <3>2, NotAdding
  <2> QED BY <1>6, <2>1, <2>2, <2>3 DEF AddStep
<1>7. CASE DeleteStep
  <2>1. op'.pc # "add"
    <3>1. op \in Call
      BY <1>1, AddingTypes
    <3>2. CASE DeleteUnref
      BY <3>1, <3>2 DEF DeleteUnref, Call
    <3>3. CASE DeleteUnlink
      BY <3>1, <3>3 DEF DeleteUnlink, Idle, Call
    <3>4. CASE DeleteClear
      BY <3>4 DEF DeleteClear, Idle
    <3> QED BY <1>7, <3>2, <3>3, <3>4 DEF DeleteStep
  <2> QED BY <2>1, NotAdding
<1>8. CASE Bulk
  <2>1. ASSUME NEW keys, DeleteBulk(keys) PROVE Goal
    <3>1. op.pc = "idle" /\ (op' = op \/ op'.pc = "rebuild")
      BY <2>1 DEF DeleteBulk, Idle
    <3> QED BY <3>1, NotAdding
  <2>2. ASSUME NEW key, Rebuild(key) PROVE Goal
    <3> DEFINE rest == op.todo \ {key}
               hop == rules[key]
    <3>1. /\ UNCHANGED tables /\ StartAdd(key, hop, FALSE, rest)
          /\ tbl8_available >= simulate_add(key) /\ key \in op.todo
      BY <2>2 DEF Rebuild
    <3>2. key \in Prefix
      BY <1>1, <3>1, AddingTypes
    <3> HIDE DEF rest, hop
    <3> QED BY <1>1, <3>1, <3>2, StartKeepsAdmission
  <2> QED BY <1>8, <2>1, <2>2 DEF Bulk
<1>9. CASE Lookups
  <2>1. UNCHANGED <<tables, op>>
    BY <1>9 DEF Lookups, Lookup
  <2> QED BY <1>2, <2>1
<1>10. CASE UNCHANGED vars
  <2>1. UNCHANGED <<tables, op>>
    BY <1>10 DEF vars, tables
  <2> QED BY <1>2, <2>1
<1> QED BY <1>4, <1>5, <1>6, <1>7, <1>8, <1>9, <1>10 DEF AnyNext, Next

\* simulate_add counts what add_step takes: once a rule is in the rule table,
\* its insertion never finds the pool empty half way, whatever the callers did
\* before, and even where reference counts have gone wrong.
THEOREM AdmittedAddsNeverRunDry ==
  ASSUME GroupsFit
  PROVE  AnySpec => []AdmittedAddNeverRunsDry
<1>1. AdmitInv /\ [AnyNext]_vars => AdmitInv'
  BY StepKeepsAdmission
<1>2. AdmitInv => AdmittedAddNeverRunsDry
  <2> SUFFICES ASSUME AdmitInv, op.pc = "add", Deeper, ~IsLink(AddEntry)
               PROVE  tbl8_pool_pos # NUMBER_TBL8S
    BY DEF AdmittedAddNeverRunsDry
  <2> DEFINE L == LevelOf(op.key.depth)
             ip == op.key.ip
  <2>1. /\ ip \in Address /\ op.level \in Levels /\ L \in Levels
        /\ TablesOK(tbl) /\ op.key.depth \in Depth
    BY AddingTypes, TablesShaped DEF AdmitInv, LinksInv
  <2>2. op.cur = Walk(ip)[op.level]
    BY DEF AdmitInv, AddOnWalk
  <2>3. PICK m \in ADD_FIRST_BYTE..L : Walk(ip)[m] # NO_TABLE /\ tbl8_available >= L - m
    BY DEF AdmitInv, RoomLeft
  <2>4. op.level < L
    BY <2>1, DeeperIsAbove DEF Deeper
  <2> HIDE DEF L
  <2>5. op.level + 1 \in Levels /\ op.level + 1 # ADD_FIRST_BYTE
        /\ (op.level + 1) - 1 = op.level
    BY <2>1, <2>4, LevelRange
  <2> HIDE DEF ip
  <2>6. Walk(ip)[op.level + 1] = BelowIn(tbl, op.cur, ip, op.level + 1)
    BY <2>1, <2>2, <2>5, WalkInUnfolds DEF Walk
  <2>7. Walk(ip)[op.level + 1] = NO_TABLE
    BY <2>5, <2>6 DEF BelowIn, AddEntry, AddSlot, ip
  <2>8. m \in Levels /\ ~(op.level + 1 <= m)
    <3>1. m \in Levels
      BY <2>1, <2>3, LevelRange
    <3> QED BY <3>1, <2>1, <2>3, <2>5, <2>7, WalkStops DEF Walk
  <2>9. L - m > 0
    BY <2>1, <2>4, <2>8, LevelRange
  <2>10. tbl8_pool_pos \in Nat /\ NUMBER_TBL8S \in Nat
    BY Constants DEF AdmitInv, LinksInv, IndInv, TypeOK
  <2> QED BY <2>1, <2>3, <2>8, <2>9, <2>10, LevelRange DEF tbl8_available
<1> QED BY <1>1, <1>2, CreateEstablishesAdmission, PTL DEF AnySpec

-----------------------------------------------------------------------------
(* Callers that delete only in bulk: every group is on the way to a rule,  *)
(* and the rules in the table never need more groups than there are        *)

\* The rules a rebuild does not still have to insert.
Inserted == DOMAIN rules \ op.todo

BulkCall ==
  /\ op.pc \in {"idle", "add", "rebuild"}
  /\ op.pc = "add" => op.key \in Inserted

\* Links lead to the table of every rule inserted, but the running one's.
Placed ==
  \A k \in Inserted :
    (op.pc = "add" /\ k = op.key) \/ Walk(k.ip)[LevelOf(k.depth)] # NO_TABLE

\* Every group in use is on the way to an inserted rule.
Needed ==
  \A g \in Taken : \E k \in Inserted : \E n \in Levels :
    n <= LevelOf(k.depth) /\ Walk(k.ip)[n] = g

\* What the groups on the way to a rule stand for: the indexes that lead there.
Node(ip, n) == [m \in ADD_FIRST_BYTE..(n - 1) |-> get_bitshift(ip, m)]

RuleNodes(S) ==
  UNION {{Node(k.ip, n) : n \in (ADD_FIRST_BYTE + 1)..LevelOf(k.depth)} : k \in S}

NodesFit ==
  /\ IsFiniteSet(RuleNodes(DOMAIN rules))
  /\ Cardinality(RuleNodes(DOMAIN rules)) <= NUMBER_TBL8S

BulkInv == AdmitInv /\ BulkCall /\ Placed /\ Needed /\ NodesFit

-----------------------------------------------------------------------------
(* RuleNodes and groups *)

\* The indexes on a way say how long it is.
LEMMA NodeDetermines ==
  ASSUME NEW ip, NEW jp, NEW m \in Levels, NEW n \in Levels,
         m # ADD_FIRST_BYTE, n # ADD_FIRST_BYTE, Node(ip, m) = Node(jp, n)
  PROVE  /\ m = n
         /\ \A l \in ADD_FIRST_BYTE..(n - 1) : get_bitshift(ip, l) = get_bitshift(jp, l)
<1> DEFINE lo == ADD_FIRST_BYTE
<1>1. lo \in Nat /\ m \in Nat /\ n \in Nat /\ lo <= m - 1 /\ lo <= n - 1
  BY LevelRange
<1>2. DOMAIN Node(ip, m) = lo..(m - 1) /\ DOMAIN Node(jp, n) = lo..(n - 1)
  BY DEF Node
<1>3. lo..(m - 1) = lo..(n - 1)
  BY <1>2
<1>4. m - 1 \in lo..(n - 1) /\ n - 1 \in lo..(m - 1)
  <2>1. m - 1 \in lo..(m - 1) /\ n - 1 \in lo..(n - 1)
    BY <1>1
  <2> QED BY <1>3, <2>1
<1>5. m = n
  BY <1>1, <1>4
<1>6. ASSUME NEW l \in lo..(n - 1)
      PROVE  get_bitshift(ip, l) = get_bitshift(jp, l)
  <2>1. Node(ip, m)[l] = get_bitshift(ip, l) /\ Node(jp, n)[l] = get_bitshift(jp, l)
    BY <1>5 DEF Node
  <2> QED BY <2>1
<1> QED BY <1>5, <1>6

\* Addresses with the same indexes go the same way.
LEMMA SameNodeSameTable ==
  ASSUME IndInv, NEW ip \in Address, NEW jp \in Address, NEW n \in Levels,
         \A l \in ADD_FIRST_BYTE..(n - 1) : get_bitshift(ip, l) = get_bitshift(jp, l)
  PROVE  Walk(ip)[n] = Walk(jp)[n]
<1> DEFINE w == Walk(ip)
           v == Walk(jp)
           Off == {k \in Levels : k <= n /\ w[k] # v[k]}
<1>1. /\ w[ADD_FIRST_BYTE] = v[ADD_FIRST_BYTE]
      /\ \A k \in Levels \ {ADD_FIRST_BYTE} :
           w[k] = BelowIn(tbl, w[k - 1], ip, k) /\ v[k] = BelowIn(tbl, v[k - 1], jp, k)
  BY TablesShaped, WalkInUnfolds DEF Walk
<1> HIDE DEF w, v
<1> SUFFICES ASSUME w[n] # v[n] PROVE FALSE
  BY DEF w, v
<1>2. Off \in SUBSET Nat /\ n \in Off
  BY LevelRange
<1>3. PICK k \in Off : \A l \in Off : k <= l
  <2> HIDE DEF Off
  <2> QED BY <1>2, LeastNatural
<1>4. k \in Levels /\ k # ADD_FIRST_BYTE /\ k - 1 \in Levels /\ k - 1 <= n
      /\ k - 1 \in ADD_FIRST_BYTE..(n - 1)
  BY <1>1, LevelRange
<1>5. w[k - 1] = v[k - 1]
  <2>1. k - 1 \notin Off
    <3>1. ~(k <= k - 1)
      BY <1>4, LevelRange
    <3> HIDE DEF Off
    <3> QED BY <1>3, <3>1
  <2> QED BY <1>4, <2>1
<1>6. w[k] = v[k]
  BY <1>1, <1>4, <1>5 DEF BelowIn
<1> QED BY <1>6

\* A group on the walk is linked from the table above it, by the entry that
\* the address has there.
LEMMA LinkOnWalk ==
  ASSUME IndInv, LinksKept, NEW ip \in Address, NEW n \in Levels, Walk(ip)[n] \in Taken
  PROVE  /\ n # ADD_FIRST_BYTE /\ n - 1 \in Levels /\ Walk(ip)[n - 1] \in Live
         /\ OwnerEntry(Walk(ip)[n]) = get_bitshift(ip, n - 1)
         /\ Walk(ip)[n] \in LinkedFrom(Walk(ip)[n - 1], Slots(Walk(ip)[n - 1]))
<1> DEFINE t == Walk(ip)[n - 1]
           j == get_bitshift(ip, n - 1)
<1>1. n - 1 \in Levels /\ t \in Live /\ n # ADD_FIRST_BYTE
      /\ (t = TBL24_IND <=> n - 1 = ADD_FIRST_BYTE)
  BY WalkIsLive, LiveTables
<1>2. Walk(ip)[n] = BelowIn(tbl, t, ip, n)
  BY <1>1, TablesShaped, WalkInUnfolds DEF Walk
<1>3. t \in Tables /\ j \in Slots(t)
  BY <1>1, LiveTables, SlotOfAddress
<1> HIDE DEF t
<1>4. IsLink(tbl[t][j]) /\ Walk(ip)[n] = tbl[t][j].next_hop
  <2>1. Walk(ip)[n] # NO_TABLE
    BY LiveTables, Constants
  <2> QED BY <1>2, <2>1 DEF BelowIn
<1> HIDE DEF j
<1>5. Walk(ip)[n] \in LinkedFrom(t, Slots(t))
  BY <1>3, <1>4 DEF LinkedFrom
<1>6. OwnerEntry(tbl[t][j].next_hop) = j
  BY <1>1, <1>3, <1>4 DEF LinksKept
<1> QED BY <1>1, <1>4, <1>5, <1>6 DEF t, j

\* Ways that meet in a group are the same.
LEMMA SameTableSameNode ==
  ASSUME IndInv, LinksKept, NEW ip \in Address, NEW jp \in Address,
         NEW n \in Levels, NEW m \in Levels,
         Walk(ip)[n] \in Live, Walk(ip)[n] = Walk(jp)[m]
  PROVE  /\ m = n
         /\ \A l \in ADD_FIRST_BYTE..(n - 1) : get_bitshift(ip, l) = get_bitshift(jp, l)
<1> DEFINE w == Walk(ip)
           v == Walk(jp)
           lo == ADD_FIRST_BYTE
           Same(k, l) == k = l /\ \A i \in lo..(k - 1) : get_bitshift(ip, i) = get_bitshift(jp, i)
           Off == {k \in Levels : w[k] \in Live /\ \E l \in Levels : w[k] = v[l] /\ ~Same(k, l)}
<1>1. \A k \in Levels :
        /\ w[k] = TBL24_IND <=> k = lo
        /\ v[k] = TBL24_IND <=> k = lo
        /\ w[k] \in Taken =>
             /\ k - 1 \in Levels /\ w[k - 1] \in Live /\ Owner(w[k]) = w[k - 1]
             /\ OwnerEntry(w[k]) = get_bitshift(ip, k - 1)
        /\ v[k] \in Taken =>
             /\ k - 1 \in Levels /\ v[k - 1] \in Live /\ Owner(v[k]) = v[k - 1]
             /\ OwnerEntry(v[k]) = get_bitshift(jp, k - 1)
  BY WalkIsLive, LinkOnWalk
<1> HIDE DEF w, v
<1>2. ASSUME NEW k \in Off PROVE k - 1 \in Off
  <2>1. PICK l \in Levels : w[k] = v[l] /\ ~Same(k, l)
    OBVIOUS
  <2>2. k \in Levels /\ w[k] \in Live
    OBVIOUS
  <2>3. lo \in Nat /\ k \in Nat /\ l \in Nat
    BY <2>2, LevelRange
  <2>4. w[k] # TBL24_IND
    <3> SUFFICES ASSUME w[k] = TBL24_IND PROVE FALSE
      OBVIOUS
    <3>1. k = lo /\ l = lo
      BY <1>1, <2>1, <2>2
    <3>2. lo..(k - 1) = {}
      BY <2>3, <3>1
    <3> QED BY <2>1, <3>1, <3>2
  <2>5. w[k] \in Taken /\ v[l] \in Taken
    BY <2>1, <2>2, <2>4 DEF Live
  <2>6. /\ k - 1 \in Levels /\ l - 1 \in Levels /\ w[k - 1] \in Live /\ w[k - 1] = v[l - 1]
        /\ get_bitshift(ip, k - 1) = get_bitshift(jp, l - 1)
    BY <1>1, <2>1, <2>2, <2>5
  <2>7. ~Same(k - 1, l - 1)
    <3> SUFFICES ASSUME Same(k - 1, l - 1) PROVE FALSE
      OBVIOUS
    <3>1. k = l
      BY <2>3
    <3>2. \A i \in lo..(k - 1) : i = k - 1 \/ i \in lo..((k - 1) - 1)
      BY <2>3
    <3>3. \A i \in lo..(k - 1) : get_bitshift(ip, i) = get_bitshift(jp, i)
      BY <2>6, <3>1, <3>2
    <3> QED BY <2>1, <3>1, <3>3
  <2> HIDE DEF Same
  <2> QED BY <2>6, <2>7
<1>3. Off = {}
  <2> SUFFICES ASSUME Off # {} PROVE FALSE
    OBVIOUS
  <2>1. Off \in SUBSET Nat
    BY LevelRange
  <2> HIDE DEF Off
  <2>2. PICK k \in Off : \A l \in Off : k <= l
    BY <2>1, LeastNatural
  <2> QED BY <1>2, <2>1, <2>2
<1>4. Same(n, m)
  <2> HIDE DEF Same
  <2> QED BY <1>3 DEF w, v
<1> QED BY <1>4

-----------------------------------------------------------------------------
(* Counting them *)

\* The position of the pool counts the groups in use.
LEMMA TakenCounted ==
  ASSUME IndInv, PoolOnce
  PROVE  /\ IsFiniteSet(Taken) /\ Cardinality(Taken) = tbl8_pool_pos
         /\ IsFiniteSet(Free) /\ Cardinality(Free) = NUMBER_TBL8S - tbl8_pool_pos
         /\ Free \subseteq Groups
<1> DEFINE I == tbl8_pool_pos..(NUMBER_TBL8S - 1)
           f == [i \in I |-> tbl8_pool[i]]
<1>1. /\ tbl8_pool \in [Groups -> Groups] /\ tbl8_pool_pos \in 0..NUMBER_TBL8S
      /\ NUMBER_TBL8S \in Nat /\ I \subseteq Groups
  BY Constants DEF IndInv, TypeOK, Groups
<1>2. IsFiniteSet(I) /\ Cardinality(I) = NUMBER_TBL8S - tbl8_pool_pos
  BY <1>1, FS_Interval
<1>3. f \in Bijection(I, Free)
  <2>1. f \in [I -> Free] /\ \A y \in Free : \E i \in I : f[i] = y
    BY DEF Free
  <2>2. \A i, j \in I : f[i] = f[j] => i = j
    BY DEF PoolOnce
  <2> HIDE DEF f, I
  <2> QED BY <2>1, <2>2 DEF Bijection, Injection, Surjection, IsInjective
<1>4. IsFiniteSet(Free) /\ Cardinality(Free) = NUMBER_TBL8S - tbl8_pool_pos
  <2>1. ExistsBijection(I, Free)
    BY <1>3 DEF ExistsBijection
  <2> HIDE DEF I
  <2> QED BY <1>2, <2>1, FS_Bijection
<1>5. Free \subseteq Groups
  BY <1>1 DEF Free
<1>6. IsFiniteSet(Groups) /\ Cardinality(Groups) = NUMBER_TBL8S
  <2>1. 0 \in Int /\ NUMBER_TBL8S - 1 \in Int
    BY <1>1
  <2>2. /\ IsFiniteSet(Groups)
        /\ Cardinality(Groups) = IF 0 > NUMBER_TBL8S - 1 THEN 0
                                 ELSE (NUMBER_TBL8S - 1) - 0 + 1
    BY <2>1, FS_Interval DEF Groups
  <2> QED BY <1>1, <2>2
<1>7. IsFiniteSet(Taken) /\ Cardinality(Taken) = NUMBER_TBL8S - Cardinality(Groups \cap Free)
  BY <1>6, FS_Difference DEF Taken
<1>8. Groups \cap Free = Free
  BY <1>5
<1>9. Cardinality(Taken) = tbl8_pool_pos
  <2>1. Cardinality(Taken) = NUMBER_TBL8S - (NUMBER_TBL8S - tbl8_pool_pos)
    BY <1>4, <1>7, <1>8
  <2> QED BY <1>1, <2>1
<1> QED BY <1>4, <1>5, <1>7, <1>9

\* The groups in use and the levels of a rule below its last table, as one set.
Demand(last, level) == Taken \cup ((0 - level)..(0 - last - 1))

LEMMA DemandCounted ==
  ASSUME IndInv, PoolOnce, NEW last \in Levels, NEW level \in Levels, last <= level
  PROVE  /\ IsFiniteSet(Demand(last, level))
         /\ Cardinality(Demand(last, level)) = tbl8_pool_pos + (level - last)
<1> DEFINE J == (0 - level)..(0 - last - 1)
<1>1. last \in Nat /\ level \in Nat /\ last > 0
  BY LevelRange
<1>2. IsFiniteSet(J) /\ Cardinality(J) = level - last
  <2>1. 0 - level \in Int /\ 0 - last - 1 \in Int
    BY <1>1
  <2>2. IsFiniteSet(J)
        /\ Cardinality(J) = IF 0 - level > 0 - last - 1 THEN 0
                            ELSE (0 - last - 1) - (0 - level) + 1
    BY <2>1, FS_Interval
  <2> QED BY <1>1, <2>2
<1>3. Taken \cap J = {}
  <2>1. Taken \subseteq Nat
    BY LiveTables, Constants
  <2>2. \A x \in J : x < 0
    BY <1>1
  <2>3. ASSUME NEW x \in Taken, x \in J PROVE FALSE
    <3>1. x \in Nat /\ x < 0
      BY <2>1, <2>2, <2>3
    <3> QED BY <3>1
  <2> HIDE DEF J
  <2> QED BY <2>3
<1> HIDE DEF J
<1>4. tbl8_pool_pos \in Nat
  BY DEF IndInv, TypeOK
<1>5. /\ IsFiniteSet(Taken \cup J)
      /\ Cardinality(Taken \cup J) =
           Cardinality(Taken) + Cardinality(J) - Cardinality(Taken \cap J)
  BY <1>2, TakenCounted, FS_Union
<1>6. Cardinality(Taken \cup J) = tbl8_pool_pos + (level - last)
  <2>1. Cardinality(Taken) = tbl8_pool_pos /\ Cardinality(Taken \cap J) = 0
    BY <1>3, TakenCounted, FS_EmptySet
  <2> QED BY <1>1, <1>2, <1>4, <1>5, <2>1
<1> QED BY <1>5, <1>6 DEF Demand, J

-----------------------------------------------------------------------------
\* A rule that is admitted to rules which all have their tables does not need
\* more groups with them than there are.
LEMMA AdmittedRulesFit ==
  ASSUME LinksInv, NEW key \in Prefix, NEW R \in SUBSET Prefix,
         \A k \in R : Walk(k.ip)[LevelOf(k.depth)] # NO_TABLE,
         tbl8_available >= simulate_add(key)
  PROVE  /\ IsFiniteSet(RuleNodes(R \cup {key}))
         /\ Cardinality(RuleNodes(R \cup {key})) <= NUMBER_TBL8S
<1> DEFINE L == LevelOf(key.depth)
           last == LastLevel(Walk(key.ip), L)
           T == Demand(last, L)
           X == RuleNodes(R \cup {key})
           \* the group a node stands for, if it has one
           At(x, t) == \E ip \in Address : \E n \in Levels :
                         n # ADD_FIRST_BYTE /\ x = Node(ip, n) /\ t = Walk(ip)[n]
           LevelAt(x) == CHOOSE n \in Levels :
                           n # ADD_FIRST_BYTE /\ \E ip \in Address : x = Node(ip, n)
           f == [x \in X |-> IF \E t \in Taken : At(x, t)
                             THEN CHOOSE t \in Taken : At(x, t)
                             ELSE 0 - LevelAt(x)]
<1>1. IndInv /\ PoolOnce /\ LinksKept /\ TablesOK(tbl)
  BY TablesShaped DEF LinksInv
<1>2. key.ip \in Address /\ key.depth \in Depth /\ L \in Levels
  BY LevelOfDepth DEF Prefix
<1>3. /\ last \in Levels /\ last <= L
      /\ \A m \in Levels : m <= L /\ last < m => Walk(key.ip)[m] = NO_TABLE
      /\ Walk(key.ip)[last] # NO_TABLE
  <2> HIDE DEF L
  <2>1. /\ last \in ADD_FIRST_BYTE..L
        /\ \A m \in Levels : m <= L /\ last < m => Walk(key.ip)[m] = NO_TABLE
        /\ Walk(key.ip)[last] # NO_TABLE
    BY <1>1, <1>2, LastLevelIs DEF Walk
  <2> HIDE DEF last
  <2> QED BY <1>2, <2>1, LevelRange
<1>4. tbl8_pool_pos + (L - last) <= NUMBER_TBL8S
  <2>1. simulate_add(key) = L - last
    BY <1>1, SimulatedGroups
  <2>2. tbl8_pool_pos \in Nat /\ NUMBER_TBL8S \in Nat
    BY <1>1, Constants DEF IndInv, TypeOK
  <2> HIDE DEF L, last
  <2>3. L \in Nat /\ last \in Nat
    BY <1>2, <1>3, LevelRange
  <2> QED BY <2>1, <2>2, <2>3 DEF tbl8_available
<1> HIDE DEF last
\* A node with a group has one, and a node without is the rule's.
<1>5. ASSUME NEW x \in X
      PROVE  \E ip \in Address : \E n \in Levels :
               /\ n # ADD_FIRST_BYTE /\ x = Node(ip, n)
               /\ Walk(ip)[n] \in Taken \/ (ip = key.ip /\ last < n /\ n <= L)
  <2>0. PICK k \in R \cup {key} : \E n \in (ADD_FIRST_BYTE + 1)..LevelOf(k.depth) :
          x = Node(k.ip, n)
    BY DEF RuleNodes
  <2>1. PICK n \in (ADD_FIRST_BYTE + 1)..LevelOf(k.depth) : x = Node(k.ip, n)
    BY <2>0
  <2>2. k.ip \in Address /\ LevelOf(k.depth) \in Levels
    BY LevelOfDepth DEF Prefix
  <2>3. n \in Levels /\ n # ADD_FIRST_BYTE /\ n <= LevelOf(k.depth)
    BY <2>1, <2>2, LevelRange
  <2>4. ASSUME Walk(k.ip)[n] # NO_TABLE PROVE Walk(k.ip)[n] \in Taken
    BY <1>1, <2>2, <2>3, <2>4, WalkIsLive DEF Live
  <2>5. CASE k \in R
    <3>1. Walk(k.ip)[n] # NO_TABLE
      BY <1>1, <2>2, <2>3, <2>5, WalkStops DEF Walk
    <3> QED BY <2>1, <2>2, <2>3, <2>4, <3>1
  <2>6. CASE k = key
    <3>1. CASE last < n
      BY <2>1, <2>2, <2>3, <2>6, <3>1
    <3>2. CASE ~(last < n)
      <4>1. n <= last
        BY <1>3, <2>3, <3>2, LevelRange
      <4>2. /\ TablesOK(tbl) /\ last \in Levels /\ Walk(key.ip)[last] # NO_TABLE
            /\ k.ip = key.ip /\ n \in Levels
        BY <1>1, <1>3, <2>3, <2>6
      <4> HIDE DEF L, f, X, T, At, LevelAt
      <4>3. Walk(k.ip)[n] # NO_TABLE
        BY <1>2, <4>1, <4>2, WalkStops DEF Walk
      <4> QED BY <2>1, <2>2, <2>3, <2>4, <4>3
    <3> QED BY <3>1, <3>2
  <2> QED BY <2>5, <2>6
<1>6. ASSUME NEW x \in X, NEW y \in X, NEW t \in Taken, At(x, t), At(y, t)
      PROVE  x = y
  <2>1. PICK ip \in Address, n \in Levels :
          n # ADD_FIRST_BYTE /\ x = Node(ip, n) /\ t = Walk(ip)[n]
    BY <1>6
  <2>2. PICK jp \in Address, m \in Levels :
          m # ADD_FIRST_BYTE /\ y = Node(jp, m) /\ t = Walk(jp)[m]
    BY <1>6
  <2>3. Walk(ip)[n] \in Live /\ Walk(ip)[n] = Walk(jp)[m]
    BY <2>1, <2>2 DEF Live
  <2> HIDE DEF At, LevelAt, f, X, T, L
  <2>4. /\ m = n
        /\ \A l \in ADD_FIRST_BYTE..(n - 1) : get_bitshift(ip, l) = get_bitshift(jp, l)
    BY <1>1, <2>3, SameTableSameNode
  <2> QED BY <2>1, <2>2, <2>4 DEF Node
<1>7. ASSUME NEW x \in X, ~(\E t \in Taken : At(x, t))
      PROVE  /\ LevelAt(x) \in Levels /\ last < LevelAt(x) /\ LevelAt(x) <= L
             /\ x = Node(key.ip, LevelAt(x))
  <2>1. PICK ip \in Address, n \in Levels :
          /\ n # ADD_FIRST_BYTE /\ x = Node(ip, n)
          /\ Walk(ip)[n] \in Taken \/ (ip = key.ip /\ last < n /\ n <= L)
    BY <1>5
  <2>2. Walk(ip)[n] \notin Taken
    BY <1>7, <2>1
  <2>3. PICK jp \in Address :
          /\ LevelAt(x) \in Levels /\ LevelAt(x) # ADD_FIRST_BYTE
          /\ x = Node(jp, LevelAt(x))
    BY <2>1
  <2> HIDE DEF LevelAt
  <2>4. LevelAt(x) = n
    BY <2>1, <2>3, NodeDetermines
  <2> QED BY <2>1, <2>2, <2>4
<1>8. ASSUME NEW x \in X
      PROVE  /\ (\E t \in Taken : At(x, t)) => f[x] \in Taken /\ At(x, f[x])
             /\ ~(\E t \in Taken : At(x, t)) =>
                  f[x] = 0 - LevelAt(x) /\ f[x] \in (0 - L)..(0 - last - 1)
  <2> DEFINE lv == LevelAt(x)
  <2> HIDE DEF At, LevelAt, L
  <2>1. CASE \E t \in Taken : At(x, t)
    BY <2>1
  <2>2. CASE ~(\E t \in Taken : At(x, t))
    <3>1. f[x] = 0 - lv
      BY <2>2
    <3>2. lv \in Levels /\ last < lv /\ lv <= L
      BY <1>7, <2>2
    <3> HIDE DEF lv
    <3>3. lv \in Nat /\ last \in Nat /\ L \in Nat
      BY <1>2, <1>3, <3>2, LevelRange
    <3>4. 0 - lv \in (0 - L)..(0 - last - 1)
      BY <3>2, <3>3
    <3> QED BY <2>2, <3>1, <3>4 DEF lv
  <2> QED BY <2>1, <2>2
<1> HIDE DEF f
<1>9. f \in Injection(X, T)
  <2>1. \A x \in X : f[x] \in T
    BY <1>8 DEF Demand
  <2>2. ASSUME NEW x \in X, NEW y \in X, f[x] = f[y] PROVE x = y
    <3>1. \A t \in Taken : t \in Nat
      BY LiveTables, Constants
    <3>2. \A t \in (0 - L)..(0 - last - 1) : t \notin Nat
      <4>1. last \in Nat /\ L \in Nat
        BY <1>2, <1>3, LevelRange
      <4> HIDE DEF L
      <4> QED BY <4>1
    <3>3. CASE \E t \in Taken : At(x, t)
      <4>1. \E t \in Taken : At(y, t)
        <5> HIDE DEF At, LevelAt
        <5> QED BY <1>8, <2>2, <3>1, <3>2, <3>3
      <4>2. f[x] \in Taken /\ At(x, f[x]) /\ At(y, f[x])
        <5> HIDE DEF At, LevelAt
        <5> QED BY <1>8, <2>2, <3>3, <4>1
      <4> HIDE DEF At, LevelAt
      <4> QED BY <1>6, <4>2
    <3>4. CASE ~(\E t \in Taken : At(x, t))
      <4> HIDE DEF At
      <4>1. ~(\E t \in Taken : At(y, t))
        <5> HIDE DEF LevelAt
        <5> QED BY <1>8, <2>2, <3>1, <3>2, <3>4
      <4>2. 0 - LevelAt(x) = 0 - LevelAt(y)
        <5> HIDE DEF LevelAt
        <5> QED BY <1>8, <2>2, <3>4, <4>1
      <4>3. /\ LevelAt(x) \in Levels /\ x = Node(key.ip, LevelAt(x))
            /\ LevelAt(y) \in Levels /\ y = Node(key.ip, LevelAt(y))
        <5> HIDE DEF LevelAt
        <5> QED BY <1>7, <3>4, <4>1
      <4> HIDE DEF LevelAt
      <4>4. LevelAt(x) = LevelAt(y)
        BY <4>2, <4>3, LevelRange
      <4> QED BY <4>3, <4>4
    <3> QED BY <3>3, <3>4
  <2>3. f \in [X -> T]
    <3> HIDE DEF At, LevelAt, X, T
    <3> QED BY <2>1 DEF f
  <2> HIDE DEF X, T
  <2> QED BY <2>2, <2>3 DEF Injection, IsInjective
<1>10. IsFiniteSet(T) /\ Cardinality(T) = tbl8_pool_pos + (L - last)
  BY <1>1, <1>2, <1>3, DemandCounted
<1>11. IsFiniteSet(X) /\ Cardinality(X) <= Cardinality(T)
  <2> HIDE DEF X, T
  <2> QED BY <1>9, <1>10, FS_Injection
<1> QED
  <2> HIDE DEF X, T, L
  <2>1. Cardinality(X) \in Nat /\ Cardinality(T) \in Nat
    BY <1>10, <1>11, FS_CardinalityType
  <2>2. Cardinality(T) <= NUMBER_TBL8S /\ NUMBER_TBL8S \in Nat
    BY <1>4, <1>10, Constants
  <2>3. Cardinality(X) <= NUMBER_TBL8S
    BY <1>11, <2>1, <2>2
  <2> QED BY <1>11, <2>3 DEF X

\* Where every group in use is on the way to an inserted rule, the pool has
\* the groups that any rule of the table still needs.
LEMMA RulesLeftFit ==
  ASSUME LinksInv, Needed, NodesFit, NEW key \in DOMAIN rules
  PROVE  tbl8_available >= simulate_add(key)
<1> DEFINE L == LevelOf(key.depth)
           last == LastLevel(Walk(key.ip), L)
           S == Demand(last, L)
           X == RuleNodes(DOMAIN rules)
           OnWay(g, x) == \E k \in DOMAIN rules : \E n \in Levels :
                            /\ n # ADD_FIRST_BYTE /\ n <= LevelOf(k.depth)
                            /\ Walk(k.ip)[n] = g /\ x = Node(k.ip, n)
           f == [t \in S |-> IF t \in Taken THEN CHOOSE x \in X : OnWay(t, x)
                             ELSE Node(key.ip, 0 - t)]
<1>1. IndInv /\ PoolOnce /\ LinksKept /\ TablesOK(tbl) /\ DOMAIN rules \subseteq Prefix
  BY TablesShaped DEF LinksInv, IndInv, TypeOK
<1>2. key.ip \in Address /\ key.depth \in Depth /\ L \in Levels
  BY <1>1, LevelOfDepth DEF Prefix
<1>3. /\ last \in Levels /\ last <= L
      /\ \A m \in Levels : m <= L /\ last < m => Walk(key.ip)[m] = NO_TABLE
  <2> HIDE DEF L
  <2>1. /\ last \in ADD_FIRST_BYTE..L
        /\ \A m \in Levels : m <= L /\ last < m => Walk(key.ip)[m] = NO_TABLE
    BY <1>1, <1>2, LastLevelIs DEF Walk
  <2> HIDE DEF last
  <2> QED BY <1>2, <2>1, LevelRange
<1>4. simulate_add(key) = L - last
  BY <1>1, SimulatedGroups
<1> HIDE DEF last
<1>5. ASSUME NEW k \in DOMAIN rules, NEW n \in Levels,
             n # ADD_FIRST_BYTE, n <= LevelOf(k.depth)
      PROVE  Node(k.ip, n) \in X
  <2>1. n \in (ADD_FIRST_BYTE + 1)..LevelOf(k.depth)
    <3>1. LevelOf(k.depth) \in Levels
      BY <1>1, LevelOfDepth DEF Prefix
    <3> QED BY <1>5, <3>1, LevelRange
  <2> QED BY <2>1 DEF RuleNodes
<1>6. ASSUME NEW g \in Taken PROVE \E x \in X : OnWay(g, x)
  <2>1. PICK k \in Inserted, n \in Levels : n <= LevelOf(k.depth) /\ Walk(k.ip)[n] = g
    BY DEF Needed
  <2>2. k \in DOMAIN rules /\ k.ip \in Address
    BY <1>1 DEF Inserted, Prefix
  <2>3. n # ADD_FIRST_BYTE
    BY <1>1, <2>1, <2>2, WalkIsLive, LiveTables
  <2> QED BY <1>5, <2>1, <2>2, <2>3
<1>7. ASSUME NEW t \in S, t \notin Taken
      PROVE  /\ 0 - t \in Levels /\ last < 0 - t /\ 0 - t <= L
             /\ 0 - t # ADD_FIRST_BYTE /\ t \in Int
  <2> HIDE DEF L
  <2>1. t \in (0 - L)..(0 - last - 1)
    BY <1>7 DEF Demand
  <2>2. L \in Nat /\ last \in Nat
    BY <1>2, <1>3, LevelRange
  <2> QED BY <1>2, <1>3, <2>1, <2>2, LevelRange
<1>8. ASSUME NEW t \in S
      PROVE  /\ f[t] \in X
             /\ t \in Taken => OnWay(t, f[t])
             /\ t \notin Taken => f[t] = Node(key.ip, 0 - t)
  <2>1. CASE t \in Taken
    <3> HIDE DEF S, X, OnWay
    <3> QED BY <1>6, <2>1
  <2>2. CASE t \notin Taken
    <3>1. f[t] = Node(key.ip, 0 - t)
      <4> HIDE DEF S, X, OnWay
      <4> QED BY <2>2
    <3> DEFINE n == 0 - t
    <3>2. n \in Levels /\ n # ADD_FIRST_BYTE /\ n <= LevelOf(key.depth)
      BY <1>7, <2>2
    <3> HIDE DEF f, S, X, n
    <3>3. Node(key.ip, n) \in X
      BY <1>5, <3>2
    <3> QED BY <2>2, <3>1, <3>3 DEF n
  <2> QED BY <2>1, <2>2
<1> HIDE DEF f
\* A node of a group in use is of no other, and none of those the rule lacks.
<1>9. ASSUME NEW g \in Taken, NEW x, OnWay(g, x), NEW ip \in Address, NEW n \in Levels,
             n # ADD_FIRST_BYTE, x = Node(ip, n)
      PROVE  Walk(ip)[n] = g
  <2>1. PICK k \in DOMAIN rules, m \in Levels :
          m # ADD_FIRST_BYTE /\ Walk(k.ip)[m] = g /\ x = Node(k.ip, m)
    BY <1>9
  <2>2. k.ip \in Address
    BY <1>1 DEF Prefix
  <2> HIDE DEF OnWay, f, X, S, L
  <2>3. /\ m = n
        /\ \A l \in ADD_FIRST_BYTE..(n - 1) : get_bitshift(k.ip, l) = get_bitshift(ip, l)
    <3>1. Node(k.ip, m) = Node(ip, n) /\ m # ADD_FIRST_BYTE /\ n # ADD_FIRST_BYTE
      BY <1>9, <2>1
    <3> QED BY <3>1, NodeDetermines
  <2> QED BY <1>1, <2>1, <2>2, <2>3, SameNodeSameTable
<1>10. ASSUME NEW s \in S, NEW t \in S, f[s] = f[t] PROVE s = t
  <2>1. ASSUME NEW g \in Taken, OnWay(g, f[s]), NEW h \in Taken, OnWay(h, f[s])
        PROVE  g = h
    <3>1. PICK k \in DOMAIN rules, m \in Levels :
            m # ADD_FIRST_BYTE /\ Walk(k.ip)[m] = h /\ f[s] = Node(k.ip, m)
      BY <2>1
    <3>2. k.ip \in Address
      BY <1>1 DEF Prefix
    <3> HIDE DEF OnWay
    <3> QED BY <1>9, <2>1, <3>1, <3>2
  <2>2. ASSUME NEW g \in Taken, OnWay(g, f[s]), NEW j \in S, j \notin Taken,
               f[s] = Node(key.ip, 0 - j)
        PROVE  FALSE
    <3> DEFINE n == 0 - j
    <3>1. n \in Levels /\ n # ADD_FIRST_BYTE /\ last < n /\ n <= L
      BY <1>7, <2>2
    <3> HIDE DEF OnWay, L, n
    <3>2. f[s] = Node(key.ip, n)
      BY <2>2 DEF n
    <3>3. Walk(key.ip)[n] = g
      BY <1>2, <1>9, <2>2, <3>1, <3>2
    <3>4. Walk(key.ip)[n] = NO_TABLE
      BY <1>3, <3>1
    <3> QED BY <3>3, <3>4, LiveTables, Constants
  <2>3. CASE s \in Taken /\ t \in Taken
    <3> HIDE DEF OnWay, S, X
    <3> QED BY <1>8, <1>10, <2>1, <2>3
  <2>4. CASE s \in Taken /\ t \notin Taken
    <3> HIDE DEF OnWay, S, X
    <3> QED BY <1>8, <1>10, <2>2, <2>4
  <2>5. CASE s \notin Taken /\ t \in Taken
    <3> HIDE DEF OnWay, S, X
    <3> QED BY <1>8, <1>10, <2>2, <2>5
  <2>6. CASE s \notin Taken /\ t \notin Taken
    <3>1. f[s] = Node(key.ip, 0 - s) /\ f[s] = Node(key.ip, 0 - t)
      <4> HIDE DEF OnWay, S, X
      <4> QED BY <1>8, <1>10, <2>6
    <3>2. /\ 0 - s \in Levels /\ 0 - s # ADD_FIRST_BYTE /\ s \in Int
          /\ 0 - t \in Levels /\ 0 - t # ADD_FIRST_BYTE /\ t \in Int
      <4> HIDE DEF S
      <4> QED BY <1>7, <2>6
    <3>3. 0 - s = 0 - t
      BY <3>1, <3>2, NodeDetermines
    <3> QED BY <3>2, <3>3
  <2> QED BY <2>3, <2>4, <2>5, <2>6
<1>11. f \in Injection(S, X)
  <2>1. f \in [S -> X]
    <3>1. \A t \in S : f[t] \in X
      BY <1>8
    <3> HIDE DEF S, X, OnWay
    <3> QED BY <3>1 DEF f
  <2> HIDE DEF S, X
  <2> QED BY <1>10, <2>1 DEF Injection, IsInjective
<1>12. IsFiniteSet(S) /\ Cardinality(S) = tbl8_pool_pos + (L - last)
  BY <1>1, <1>2, <1>3, DemandCounted
<1>13. Cardinality(S) <= Cardinality(X) /\ Cardinality(X) <= NUMBER_TBL8S
       /\ Cardinality(X) \in Nat
  <2>1. IsFiniteSet(X) /\ Cardinality(X) <= NUMBER_TBL8S
    BY DEF NodesFit
  <2> HIDE DEF S, X
  <2> QED BY <1>11, <2>1, FS_Injection, FS_CardinalityType
<1> QED
  <2> HIDE DEF S, X, L
  <2>1. L \in Nat /\ last \in Nat
    BY <1>2, <1>3, LevelRange
  <2>2. tbl8_pool_pos \in Nat /\ NUMBER_TBL8S \in Nat
    BY <1>1, Constants DEF IndInv, TypeOK
  <2>3. tbl8_pool_pos + (L - last) <= NUMBER_TBL8S
    BY <1>12, <1>13, <2>1, <2>2
  <2> QED BY <1>4, <2>1, <2>2, <2>3 DEF tbl8_available

-----------------------------------------------------------------------------
(* The steps of the bulk callers *)

\* The rules and addresses of rules.
LEMMA RuleTypes ==
  ASSUME IndInv
  PROVE  /\ DOMAIN rules \in SUBSET Prefix /\ Inserted \in SUBSET (DOMAIN rules)
         /\ \A k \in DOMAIN rules : k.ip \in Address /\ LevelOf(k.depth) \in Levels
         /\ op.todo \in SUBSET (DOMAIN rules)
<1>1. DOMAIN rules \in SUBSET Prefix /\ op.todo \in SUBSET (DOMAIN rules)
  BY DEF IndInv, TypeOK, CallOK
<1>2. ASSUME NEW k \in DOMAIN rules
      PROVE  k.ip \in Address /\ LevelOf(k.depth) \in Levels
  BY <1>1, LevelOfDepth DEF Prefix
<1> QED BY <1>1, <1>2 DEF Inserted

\* Outside an insertion nothing is left out of the rules that have tables.
LEMMA IdleIsAllInserted ==
  ASSUME IndInv, op.pc = "idle"
  PROVE  op.todo = {} /\ Inserted = DOMAIN rules
<1>1. op = Idle
  BY DEF IndInv, CallOK
<1>2. op.todo = {}
  BY <1>1 DEF Idle
<1> QED BY <1>2 DEF Inserted

\* A step that leaves the tables as they are and inserts no rule yet.
LEMMA StartKeepsBulk ==
  ASSUME BulkInv, IndInv', UNCHANGED tables, NEW key \in Prefix,
         op'.pc = "add", op'.key = key, op.pc # "add",
         Inserted' = Inserted \cup {key}
  PROVE  BulkCall' /\ Placed' /\ Needed'
<1>1. tbl' = tbl /\ Taken' = Taken /\ \A ip : WalkIn(tbl', ip) = Walk(ip)
  BY DEF tables, Taken, Free, Walk
<1>2. BulkCall'
  BY DEF BulkCall
<1>3. Placed'
  BY <1>1 DEF BulkInv, Placed, Walk
<1>4. Needed'
  BY <1>1 DEF BulkInv, Needed, Walk
<1> QED BY <1>2, <1>3, <1>4

LEMMA AddKeepsBulk ==
  ASSUME BulkInv, IndInv', NEW r \in Routes, NEW hop \in NextHops, Add(r, hop)
  PROVE  BulkCall' /\ Placed' /\ Needed' /\ NodesFit'
<1> DEFINE key == Masked(r)
<1>1. /\ op.pc = "idle" /\ r.depth \in Depth /\ tbl8_available >= simulate_add(key)
      /\ rules' = WithRule(rules, key, hop) /\ UNCHANGED tables
      /\ op'.pc = "add" /\ op'.key = key /\ op'.todo = {}
  BY DEF Add, StartAdd, Idle
<1>2. key \in Prefix
  BY <1>1, MaskedPrefix, CreateAssumption
<1> HIDE DEF key
<1>3. IndInv /\ LinksInv
  BY DEF BulkInv, AdmitInv, LinksInv
<1>4. DOMAIN rules' = DOMAIN rules \cup {key}
  BY <1>1 DEF WithRule
<1>5. Inserted = DOMAIN rules
  BY <1>1, <1>3, IdleIsAllInserted
<1>6. Inserted' = Inserted \cup {key}
  BY <1>1, <1>4, <1>5 DEF Inserted
<1>7. BulkCall' /\ Placed' /\ Needed'
  BY <1>1, <1>2, <1>6, StartKeepsBulk
<1>8. \A k \in DOMAIN rules : Walk(k.ip)[LevelOf(k.depth)] # NO_TABLE
  BY <1>1, <1>5 DEF BulkInv, Placed
<1>9. /\ IsFiniteSet(RuleNodes(DOMAIN rules \cup {key}))
      /\ Cardinality(RuleNodes(DOMAIN rules \cup {key})) <= NUMBER_TBL8S
  BY <1>1, <1>2, <1>3, <1>8, RuleTypes, AdmittedRulesFit
<1>10. NodesFit'
  BY <1>4, <1>9 DEF NodesFit
<1> QED BY <1>7, <1>10

LEMMA RebuildKeepsBulk ==
  ASSUME BulkInv, IndInv', NEW key, Rebuild(key)
  PROVE  BulkCall' /\ Placed' /\ Needed' /\ NodesFit'
<1>1. /\ op.pc = "rebuild" /\ key \in op.todo /\ rules' = rules /\ UNCHANGED tables
      /\ op'.pc = "add" /\ op'.key = key /\ op'.todo = op.todo \ {key}
  BY DEF Rebuild, StartAdd, Idle
<1>2. key \in DOMAIN rules /\ key \in Prefix
  BY <1>1, RuleTypes DEF BulkInv, AdmitInv, LinksInv
<1>3. Inserted' = Inserted \cup {key}
  BY <1>1, <1>2 DEF Inserted
<1>4. NodesFit'
  BY <1>1 DEF BulkInv, NodesFit
<1> QED BY <1>1, <1>2, <1>3, <1>4, StartKeepsBulk

\* A step of an insertion that keeps the rules, the walks and the call.
LEMMA InsertingKeepsPlaced ==
  ASSUME BulkInv, rules' = rules, op'.todo = op.todo,
         op'.pc = "add" => op.pc = "add" /\ op'.key = op.key,
         op'.pc \in {"idle", "add", "rebuild"},
         op'.pc # "add" /\ op.pc = "add" =>
           WalkIn(tbl', op.key.ip)[LevelOf(op.key.depth)] # NO_TABLE,
         \A ip \in Address : \A n \in Levels :
           Walk(ip)[n] # NO_TABLE => WalkIn(tbl', ip)[n] = Walk(ip)[n],
         \A g \in Taken' \ Taken : \E k \in Inserted : \E n \in Levels :
           n <= LevelOf(k.depth) /\ WalkIn(tbl', k.ip)[n] = g
  PROVE  BulkCall' /\ Placed' /\ Needed' /\ NodesFit'
<1>1. Inserted' = Inserted
  BY DEF Inserted
<1>2. \A k \in Inserted : k.ip \in Address /\ LevelOf(k.depth) \in Levels
  BY RuleTypes DEF BulkInv, AdmitInv, LinksInv
<1>3. BulkCall'
  BY <1>1 DEF BulkCall, BulkInv
<1>4. Placed'
  <2> SUFFICES ASSUME NEW k \in Inserted, ~(op'.pc = "add" /\ k = op'.key)
               PROVE  WalkIn(tbl', k.ip)[LevelOf(k.depth)] # NO_TABLE
    BY <1>1 DEF Placed, Walk
  <2>1. CASE op.pc = "add" /\ k = op.key
    BY <2>1
  <2>2. CASE ~(op.pc = "add" /\ k = op.key)
    <3>1. Walk(k.ip)[LevelOf(k.depth)] # NO_TABLE
      BY <2>2 DEF BulkInv, Placed
    <3> QED BY <1>2, <3>1
  <2> QED BY <2>1, <2>2
<1>5. Needed'
  <2> SUFFICES ASSUME NEW g \in Taken'
               PROVE  \E k \in Inserted : \E n \in Levels :
                        n <= LevelOf(k.depth) /\ WalkIn(tbl', k.ip)[n] = g
    BY <1>1 DEF Needed, Walk
  <2>1. CASE g \in Taken
    <3>1. PICK k \in Inserted : \E n \in Levels : n <= LevelOf(k.depth) /\ Walk(k.ip)[n] = g
      BY <2>1 DEF BulkInv, Needed
    <3>2. PICK n \in Levels : n <= LevelOf(k.depth) /\ Walk(k.ip)[n] = g
      BY <3>1
    <3>3. g # NO_TABLE
      BY <2>1, LiveTables, Constants
    <3>4. WalkIn(tbl', k.ip)[n] = g
      BY <1>2, <3>2, <3>3
    <3> QED BY <3>2, <3>4
  <2>2. CASE g \notin Taken
    BY <2>2
  <2> QED BY <2>1, <2>2
<1>6. NodesFit'
  BY DEF BulkInv, NodesFit
<1> QED BY <1>3, <1>4, <1>5, <1>6

LEMMA AddStepNewTableKeepsBulk ==
  ASSUME GroupsFit, BulkInv, IndInv', AddStepNewTable
  PROVE  BulkCall' /\ Placed' /\ Needed' /\ NodesFit'
<1>1. /\ LinksInv /\ AddOnWalk /\ op \in Call /\ op.pc = "add" /\ op.key \in Inserted
      /\ rules' = rules /\ op.level \in Levels /\ LevelOf(op.key.depth) \in Levels
  BY AddingTypes DEF BulkInv, AdmitInv, LinksInv, BulkCall, AddStepNewTable
<1>2. op'.pc = "add" /\ op'.key = op.key /\ op'.todo = op.todo
  BY <1>1 DEF AddStepNewTable, Descend, Call
<1>3. /\ \A ip \in Address : \A n \in Levels :
           Walk(ip)[n] # NO_TABLE => WalkIn(tbl', ip)[n] = Walk(ip)[n]
      /\ op.level + 1 \in Levels /\ op.level < LevelOf(op.key.depth)
      /\ WalkIn(tbl', op.key.ip)[op.level + 1] = tbl8_get
  BY <1>1, NewTableWalks
<1>4. op.level + 1 <= LevelOf(op.key.depth)
  BY <1>1, <1>3, LevelRange
<1>5. Taken' \subseteq Taken \cup {tbl8_get}
  BY <1>1, NewTableEffect
<1>6. \A g \in Taken' \ Taken : \E k \in Inserted : \E n \in Levels :
        n <= LevelOf(k.depth) /\ WalkIn(tbl', k.ip)[n] = g
  BY <1>1, <1>3, <1>4, <1>5
<1>7. op'.pc \in {"idle", "add", "rebuild"} /\ ~(op'.pc # "add" /\ op.pc = "add")
  BY <1>2
<1> QED BY <1>1, <1>2, <1>3, <1>6, <1>7, InsertingKeepsPlaced

LEMMA AddStepDescendKeepsBulk ==
  ASSUME BulkInv, AddStepDescend
  PROVE  BulkCall' /\ Placed' /\ Needed' /\ NodesFit'
<1>1. op \in Call /\ op.pc = "add" /\ rules' = rules /\ UNCHANGED tables
  BY AddingTypes DEF BulkInv, AdmitInv, LinksInv, AddStepDescend
<1>2. op'.pc = "add" /\ op'.key = op.key /\ op'.todo = op.todo
  BY <1>1 DEF AddStepDescend, Descend, Call
<1>3. tbl' = tbl /\ Taken' = Taken
  BY <1>1 DEF tables, Taken, Free
<1>4. \A ip \in Address : \A n \in Levels : WalkIn(tbl', ip)[n] = Walk(ip)[n]
  BY <1>3 DEF Walk
<1>5. Taken' \ Taken = {}
  BY <1>3
<1>6. op'.pc \in {"idle", "add", "rebuild"} /\ ~(op'.pc # "add" /\ op.pc = "add")
  BY <1>2
<1> QED BY <1>1, <1>2, <1>4, <1>5, <1>6, InsertingKeepsPlaced

\* Expanding a rule writes no entry that is a link.
LEMMA ExpansionKeepsWalks ==
  ASSUME LinksInv, IndInv', AddStepLast
  PROVE  \A ip \in Address : \A n \in Levels :
           Walk(ip)[n] # NO_TABLE => WalkIn(tbl', ip)[n] = Walk(ip)[n]
<1>1. TablesOK(tbl) /\ TablesOK(tbl') /\ IndInv
  BY DEF LinksInv, IndInv, TypeOK, TablesOK
<1>2. \A t \in Tables \cap Live : \A j \in Slots(t) :
        IsLink(tbl[t][j]) => tbl'[t][j] = tbl[t][j]
  <2> TAKE t \in Tables \cap Live
  <2> TAKE j \in Slots(t)
  <2> HAVE IsLink(tbl[t][j])
  <2>1. ~Yields(tbl[t][j], op.key.depth)
    BY DEF Yields, IsLink
  <2>2. PICK cells, hit :
          /\ hit = {i \in cells : Yields(tbl[op.cur][i], op.key.depth)}
          /\ tbl' = WriteRule(op.cur, cells, hit, op.key.depth, op.entry)
    BY DEF AddStepLast
  <2>3. ~(t = op.cur /\ j \in hit)
    BY <2>1, <2>2
  <2> QED BY <2>1, <2>2, <2>3 DEF WriteRule
<1>3. ASSUME NEW ip \in Address, NEW n \in Levels, Walk(ip)[n] # NO_TABLE
      PROVE  WalkIn(tbl', ip)[n] = Walk(ip)[n]
  <2>1. \A m \in Levels : WalkIn(tbl, ip)[m] \in Live \cup {NO_TABLE}
    BY <1>1, WalkIsLive DEF LinksInv, Walk
  <2> QED BY <1>1, <1>2, <1>3, <2>1, WalkGoesOn DEF Walk
<1> QED BY <1>3

LEMMA AddStepLastKeepsBulk ==
  ASSUME BulkInv, IndInv', AddStepLast
  PROVE  BulkCall' /\ Placed' /\ Needed' /\ NodesFit'
<1> DEFINE L == LevelOf(op.key.depth)
<1>1. /\ LinksInv /\ op.pc = "add" /\ ~Deeper /\ rules' = rules
      /\ op.level \in Levels /\ L \in Levels /\ op.key.depth \in Depth
      /\ op.key.ip \in Address /\ op.cur \in Live
      /\ op.cur = Walk(op.key.ip)[op.level] /\ op.level <= L
  BY AddingTypes
  DEF BulkInv, AdmitInv, LinksInv, BulkCall, AddStepLast, AddOnWalk, CallLinks
<1>2. op'.pc \in {"idle", "rebuild"} /\ op'.todo = op.todo
  <2>1. CASE op.todo = {}
    <3>1. op' = Idle
      BY <2>1 DEF AddStepLast
    <3> QED BY <2>1, <3>1 DEF Idle
  <2>2. CASE op.todo # {}
    <3>1. op' = [Idle EXCEPT !.pc = "rebuild", !.todo = op.todo]
      BY <2>2 DEF AddStepLast
    <3> QED BY <3>1 DEF Idle
  <2> QED BY <2>1, <2>2
<1>3. \A ip \in Address : \A n \in Levels :
        Walk(ip)[n] # NO_TABLE => WalkIn(tbl', ip)[n] = Walk(ip)[n]
  BY <1>1, ExpansionKeepsWalks
<1>4. ~(op.level < L)
  BY <1>1, DeeperIsAbove DEF Deeper
<1> HIDE DEF L
<1>5. op.level = L
  BY <1>1, <1>4, LevelRange
<1>6. WalkIn(tbl', op.key.ip)[L] # NO_TABLE
  BY <1>1, <1>3, <1>5, LiveTables
<1>7. Taken' \ Taken = {}
  BY DEF AddStepLast, Taken, Free
<1>8. /\ op'.pc \in {"idle", "add", "rebuild"} /\ op'.pc # "add"
      /\ WalkIn(tbl', op.key.ip)[LevelOf(op.key.depth)] # NO_TABLE
  BY <1>2, <1>6 DEF L
<1> QED BY <1>1, <1>2, <1>3, <1>7, <1>8, InsertingKeepsPlaced

\* After a deletion of many rules no group is in use and every rule that is
\* left waits to be inserted.
LEMMA DeleteManyKeepsBulk ==
  ASSUME BulkInv, IndInv', NEW keys, DeleteAll \/ DeleteBulk(keys)
  PROVE  BulkCall' /\ Placed' /\ Needed' /\ NodesFit'
<1>1. IndInv /\ ResetTables /\ op.pc = "idle"
  BY DEF BulkInv, AdmitInv, LinksInv, DeleteAll, DeleteBulk
<1>2. DOMAIN rules' \subseteq DOMAIN rules
  BY DEF DeleteAll, DeleteBulk, NoRules, WithoutRules
<1>3. Taken' = {}
  <2>1. tbl8_pool' = FullPool /\ tbl8_pool_pos' = 0
    BY <1>1 DEF ResetTables
  <2>2. \A g \in Groups : g \in 0..(NUMBER_TBL8S - 1) /\ FullPool[g] = g
    BY DEF FullPool, Groups
  <2> QED BY <2>1, <2>2 DEF Taken, Free
<1>4. op'.pc \in {"idle", "rebuild"} /\ Inserted' = {}
  <2>1. CASE DeleteAll
    <3>1. DOMAIN rules' = {} /\ op' = op
      BY <2>1 DEF DeleteAll, NoRules
    <3> QED BY <1>1, <3>1 DEF Inserted
  <2>2. CASE DeleteBulk(keys) /\ DOMAIN rules \ keys = {}
    <3>1. DOMAIN rules' = {} /\ op' = op
      BY <2>2 DEF DeleteBulk, WithoutRules
    <3> QED BY <1>1, <3>1 DEF Inserted
  <2>3. CASE DeleteBulk(keys) /\ DOMAIN rules \ keys # {}
    <3> DEFINE left == DOMAIN rules \ keys
    <3>1. op' = [Idle EXCEPT !.pc = "rebuild", !.todo = left]
      BY <2>3 DEF DeleteBulk
    <3>2. DOMAIN rules' = left
      BY <2>3 DEF DeleteBulk, WithoutRules
    <3> HIDE DEF left
    <3>3. op'.pc = "rebuild" /\ op'.todo = left
      BY <3>1 DEF Idle
    <3> QED BY <3>2, <3>3 DEF Inserted
  <2> QED BY <2>1, <2>2, <2>3
<1>5. NodesFit'
  <2>1. RuleNodes(DOMAIN rules') \in SUBSET RuleNodes(DOMAIN rules)
    BY <1>2 DEF RuleNodes
  <2>2. IsFiniteSet(RuleNodes(DOMAIN rules)) /\ Cardinality(RuleNodes(DOMAIN rules)) <= NUMBER_TBL8S
    BY DEF BulkInv, NodesFit
  <2>3. /\ IsFiniteSet(RuleNodes(DOMAIN rules'))
        /\ Cardinality(RuleNodes(DOMAIN rules')) <= Cardinality(RuleNodes(DOMAIN rules))
    BY <2>1, <2>2, FS_Subset
  <2>4. /\ Cardinality(RuleNodes(DOMAIN rules')) \in Nat /\ Cardinality(RuleNodes(DOMAIN rules)) \in Nat
    BY <2>2, <2>3, FS_CardinalityType
  <2>5. Cardinality(RuleNodes(DOMAIN rules')) <= NUMBER_TBL8S
    BY <2>2, <2>3, <2>4, Constants
  <2> QED BY <2>3, <2>5 DEF NodesFit
<1> QED BY <1>3, <1>4, <1>5 DEF BulkCall, Placed, Needed

LEMMA CreateEstablishesBulk == Create => BulkInv
<1> SUFFICES ASSUME Create PROVE BulkInv
  OBVIOUS
<1>1. op.pc = "idle" /\ DOMAIN rules = {}
  BY DEF Create, Idle, NoRules
<1>2. Taken = {}
  <2>1. tbl8_pool = FullPool /\ tbl8_pool_pos = 0
    BY DEF Create
  <2>2. \A g \in Groups : g \in 0..(NUMBER_TBL8S - 1) /\ FullPool[g] = g
    BY DEF FullPool, Groups
  <2> QED BY <2>1, <2>2 DEF Taken, Free
<1>3. NodesFit
  <2>1. RuleNodes({}) = {}
    BY DEF RuleNodes
  <2>2. RuleNodes(DOMAIN rules) = {} /\ 0 <= NUMBER_TBL8S
    BY <1>1, <2>1, Constants
  <2>3. IsFiniteSet(RuleNodes(DOMAIN rules)) /\ Cardinality(RuleNodes(DOMAIN rules)) = 0
    BY <2>2, FS_EmptySet
  <2> QED BY <2>2, <2>3 DEF NodesFit
<1> QED BY <1>1, <1>2, <1>3, CreateEstablishesAdmission
    DEF BulkInv, BulkCall, Placed, Needed, Inserted

LEMMA StepKeepsBulk ==
  ASSUME GroupsFit
  PROVE  BulkInv /\ [BulkNext]_vars => BulkInv'
<1> SUFFICES ASSUME BulkInv, [BulkNext]_vars
             PROVE  BulkCall' /\ Placed' /\ Needed' /\ NodesFit' /\ AdmitInv'
  BY DEF BulkInv
<1> DEFINE Goal == BulkCall' /\ Placed' /\ Needed' /\ NodesFit'
<1>1. AdmitInv' /\ IndInv'
  <2>1. [AnyNext]_vars
    BY DEF BulkNext, AnyNext, Next
  <2> QED BY <2>1, StepKeepsAdmission DEF BulkInv, AdmitInv, LinksInv
<1>2. ASSUME UNCHANGED <<rules, tables, op>> PROVE Goal
  BY <1>2
  DEF BulkInv, BulkCall, Placed, Needed, NodesFit, Inserted, Walk, Taken, Free, tables
<1>3. CASE Update
  <2>1. ASSUME NEW r \in Routes, RejectDepth(r) \/ AddThrows(r) \/ AddNoSpace(r) PROVE Goal
    <3>1. UNCHANGED <<rules, tables, op>>
      BY <2>1 DEF RejectDepth, AddThrows, AddNoSpace, Reject
    <3> QED BY <1>2, <3>1
  <2>2. ASSUME NEW r \in Routes, NEW hop \in NextHops, Add(r, hop) PROVE Goal
    BY <1>1, <2>2, AddKeepsBulk
  <2>3. CASE DeleteAll
    BY <1>1, <2>3, DeleteManyKeepsBulk
  <2> QED BY <1>1, <1>3, <2>1, <2>2, <2>3 DEF Update
<1>4. CASE AddStep
  BY <1>1, <1>4, AddStepNewTableKeepsBulk, AddStepDescendKeepsBulk, AddStepLastKeepsBulk
  DEF AddStep
<1>5. CASE Bulk
  <2>1. ASSUME NEW keys, DeleteBulk(keys) PROVE Goal
    BY <1>1, <2>1, DeleteManyKeepsBulk
  <2>2. ASSUME NEW key, Rebuild(key) PROVE Goal
    BY <1>1, <2>2, RebuildKeepsBulk
  <2> QED BY <1>1, <1>5, <2>1, <2>2 DEF Bulk
<1>6. CASE Lookups \/ UNCHANGED vars
  <2>1. UNCHANGED <<rules, tables, op>>
    BY <1>6 DEF Lookups, Lookup, vars, tables
  <2> QED BY <1>1, <1>2, <2>1
<1> QED BY <1>1, <1>3, <1>4, <1>5, <1>6 DEF BulkNext

-----------------------------------------------------------------------------
(* The groups in use are the linked ones *)

\* The groups on a walk are those Reachable names.
LEMMA WalkIsReachable ==
  ASSUME IndInv, LinksKept, NEW ip \in Address, NEW n \in Levels, Walk(ip)[n] \in Taken
  PROVE  Walk(ip)[n] \in Reachable
<1> DEFINE lo == ADD_FIRST_BYTE
           hi == IPV6_ADDR_SIZE
           first == LinkedFrom(TBL24_IND, Slots(TBL24_IND))
           w == Walk(ip)
<1>1. lo \in Nat /\ hi \in Nat /\ Levels = lo..hi
  BY LevelRange
<1>2. first \in SUBSET Taken
  BY DEF LinksKept, LinkedFrom, Live
<1>3. PICK s : /\ s[0] = first /\ s[hi] = Subtree(first)
               /\ \A i \in 1..hi :
                    s[i] = s[i - 1] \cup UNION {LinkedFrom(g, Slots(g)) : g \in s[i - 1]}
  <2> HIDE DEF first
  <2> QED BY <1>2, SubtreeSteps
<1>4. \A m \in Levels : w[m] \in Taken =>
        /\ m # lo /\ m - 1 \in Levels /\ w[m] \in LinkedFrom(w[m - 1], Slots(w[m - 1]))
        /\ w[m - 1] \in Taken \/ (m - 1 = lo /\ w[m - 1] = TBL24_IND)
  BY LinkOnWalk, WalkIsLive DEF Live
<1> HIDE DEF w, first
\* After i steps Subtree has the groups of the first i + 1 levels below tbl24.
<1> DEFINE Off == {i \in 0..hi : \E m \in Levels :
                     m <= lo + 1 + i /\ w[m] \in Taken /\ w[m] \notin s[i]}
<1>5. Off = {}
  <2> SUFFICES ASSUME Off # {} PROVE FALSE
    OBVIOUS
  <2>1. Off \in SUBSET Nat
    OBVIOUS
  <2>2. PICK i \in Off : \A k \in Off : i <= k
    <3> HIDE DEF Off
    <3> QED BY <2>1, LeastNatural
  <2>3. PICK m \in Levels : m <= lo + 1 + i /\ w[m] \in Taken /\ w[m] \notin s[i]
    BY <2>2
  <2>4. i \in 0..hi
    OBVIOUS
  <2>5. CASE i = 0
    <3>1. m - 1 = lo
      BY <1>1, <1>4, <2>3, <2>5
    <3>2. w[m - 1] = TBL24_IND
      <4>1. ~(w[m - 1] \in Taken)
        BY <1>4, <2>3, <3>1
      <4> QED BY <1>4, <2>3, <4>1
    <3> QED BY <1>3, <1>4, <2>3, <2>5, <3>2 DEF first
  <2>6. CASE i # 0
    <3>1. i - 1 \in 0..hi /\ i \in 1..hi /\ ~(i <= i - 1)
      BY <1>1, <2>4, <2>6
    <3>2. i - 1 \notin Off
      <4> HIDE DEF Off
      <4> QED BY <2>2, <3>1
    <3>3. \A k \in Levels : k <= lo + 1 + (i - 1) /\ w[k] \in Taken => w[k] \in s[i - 1]
      BY <3>1, <3>2
    <3>4. s[i] = s[i - 1] \cup UNION {LinkedFrom(g, Slots(g)) : g \in s[i - 1]}
      BY <1>3, <3>1
    <3>5. CASE m <= lo + 1 + (i - 1)
      BY <2>3, <3>3, <3>4, <3>5
    <3>6. CASE ~(m <= lo + 1 + (i - 1))
      <4>1. m - 1 # lo /\ m - 1 <= lo + 1 + (i - 1)
        BY <1>1, <2>3, <2>4, <2>6, <3>6
      <4>2. /\ m - 1 \in Levels /\ w[m - 1] \in Taken
            /\ w[m] \in LinkedFrom(w[m - 1], Slots(w[m - 1]))
        BY <1>4, <2>3, <4>1
      <4>3. w[m - 1] \in s[i - 1]
        BY <3>3, <4>1, <4>2
      <4> QED BY <2>3, <3>4, <4>2, <4>3
    <3> QED BY <3>5, <3>6
  <2> QED BY <2>5, <2>6
<1>6. hi \in 0..hi /\ n <= lo + 1 + hi
  BY <1>1
<1>7. w[n] \in Taken
  BY DEF w
<1>8. w[n] \in s[hi]
  BY <1>5, <1>6, <1>7
<1> QED BY <1>3, <1>8 DEF w, first, Reachable

-----------------------------------------------------------------------------
(* Callers that delete rule by rule: reference counts are exact, and with  *)
(* them the pool and the tables of the rules                               *)

\* The groups that a running deletion is about to unlink.
Leaving == {op.chain[i] : i \in DOMAIN op.chain}

\* The rules whose tables count them: not one whose insertion is running.
Settled == IF op.pc = "add" /\ op.fresh THEN DOMAIN rules \ {op.key} ELSE DOMAIN rules

\* The rules that groups are in use for: while references are given back also
\* the one deleted.
Wanted == IF op.pc = "unref" THEN DOMAIN rules \cup {op.key} ELSE DOMAIN rules

SingleCall ==
  /\ op.pc # "rebuild" /\ op.todo = {}
  /\ op.pc = "add" => op.key \in DOMAIN rules
  /\ op.pc = "unref" => \E k \in Levels :
       op.cur = Walk(op.key.ip)[k] /\ k + Len(op.chain) = LevelOf(op.key.depth)

\* Links lead to the tables of the settled rules, and none will be cut.
Uncut ==
  \A k \in Settled : \A n \in Levels :
    n <= LevelOf(k.depth) => Walk(k.ip)[n] \notin Leaving \cup {NO_TABLE}

InUse ==
  \A g \in Taken \ Leaving : \E k \in Wanted : \E n \in Levels :
    n <= LevelOf(k.depth) /\ Walk(k.ip)[n] = g

\* What refers to a group: rules that end in it, links in it that will stay.
RulesIn(g) == {k \in Settled : Walk(k.ip)[LevelOf(k.depth)] = g}
LinksIn(g) ==
  {j \in Slots(g) : IsLink(tbl[g][j]) /\ tbl[g][j].next_hop \notin Leaving}

\* The group whose reference is to be given back next has one too many.
Surplus(g) == IF op.pc = "unref" /\ g = op.cur THEN 1 ELSE 0

Counted ==
  \A g \in Taken \ Leaving :
    tbl8_hdrs[g].ref_cnt = Cardinality(RulesIn(g)) + Cardinality(LinksIn(g)) + Surplus(g)

\* The entries the groups are about to be unlinked from name them.
Named ==
  op.pc = "unlink" =>
    \A i \in DOMAIN op.chain :
      tbl[Owner(op.chain[i])][OwnerEntry(op.chain[i])].next_hop = op.chain[i]

SingleInv == AdmitInv /\ SingleCall /\ Uncut /\ InUse /\ Counted /\ Named

\* More rules and links would wrap a reference count round.
CountsFit == MAX_RULES + 2 ^ BYTE_SIZE < REF_MOD

-----------------------------------------------------------------------------
(* Walks, and sets of references *)

\* A walk is the same as long as the entries on its way are.
LEMMA WalkStays ==
  ASSUME NEW T, NEW U, TablesOK(T), TablesOK(U), NEW ip \in Address, NEW n \in Levels,
         \A m \in Levels : m < n =>
           U[WalkIn(T, ip)[m]][get_bitshift(ip, m)] = T[WalkIn(T, ip)[m]][get_bitshift(ip, m)]
  PROVE  \A m \in Levels : m <= n => WalkIn(U, ip)[m] = WalkIn(T, ip)[m]
<1> DEFINE w == WalkIn(T, ip)
           v == WalkIn(U, ip)
           Off == {k \in Levels : k <= n /\ v[k] # w[k]}
<1>1. \A k \in Levels \ {ADD_FIRST_BYTE} :
        w[k] = BelowIn(T, w[k - 1], ip, k) /\ v[k] = BelowIn(U, v[k - 1], ip, k)
  BY WalkInUnfolds
<1>2. v[ADD_FIRST_BYTE] = w[ADD_FIRST_BYTE]
  BY WalkInUnfolds
<1>3. \A m \in Levels : m < n => U[w[m]][get_bitshift(ip, m)] = T[w[m]][get_bitshift(ip, m)]
  OBVIOUS
<1> HIDE DEF w, v
<1>4. Off = {}
  <2> SUFFICES ASSUME Off # {} PROVE FALSE
    OBVIOUS
  <2>1. Off \in SUBSET Nat
    BY LevelRange
  <2>2. PICK k \in Off : \A l \in Off : k <= l
    <3> HIDE DEF Off
    <3> QED BY <2>1, LeastNatural
  <2>3. k \in Levels /\ k # ADD_FIRST_BYTE /\ k - 1 \in Levels /\ k - 1 < n /\ k - 1 <= n
        /\ ~(k <= k - 1)
    BY <1>2, LevelRange
  <2>4. v[k - 1] = w[k - 1]
    <3>1. k - 1 \notin Off
      <4> HIDE DEF Off
      <4> QED BY <2>2, <2>3
    <3> QED BY <2>3, <3>1
  <2>5. v[k] = w[k]
    BY <1>1, <1>3, <2>3, <2>4 DEF BelowIn
  <2> QED BY <2>5
<1> QED BY <1>4 DEF w, v

\* The numbers below n.
LEMMA NumbersBelow ==
  ASSUME NEW n \in Nat
  PROVE  IsFiniteSet(0..(n - 1)) /\ Cardinality(0..(n - 1)) = n
<1>1. 0 \in Int /\ n - 1 \in Int
  OBVIOUS
<1>2. /\ IsFiniteSet(0..(n - 1))
      /\ Cardinality(0..(n - 1)) = IF 0 > n - 1 THEN 0 ELSE (n - 1) - 0 + 1
  BY <1>1, FS_Interval
<1> QED BY <1>2

\* What refers to a group is finite, and less than a counter holds.
LEMMA ReferencesFit ==
  ASSUME CountsFit, NEW D, IsFiniteSet(D), Cardinality(D) <= MAX_RULES,
         NEW A \in SUBSET D, NEW g \in Groups, NEW B \in SUBSET Slots(g)
  PROVE  /\ IsFiniteSet(A) /\ Cardinality(A) \in Nat
         /\ IsFiniteSet(B) /\ Cardinality(B) \in Nat
         /\ Cardinality(A) + Cardinality(B) < REF_MOD
<1>1. /\ IsFiniteSet(A) /\ Cardinality(A) \in Nat /\ Cardinality(D) \in Nat
      /\ Cardinality(A) <= Cardinality(D)
  BY FS_Subset, FS_CardinalityType
<1>2. Slots(g) = 0..(2 ^ BYTE_SIZE - 1)
  <2>1. g # TBL24_IND
    BY Constants
  <2>2. ADD_FIRST_BYTE + 1 # ADD_FIRST_BYTE
    BY LevelRange
  <2> QED BY <2>1, <2>2 DEF Slots, StepBits
<1>3. 2 ^ BYTE_SIZE \in Nat
  BY SizesAssumption, PowersAssumption DEF MAX_DEPTH
<1> DEFINE size == 2 ^ BYTE_SIZE
<1> HIDE DEF size
<1>4. IsFiniteSet(0..(size - 1)) /\ Cardinality(0..(size - 1)) = size
  <2>1. size \in Nat
    BY <1>3 DEF size
  <2> QED BY <2>1, NumbersBelow
<1>5. IsFiniteSet(B) /\ Cardinality(B) \in Nat /\ Cardinality(B) <= size
  BY <1>2, <1>4, FS_Subset, FS_CardinalityType DEF size
<1>6. MAX_RULES + size < REF_MOD /\ MAX_RULES \in Nat /\ REF_MOD \in Nat
  BY CreateAssumption DEF CountsFit, size
<1> QED BY <1>1, <1>3, <1>5, <1>6 DEF size

-----------------------------------------------------------------------------
(* Steps of insertions *)

\* The types of what the invariant is about.
LEMMA SingleTypes ==
  ASSUME SingleInv
  PROVE  /\ IndInv /\ PoolOnce /\ LinksKept /\ LinksInv /\ op \in Call
         /\ DOMAIN rules \in SUBSET Prefix /\ Settled \in SUBSET (DOMAIN rules)
         /\ \A k \in DOMAIN rules : k.ip \in Address /\ LevelOf(k.depth) \in Levels
         /\ TablesOK(tbl) /\ Taken \subseteq Groups
         /\ tbl8_hdrs \in [Groups -> Header]
<1>1. IndInv /\ PoolOnce /\ LinksKept /\ LinksInv
  BY DEF SingleInv, AdmitInv, LinksInv
<1>2. DOMAIN rules \in SUBSET Prefix /\ op \in Call /\ tbl8_hdrs \in [Groups -> Header]
  BY <1>1 DEF IndInv, TypeOK
<1>3. \A k \in DOMAIN rules : k.ip \in Address /\ LevelOf(k.depth) \in Levels
  BY <1>1, RuleTypes
<1> QED BY <1>1, <1>2, <1>3, TablesShaped, LiveTables DEF Settled

\* The sets of references of a group have cardinalities.
LEMMA ReferenceSets ==
  ASSUME CountsFit, SingleInv, NEW g \in Groups
  PROVE  /\ IsFiniteSet(RulesIn(g)) /\ Cardinality(RulesIn(g)) \in Nat
         /\ IsFiniteSet(LinksIn(g)) /\ Cardinality(LinksIn(g)) \in Nat
<1>1. IsFiniteSet(DOMAIN rules) /\ Cardinality(DOMAIN rules) <= MAX_RULES
  BY SingleTypes, Constants DEF IndInv, TypeOK, RulesCounted
<1>2. RulesIn(g) \in SUBSET (DOMAIN rules) /\ LinksIn(g) \in SUBSET Slots(g)
  BY SingleTypes DEF RulesIn, LinksIn
<1> QED BY <1>1, <1>2, ReferencesFit

\* Where the tables stay, so do walks, groups and links.
LEMMA TablesSame ==
  ASSUME UNCHANGED tables, op'.chain = op.chain
  PROVE  /\ Taken' = Taken /\ Leaving' = Leaving /\ tbl8_hdrs' = tbl8_hdrs
         /\ \A ip : WalkIn(tbl', ip) = Walk(ip)
         /\ \A g : LinksIn(g)' = LinksIn(g)
<1>1. Taken' = Taken /\ Leaving' = Leaving /\ tbl' = tbl /\ tbl8_hdrs' = tbl8_hdrs
  BY DEF tables, Taken, Free, Leaving
<1> QED BY <1>1 DEF Walk, LinksIn

\* Where neither the tables nor the settled rules change, the parts of the
\* invariant about them stay, unless a reference is to be given back.
LEMMA QuietStep ==
  ASSUME SingleInv, UNCHANGED tables, op'.chain = op.chain, op'.todo = {},
         op'.pc \in {"idle", "add", "clear"}, op.pc # "unref",
         op'.pc = "add" => op'.key \in DOMAIN rules',
         Settled' = Settled, DOMAIN rules \subseteq DOMAIN rules'
  PROVE  SingleCall' /\ Uncut' /\ InUse' /\ Counted'
<1>1. /\ Taken' = Taken /\ Leaving' = Leaving /\ tbl8_hdrs' = tbl8_hdrs
      /\ \A ip : WalkIn(tbl', ip) = Walk(ip)
      /\ \A g : LinksIn(g)' = LinksIn(g)
  BY TablesSame
<1>2. SingleCall'
  BY DEF SingleCall
<1>3. Uncut'
  BY <1>1 DEF SingleInv, Uncut, Walk
<1>4. InUse'
  <2>1. Wanted = DOMAIN rules /\ Wanted' = DOMAIN rules'
    BY DEF Wanted
  <2> QED BY <1>1, <2>1 DEF SingleInv, InUse, Walk
<1>5. ASSUME NEW g PROVE RulesIn(g)' = RulesIn(g) /\ Surplus(g)' = 0 /\ Surplus(g) = 0
  BY <1>1 DEF RulesIn, Walk, Surplus
<1>6. Counted'
  BY <1>1, <1>5 DEF SingleInv, Counted
<1> QED BY <1>2, <1>3, <1>4, <1>6

LEMMA AddKeepsSingle ==
  ASSUME SingleInv, NEW r \in Routes, NEW hop \in NextHops, Add(r, hop)
  PROVE  SingleCall' /\ Uncut' /\ InUse' /\ Counted'
<1> DEFINE key == Masked(r)
           fresh == key \notin DOMAIN rules
<1>1. /\ op.pc = "idle" /\ rules' = WithRule(rules, key, hop) /\ UNCHANGED tables
      /\ op'.pc = "add" /\ op'.key = key /\ op'.todo = {} /\ op'.chain = <<>>
      /\ op'.fresh = fresh
  BY DEF Add, StartAdd, Idle
<1>2. op.chain = <<>>
  BY <1>1, SingleTypes DEF LinksInv, CallLinks
<1> HIDE DEF key
<1>3. DOMAIN rules' = DOMAIN rules \cup {key}
  BY <1>1 DEF WithRule
<1>4. Settled' = Settled
  <2>1. Settled = DOMAIN rules
    BY <1>1 DEF Settled
  <2>2. Settled' = IF fresh THEN DOMAIN rules' \ {key} ELSE DOMAIN rules'
    BY <1>1 DEF Settled
  <2> QED BY <1>3, <2>1, <2>2
<1> HIDE DEF fresh
<1> QED BY <1>1, <1>2, <1>3, <1>4, QuietStep

LEMMA AddStepDescendKeepsSingle ==
  ASSUME SingleInv, AddStepDescend
  PROVE  SingleCall' /\ Uncut' /\ InUse' /\ Counted'
<1>1. /\ op \in Call /\ op.pc = "add" /\ rules' = rules /\ UNCHANGED tables
      /\ op.key \in DOMAIN rules /\ op.todo = {}
  BY SingleTypes DEF SingleInv, SingleCall, AddStepDescend
<1>2. /\ op'.pc = "add" /\ op'.key = op.key /\ op'.todo = op.todo
      /\ op'.chain = op.chain /\ op'.fresh = op.fresh
  BY <1>1 DEF AddStepDescend, Descend, Call
<1>3. Settled' = Settled
  BY <1>1, <1>2 DEF Settled
<1> QED BY <1>1, <1>2, <1>3, QuietStep

LEMMA SmallModulus ==
  ASSUME NEW m \in Nat, NEW n \in Nat, m < n
  PROVE  m % n = m
OBVIOUS

\* A new group has no reference yet; the one that links it gets one more.
LEMMA NewTableKeepsSingle ==
  ASSUME GroupsFit, CountsFit, SingleInv, IndInv', AddStepNewTable
  PROVE  SingleCall' /\ Uncut' /\ InUse' /\ Counted'
<1> USE SingleTypes
<1>1. /\ op.pc = "add" /\ rules' = rules /\ op.key \in DOMAIN rules /\ op.todo = {}
      /\ op.chain = <<>> /\ op.key.ip \in Address /\ LevelOf(op.key.depth) \in Levels
      /\ AddOnWalk
  BY DEF SingleInv, AdmitInv, SingleCall, AddStepNewTable, LinksInv, CallLinks
<1>2. /\ op'.pc = "add" /\ op'.key = op.key /\ op'.todo = op.todo
      /\ op'.chain = op.chain /\ op'.fresh = op.fresh
  BY <1>1 DEF AddStepNewTable, Descend, Call
<1>3. /\ Settled' = Settled /\ Leaving' = {} /\ Leaving = {}
      /\ Wanted' = DOMAIN rules /\ Wanted = DOMAIN rules
  BY <1>1, <1>2 DEF Settled, Leaving, Wanted
<1>4. /\ \A ip \in Address : \A n \in Levels :
           Walk(ip)[n] # NO_TABLE => WalkIn(tbl', ip)[n] = Walk(ip)[n]
      /\ op.level + 1 \in Levels /\ op.level < LevelOf(op.key.depth)
      /\ WalkIn(tbl', op.key.ip)[op.level + 1] = tbl8_get
  BY <1>1, NewTableWalks
<1>5. /\ op.cur \in Live /\ op.cur \in Tables /\ op.cur # tbl8_get
      /\ AddSlot \in Slots(op.cur) /\ ~IsLink(AddEntry)
      /\ tbl8_get \in Groups \ Live
      /\ Taken' = Taken \cup {tbl8_get}
      /\ Link(tbl8_get).next_hop = tbl8_get /\ IsLink(Link(tbl8_get))
      /\ \A u \in Tables \ {tbl8_get, op.cur} : tbl'[u] = tbl[u]
      /\ \A i \in Slots(op.cur) :
           tbl'[op.cur][i] = IF i = AddSlot THEN Link(tbl8_get) ELSE tbl[op.cur][i]
      /\ \A i \in Slots(tbl8_get) : ~IsLink(tbl'[tbl8_get][i])
  BY NewTableEffect
<1> HIDE SingleTypes
<1>6. SingleCall'
  BY <1>1, <1>2 DEF SingleCall
<1>7. \A k \in Settled : k.ip \in Address /\ LevelOf(k.depth) \in Levels
  BY SingleTypes
<1>8. \A k \in Settled : \A n \in Levels : n <= LevelOf(k.depth) =>
        Walk(k.ip)[n] # NO_TABLE /\ WalkIn(tbl', k.ip)[n] = Walk(k.ip)[n]
  BY <1>3, <1>4, <1>7 DEF SingleInv, Uncut
<1>9. Uncut'
  BY <1>3, <1>8 DEF Uncut, Walk
<1>10. InUse'
  <2> SUFFICES ASSUME NEW g \in Taken'
               PROVE  \E k \in DOMAIN rules : \E n \in Levels :
                        n <= LevelOf(k.depth) /\ WalkIn(tbl', k.ip)[n] = g
    BY <1>3, <1>1 DEF InUse, Walk
  <2>1. CASE g \in Taken
    <3>1. PICK k \in DOMAIN rules : \E n \in Levels :
            n <= LevelOf(k.depth) /\ Walk(k.ip)[n] = g
      BY <1>3, <2>1 DEF SingleInv, InUse
    <3>2. PICK n \in Levels : n <= LevelOf(k.depth) /\ Walk(k.ip)[n] = g
      BY <3>1
    <3>3. g # NO_TABLE /\ k.ip \in Address
      BY <2>1, LiveTables, Constants, SingleTypes
    <3> QED BY <1>4, <3>2, <3>3
  <2>2. CASE g = tbl8_get
    <3>1. op.level + 1 <= LevelOf(op.key.depth)
      <4>1. op.level \in Levels
        BY SingleTypes, AddingTypes
      <4> QED BY <1>1, <1>4, <4>1, LevelRange
    <3> QED BY <1>1, <1>4, <2>2, <3>1
  <2> QED BY <1>5, <2>1, <2>2
\* No settled rule ends in the new group, and those that end elsewhere still do.
<1>11. ASSUME NEW g \in Taken'
       PROVE  RulesIn(g)' = IF g = tbl8_get THEN {} ELSE RulesIn(g)
  <2>1. \A k \in Settled : /\ WalkIn(tbl', k.ip)[LevelOf(k.depth)] = Walk(k.ip)[LevelOf(k.depth)]
                           /\ Walk(k.ip)[LevelOf(k.depth)] \in Live
    <3> TAKE k \in Settled
    <3>1. LevelOf(k.depth) \in Levels /\ LevelOf(k.depth) <= LevelOf(k.depth) /\ k.ip \in Address
      BY <1>7, LevelRange
    <3>2. Walk(k.ip)[LevelOf(k.depth)] \in Live \cup {NO_TABLE}
      BY <3>1, WalkIsLive, SingleTypes
    <3> QED BY <1>8, <3>1, <3>2
  <2>2. RulesIn(g)' = {k \in Settled : WalkIn(tbl', k.ip)[LevelOf(k.depth)] = g}
    BY <1>3 DEF RulesIn, Walk
  <2> QED BY <1>5, <2>1, <2>2 DEF RulesIn
<1>12. ASSUME NEW g \in Taken'
       PROVE  LinksIn(g)' = IF g = tbl8_get THEN {}
                            ELSE IF g = op.cur THEN LinksIn(g) \cup {AddSlot} ELSE LinksIn(g)
  <2>1. LinksIn(g)' = {j \in Slots(g) : IsLink(tbl'[g][j])}
    BY <1>3 DEF LinksIn
  <2>2. LinksIn(g) = {j \in Slots(g) : IsLink(tbl[g][j])}
    BY <1>3 DEF LinksIn
  <2>3. g \in Tables
    BY <1>5, LiveTables, Constants
  <2> QED BY <1>5, <2>1, <2>2, <2>3
<1>13. ASSUME NEW g \in Taken'
       PROVE  tbl8_hdrs'[g].ref_cnt = IF g = tbl8_get THEN 0
                ELSE IF g = op.cur THEN (tbl8_hdrs[g].ref_cnt + 1) % REF_MOD
                ELSE tbl8_hdrs[g].ref_cnt
  <2> DEFINE get == tbl8_get
             cur == op.cur
             header == init_tbl8_header(cur, AddSlot)
             hdrs == [tbl8_hdrs EXCEPT ![get] = header]
  <2>1. tbl8_hdrs' = Referenced(hdrs, cur) /\ g \in Groups /\ header.ref_cnt = 0
    BY <1>5, LiveTables DEF AddStepNewTable, init_tbl8_header
  <2>2. hdrs[g] = (IF g = get THEN header ELSE tbl8_hdrs[g]) /\ hdrs[cur] = tbl8_hdrs[cur]
        /\ DOMAIN hdrs = Groups
    <3>1. tbl8_hdrs \in [Groups -> Header]
      BY SingleTypes
    <3> HIDE DEF header, get
    <3>2. cur # get
      BY <1>5 DEF get
    <3> HIDE DEF cur
    <3> QED BY <2>1, <3>1, <3>2
  <2>3. CASE cur = TBL24_IND
    <3>1. g # cur
      BY <2>1, <2>3, Constants
    <3> QED BY <2>1, <2>2, <2>3, <3>1 DEF Referenced
  <2>4. CASE cur # TBL24_IND
    <3>1. cur \in Groups
      BY <1>5, <2>4 DEF Tables
    <3>2. tbl8_hdrs' = [hdrs EXCEPT ![cur] =
                          [hdrs[cur] EXCEPT !.ref_cnt = (hdrs[cur].ref_cnt + 1) % REF_MOD]]
      BY <2>1, <2>4 DEF Referenced
    <3>3. tbl8_hdrs[cur] \in Header /\ cur # get
      BY <1>5, <3>1, SingleTypes
    <3> HIDE DEF header, hdrs, get, cur
    <3>4. tbl8_hdrs'[g] = IF g = cur
                          THEN [hdrs[cur] EXCEPT !.ref_cnt = (hdrs[cur].ref_cnt + 1) % REF_MOD]
                          ELSE hdrs[g]
      BY <2>1, <2>2, <3>1, <3>2
    <3> QED BY <2>1, <2>2, <3>3, <3>4 DEF Header, get, cur
  <2> QED BY <2>3, <2>4
<1>14. ASSUME NEW g \in Taken'
       PROVE  tbl8_hdrs'[g].ref_cnt = Cardinality(RulesIn(g)') + Cardinality(LinksIn(g)')
  <2>1. CASE g = tbl8_get
    <3>1. Cardinality({}) = 0
      BY FS_EmptySet
    <3>2. RulesIn(g)' = {} /\ LinksIn(g)' = {} /\ tbl8_hdrs'[g].ref_cnt = 0
      BY <1>11, <1>12, <1>13, <2>1
    <3> QED BY <3>1, <3>2
  <2>2. CASE g # tbl8_get
    <3>1. g \in Taken /\ g \in Groups
      BY <1>5, <2>2, LiveTables
    <3>2. tbl8_hdrs[g].ref_cnt = Cardinality(RulesIn(g)) + Cardinality(LinksIn(g)) + 0
      BY <1>1, <1>3, <3>1 DEF SingleInv, Counted, Surplus
    <3>3. RulesIn(g)' = RulesIn(g)
      BY <1>11, <2>2
    <3>4. /\ IsFiniteSet(RulesIn(g)) /\ Cardinality(RulesIn(g)) \in Nat
          /\ IsFiniteSet(LinksIn(g)) /\ Cardinality(LinksIn(g)) \in Nat
      BY <3>1, ReferenceSets
    <3>5. CASE g # op.cur
      BY <1>12, <1>13, <2>2, <3>2, <3>3, <3>4, <3>5
    <3>6. CASE g = op.cur
      <4> DEFINE A == RulesIn(g)
                 B == LinksIn(g)
                 C == B \cup {AddSlot}
      <4>1. AddSlot \notin B
        BY <3>6, <1>5 DEF LinksIn, AddEntry
      <4>2. Cardinality(C) = Cardinality(B) + 1
        <5> HIDE DEF B
        <5> QED BY <3>4, <4>1, FS_AddElement DEF B
      <4>3. Cardinality(A) + Cardinality(C) < REF_MOD
        <5>1. IsFiniteSet(DOMAIN rules) /\ Cardinality(DOMAIN rules) <= MAX_RULES
          BY SingleTypes, Constants DEF IndInv, TypeOK, RulesCounted
        <5>2. A \in SUBSET (DOMAIN rules) /\ C \in SUBSET Slots(g)
          BY <1>5, <3>6, SingleTypes DEF RulesIn, LinksIn
        <5> HIDE DEF A, C
        <5> QED BY <3>1, <5>1, <5>2, ReferencesFit
      <4>4. tbl8_hdrs'[g].ref_cnt = (tbl8_hdrs[g].ref_cnt + 1) % REF_MOD
        BY <1>13, <2>2, <3>6
      <4>5. LinksIn(g)' = C
        BY <1>12, <2>2, <3>6
      <4>6. REF_MOD \in Nat \ {0}
        BY Constants
      <4> HIDE DEF C
      <4>7. (tbl8_hdrs[g].ref_cnt + 1) % REF_MOD = Cardinality(A) + Cardinality(C)
        <5>1. tbl8_hdrs[g].ref_cnt + 1 = Cardinality(A) + Cardinality(C)
              /\ Cardinality(A) + Cardinality(C) \in Nat
          BY <3>2, <3>4, <4>2
        <5> QED BY <4>3, <4>6, <5>1, SmallModulus
      <4> QED BY <3>3, <4>4, <4>5, <4>7
    <3> QED BY <3>5, <3>6
  <2> QED BY <2>1, <2>2
<1>15. Counted'
  <2> SUFFICES ASSUME NEW g \in Taken'
               PROVE  tbl8_hdrs'[g].ref_cnt =
                        Cardinality(RulesIn(g)') + Cardinality(LinksIn(g)') + Surplus(g)'
    BY DEF Counted
  <2>1. Surplus(g)' = 0
    BY <1>2 DEF Surplus
  <2>2. Cardinality(RulesIn(g)') + Cardinality(LinksIn(g)') \in Nat
    <3>1. g \in Groups
      BY <1>5, LiveTables
    <3>2. tbl8_hdrs'[g] \in Header
      BY <3>1 DEF IndInv, TypeOK
    <3>3. tbl8_hdrs'[g].ref_cnt \in Nat
      BY <3>2, Constants DEF Header
    <3> QED BY <1>14, <3>3
  <2> QED BY <1>14, <2>1, <2>2
<1> QED BY <1>6, <1>9, <1>10, <1>15

-----------------------------------------------------------------------------
(* Steps that write leaves only *)

\* Writing leaves over leaves changes no link.
LEMMA LeavesOnly ==
  ASSUME IndInv, NEW t, NEW cells, NEW hit, NEW depth, NEW e \in Entry, ~e.ext_entry,
         \A j \in hit : ~IsLink(tbl[t][j]),
         tbl' = WriteRule(t, cells, hit, depth, e)
  PROVE  \A u \in Tables : \A j \in Slots(u) :
           IsLink(tbl'[u][j]) \/ IsLink(tbl[u][j]) => tbl'[u][j] = tbl[u][j]
<1> TAKE u \in Tables
<1> TAKE j \in Slots(u)
<1>1. \/ tbl'[u][j] = tbl[u][j]
      \/ /\ tbl'[u][j] = e
         /\ (u = t /\ j \in hit) \/ Yields(tbl[u][j], depth)
  BY DEF WriteRule
<1>2. ~IsLink(e)
  BY LinkEntry
<1>3. Yields(tbl[u][j], depth) => ~IsLink(tbl[u][j])
  BY DEF Yields, IsLink
<1> QED BY <1>1, <1>2, <1>3

\* Where no link changes, neither do walks and groups, as far as they go.
LEMMA SameLinksSameWalks ==
  ASSUME SingleInv, IndInv', UNCHANGED <<tbl8_pool, tbl8_pool_pos>>,
         op.chain = <<>>, op'.chain = <<>>,
         \A u \in Tables : \A j \in Slots(u) :
           IsLink(tbl'[u][j]) \/ IsLink(tbl[u][j]) => tbl'[u][j] = tbl[u][j]
  PROVE  /\ Taken' = Taken /\ Leaving = {} /\ Leaving' = {}
         /\ \A ip \in Address : \A n \in Levels :
              Walk(ip)[n] # NO_TABLE => WalkIn(tbl', ip)[n] = Walk(ip)[n]
         /\ \A g \in Taken : LinksIn(g)' = LinksIn(g)
<1>1. Taken' = Taken /\ Leaving = {} /\ Leaving' = {}
  BY DEF Taken, Free, Leaving
<1>2. TablesOK(tbl) /\ TablesOK(tbl')
  BY SingleTypes DEF IndInv, TypeOK, TablesOK
<1>3. ASSUME NEW ip \in Address, NEW n \in Levels, Walk(ip)[n] # NO_TABLE
      PROVE  WalkIn(tbl', ip)[n] = Walk(ip)[n]
  <2>1. \A m \in Levels : WalkIn(tbl, ip)[m] \in Live \cup {NO_TABLE}
    BY SingleTypes, WalkIsLive DEF Walk
  <2>2. \A t \in Tables \cap Live : \A j \in Slots(t) :
          IsLink(tbl[t][j]) => tbl'[t][j] = tbl[t][j]
    OBVIOUS
  <2> QED BY <1>2, <1>3, <2>1, <2>2, WalkGoesOn DEF Walk
<1>4. ASSUME NEW g \in Taken PROVE LinksIn(g)' = LinksIn(g)
  <2>1. g \in Tables
    BY LiveTables, Constants
  <2>2. \A j \in Slots(g) : /\ IsLink(tbl'[g][j]) <=> IsLink(tbl[g][j])
                            /\ IsLink(tbl[g][j]) => tbl'[g][j] = tbl[g][j]
    BY <2>1
  <2>3. LinksIn(g) = {j \in Slots(g) : IsLink(tbl[g][j])}
    BY <1>1 DEF LinksIn
  <2>4. LinksIn(g)' = {j \in Slots(g) : IsLink(tbl'[g][j])}
    BY <1>1 DEF LinksIn
  <2> QED BY <2>2, <2>3, <2>4
<1> QED BY <1>1, <1>3, <1>4

\* The invariant about walks, once a call that wrote leaves returns.
LEMMA ReturnKeepsWays ==
  ASSUME SingleInv, op'.pc = "idle", op'.todo = {}, rules' = rules, op.pc # "unref",
         Taken' = Taken, Leaving = {}, Leaving' = {},
         \A ip \in Address : \A n \in Levels :
           Walk(ip)[n] # NO_TABLE => WalkIn(tbl', ip)[n] = Walk(ip)[n],
         \A k \in DOMAIN rules : \A n \in Levels :
           n <= LevelOf(k.depth) => Walk(k.ip)[n] # NO_TABLE
  PROVE  SingleCall' /\ Uncut' /\ InUse'
<1>1. SingleCall'
  BY DEF SingleCall
<1>2. \A k \in DOMAIN rules : k.ip \in Address
  BY SingleTypes
<1>3. Uncut'
  <2>1. Settled' = DOMAIN rules
    BY DEF Settled
  <2> QED BY <1>2, <2>1 DEF Uncut, Walk
<1>4. InUse'
  <2>1. Wanted' = DOMAIN rules /\ Wanted = DOMAIN rules
    BY DEF Wanted
  <2> SUFFICES ASSUME NEW g \in Taken
               PROVE  \E k \in DOMAIN rules : \E n \in Levels :
                        n <= LevelOf(k.depth) /\ WalkIn(tbl', k.ip)[n] = g
    BY <2>1 DEF InUse, Walk
  <2>2. PICK k \in DOMAIN rules : \E n \in Levels :
          n <= LevelOf(k.depth) /\ Walk(k.ip)[n] = g
    BY <2>1 DEF SingleInv, InUse
  <2>3. PICK n \in Levels : n <= LevelOf(k.depth) /\ Walk(k.ip)[n] = g
    BY <2>2
  <2> QED BY <1>2, <2>3
<1> QED BY <1>1, <1>3, <1>4

LEMMA DeleteClearKeepsSingle ==
  ASSUME SingleInv, IndInv', DeleteClear
  PROVE  SingleCall' /\ Uncut' /\ InUse' /\ Counted'
<1>1. /\ op.pc = "clear" /\ op' = Idle /\ rules' = rules /\ tbl8_hdrs' = tbl8_hdrs
      /\ UNCHANGED <<tbl8_pool, tbl8_pool_pos>>
      /\ op.entry \in Entry /\ ~op.entry.ext_entry /\ op.chain = <<>>
  BY SingleTypes DEF DeleteClear, LinksInv, IndInv, TypeOK, Call, CallLinks
<1>2. op'.pc = "idle" /\ op'.chain = <<>> /\ op'.todo = {}
  BY <1>1 DEF Idle
<1>3. \A u \in Tables : \A j \in Slots(u) :
        IsLink(tbl'[u][j]) \/ IsLink(tbl[u][j]) => tbl'[u][j] = tbl[u][j]
  <2>1. PICK cells, hit :
          /\ hit = {i \in cells : BelongsTo(tbl[op.cur][i], op.key.depth)}
          /\ tbl' = WriteRule(op.cur, cells, hit, op.key.depth, op.entry)
    BY DEF DeleteClear
  <2>2. \A j \in hit : ~IsLink(tbl[op.cur][j])
    BY <2>1 DEF BelongsTo, IsLink
  <2> QED BY <1>1, <2>1, <2>2, LeavesOnly, SingleTypes
<1>4. /\ Taken' = Taken /\ Leaving = {} /\ Leaving' = {}
      /\ \A ip \in Address : \A n \in Levels :
           Walk(ip)[n] # NO_TABLE => WalkIn(tbl', ip)[n] = Walk(ip)[n]
      /\ \A g \in Taken : LinksIn(g)' = LinksIn(g)
  BY <1>1, <1>2, <1>3, SameLinksSameWalks
<1>5. Settled = DOMAIN rules /\ Settled' = DOMAIN rules
  BY <1>1, <1>2 DEF Settled
<1>6. \A k \in DOMAIN rules : \A n \in Levels :
        n <= LevelOf(k.depth) => Walk(k.ip)[n] # NO_TABLE
  BY <1>5 DEF SingleInv, Uncut
<1>7. SingleCall' /\ Uncut' /\ InUse'
  BY <1>1, <1>2, <1>4, <1>6, ReturnKeepsWays
<1>8. ASSUME NEW g \in Taken
      PROVE  RulesIn(g)' = RulesIn(g) /\ Surplus(g)' = 0 /\ Surplus(g) = 0
  <2>1. \A k \in DOMAIN rules : WalkIn(tbl', k.ip)[LevelOf(k.depth)] = Walk(k.ip)[LevelOf(k.depth)]
    <3> TAKE k \in DOMAIN rules
    <3>1. k.ip \in Address /\ LevelOf(k.depth) \in Levels
      BY SingleTypes
    <3>2. LevelOf(k.depth) <= LevelOf(k.depth)
      BY <3>1, LevelRange
    <3> QED BY <1>4, <1>6, <3>1, <3>2
  <2>2. RulesIn(g)' = {k \in DOMAIN rules : WalkIn(tbl', k.ip)[LevelOf(k.depth)] = g}
    BY <1>5 DEF RulesIn, Walk
  <2> QED BY <1>1, <1>2, <1>5, <2>1, <2>2 DEF RulesIn, Surplus
<1>9. Counted'
  BY <1>1, <1>4, <1>8 DEF SingleInv, Counted
<1> QED BY <1>7, <1>9

\* The rule is counted where it ends, if it is new, as rule_add found.
LEMMA AddStepLastKeepsSingle ==
  ASSUME CountsFit, SingleInv, IndInv', AddStepLast
  PROVE  SingleCall' /\ Uncut' /\ InUse' /\ Counted'
<1> DEFINE L == LevelOf(op.key.depth)
           mine(g) == IF op.fresh /\ g = op.cur THEN {op.key} ELSE {}
<1> USE SingleTypes
<1>1. /\ op.pc = "add" /\ ~Deeper /\ rules' = rules /\ op.key \in DOMAIN rules
      /\ UNCHANGED <<tbl8_pool, tbl8_pool_pos>> /\ tbl8_hdrs' = RuleCounted
      /\ op.entry \in Entry /\ ~op.entry.ext_entry /\ op.chain = <<>> /\ op.todo = {}
      /\ op.level \in Levels /\ L \in Levels /\ op.key.depth \in Depth
      /\ op.key.ip \in Address /\ op.cur \in Live
      /\ op.cur = Walk(op.key.ip)[op.level] /\ op.level <= L /\ op.fresh \in BOOLEAN
  BY AddingTypes
  DEF AddStepLast, SingleInv, AdmitInv, SingleCall, AddOnWalk, LinksInv, CallLinks, Call
<1> HIDE SingleTypes
<1>2. op'.pc = "idle" /\ op'.chain = <<>> /\ op'.todo = {}
  <2>1. op' = Idle
    BY <1>1 DEF AddStepLast
  <2> QED BY <2>1 DEF Idle
<1>3. \A u \in Tables : \A j \in Slots(u) :
        IsLink(tbl'[u][j]) \/ IsLink(tbl[u][j]) => tbl'[u][j] = tbl[u][j]
  <2>1. PICK cells, hit :
          /\ hit = {i \in cells : Yields(tbl[op.cur][i], op.key.depth)}
          /\ tbl' = WriteRule(op.cur, cells, hit, op.key.depth, op.entry)
    BY DEF AddStepLast
  <2>2. \A j \in hit : ~IsLink(tbl[op.cur][j])
    BY <2>1 DEF Yields, IsLink
  <2> QED BY <1>1, <2>1, <2>2, LeavesOnly, SingleTypes
<1>4. /\ Taken' = Taken /\ Leaving = {} /\ Leaving' = {}
      /\ \A ip \in Address : \A n \in Levels :
           Walk(ip)[n] # NO_TABLE => WalkIn(tbl', ip)[n] = Walk(ip)[n]
      /\ \A g \in Taken : LinksIn(g)' = LinksIn(g)
  BY <1>1, <1>2, <1>3, SameLinksSameWalks
<1>5. op.cur = Walk(op.key.ip)[L]
  <2>1. ~(op.level < L)
    BY <1>1, DeeperIsAbove DEF Deeper
  <2> HIDE DEF L
  <2>2. op.level = L
    BY <1>1, <2>1, LevelRange
  <2> QED BY <1>1, <2>2
<1>6. /\ Settled' = DOMAIN rules
      /\ op.fresh => Settled = DOMAIN rules \ {op.key}
      /\ ~op.fresh => Settled = DOMAIN rules
  BY <1>1, <1>2 DEF Settled
<1>7. \A k \in DOMAIN rules : \A n \in Levels :
        n <= LevelOf(k.depth) => Walk(k.ip)[n] # NO_TABLE
  <2> SUFFICES ASSUME NEW k \in DOMAIN rules, NEW n \in Levels, n <= LevelOf(k.depth)
               PROVE  Walk(k.ip)[n] # NO_TABLE
    OBVIOUS
  <2>1. CASE k \in Settled
    BY <2>1 DEF SingleInv, Uncut
  <2>2. CASE k = op.key
    <3>1. Walk(op.key.ip)[L] # NO_TABLE /\ n <= L
      BY <1>1, <1>5, <2>2, LiveTables
    <3> HIDE DEF L
    <3> QED BY <1>1, <2>2, <3>1, WalkStops, SingleTypes DEF Walk
  <2> QED BY <1>1, <1>6, <2>1, <2>2
<1>8. SingleCall' /\ Uncut' /\ InUse'
  BY <1>1, <1>2, <1>4, <1>7, ReturnKeepsWays
<1>9. ASSUME NEW g \in Taken
      PROVE  RulesIn(g)' = RulesIn(g) \cup mine(g)
  <2>1. \A k \in DOMAIN rules : WalkIn(tbl', k.ip)[LevelOf(k.depth)] = Walk(k.ip)[LevelOf(k.depth)]
    <3> TAKE k \in DOMAIN rules
    <3>1. k.ip \in Address /\ LevelOf(k.depth) \in Levels
      BY SingleTypes
    <3>2. LevelOf(k.depth) <= LevelOf(k.depth)
      BY <3>1, LevelRange
    <3> QED BY <1>4, <1>7, <3>1, <3>2
  <2>2. RulesIn(g)' = {k \in DOMAIN rules : WalkIn(tbl', k.ip)[LevelOf(k.depth)] = g}
    BY <1>6 DEF RulesIn, Walk
  <2>3. RulesIn(g)' = {k \in DOMAIN rules : Walk(k.ip)[LevelOf(k.depth)] = g}
    BY <2>1, <2>2
  <2>4. Walk(op.key.ip)[LevelOf(op.key.depth)] = op.cur
    BY <1>5
  <2> QED BY <1>1, <1>6, <2>3, <2>4 DEF RulesIn
<1>10. ASSUME NEW g \in Taken
       PROVE  tbl8_hdrs'[g].ref_cnt = Cardinality(RulesIn(g)') + Cardinality(LinksIn(g)')
  <2> DEFINE A == RulesIn(g)
             B == LinksIn(g)
             C == A \cup {op.key}
  <2>1. g \in Groups /\ g # TBL24_IND /\ tbl8_hdrs \in [Groups -> Header]
    BY LiveTables, SingleTypes
  <2>2. /\ IsFiniteSet(A) /\ Cardinality(A) \in Nat
        /\ IsFiniteSet(B) /\ Cardinality(B) \in Nat
    BY <2>1, ReferenceSets
  <2>3. tbl8_hdrs[g].ref_cnt = Cardinality(A) + Cardinality(B)
    <3>1. Surplus(g) = 0
      BY <1>1 DEF Surplus
    <3>2. tbl8_hdrs[g].ref_cnt = Cardinality(A) + Cardinality(B) + Surplus(g)
      BY <1>4 DEF SingleInv, Counted
    <3> HIDE DEF A, B
    <3> QED BY <2>2, <3>1, <3>2
  <2>4. LinksIn(g)' = B
    BY <1>4
  <2>5. CASE op.fresh /\ g = op.cur
    <3>1. RulesIn(g)' = C
      BY <1>9, <2>5
    <3>2. op.key \notin A
      BY <1>6, <2>5 DEF RulesIn
    <3>3. tbl8_hdrs'[g].ref_cnt = (tbl8_hdrs[g].ref_cnt + 1) % REF_MOD
      <4>1. tbl8_hdrs' = [tbl8_hdrs EXCEPT ![g] =
                   [tbl8_hdrs[g] EXCEPT !.ref_cnt = (tbl8_hdrs[g].ref_cnt + 1) % REF_MOD]]
        BY <1>1, <2>1, <2>5 DEF RuleCounted, Referenced
      <4>2. tbl8_hdrs[g] \in Header
        BY <2>1
      <4> QED BY <2>1, <4>1, <4>2 DEF Header
    <3> HIDE DEF A, B
    <3>4. Cardinality(C) = Cardinality(A) + 1
      BY <2>2, <3>2, FS_AddElement
    <3>5. Cardinality(C) + Cardinality(B) < REF_MOD
      <4>1. IsFiniteSet(DOMAIN rules) /\ Cardinality(DOMAIN rules) <= MAX_RULES
        BY SingleTypes, Constants DEF IndInv, TypeOK, RulesCounted
      <4>2. C \in SUBSET (DOMAIN rules) /\ B \in SUBSET Slots(g)
        BY <1>1, SingleTypes DEF RulesIn, LinksIn, A, B
      <4> HIDE DEF C
      <4> QED BY <2>1, <4>1, <4>2, ReferencesFit
    <3>6. (tbl8_hdrs[g].ref_cnt + 1) % REF_MOD = Cardinality(C) + Cardinality(B)
      <4>1. /\ tbl8_hdrs[g].ref_cnt + 1 = Cardinality(C) + Cardinality(B)
            /\ Cardinality(C) + Cardinality(B) \in Nat
        BY <2>2, <2>3, <3>4
      <4> QED BY <3>5, <4>1, Constants, SmallModulus
    <3> QED BY <2>4, <3>1, <3>3, <3>6
  <2>6. CASE ~(op.fresh /\ g = op.cur)
    <3>1. RulesIn(g)' = A
      BY <1>9, <2>6
    <3>2. tbl8_hdrs'[g] = tbl8_hdrs[g]
      BY <1>1, <2>1, <2>6 DEF RuleCounted, Referenced
    <3> QED BY <2>3, <2>4, <3>1, <3>2
  <2> QED BY <2>5, <2>6
<1>11. Counted'
  <2> SUFFICES ASSUME NEW g \in Taken
               PROVE  tbl8_hdrs'[g].ref_cnt =
                        Cardinality(RulesIn(g)') + Cardinality(LinksIn(g)') + Surplus(g)'
    BY <1>4 DEF Counted
  <2>1. Surplus(g)' = 0
    BY <1>2 DEF Surplus
  <2>2. Cardinality(RulesIn(g)') + Cardinality(LinksIn(g)') \in Nat
    <3>1. g \in Groups
      BY LiveTables
    <3>2. tbl8_hdrs'[g] \in Header
      BY <3>1 DEF IndInv, TypeOK
    <3>3. tbl8_hdrs'[g].ref_cnt \in Nat
      BY <3>2, Constants DEF Header
    <3> QED BY <1>10, <3>3
  <2> QED BY <1>10, <2>1, <2>2
<1> QED BY <1>8, <1>11

-----------------------------------------------------------------------------
(* Steps of deletions *)

\* The table of the deleted rule has one reference too many.
LEMMA DeleteKeepsSingle ==
  ASSUME CountsFit, SingleInv, NEW r \in Routes, Delete(r)
  PROVE  SingleCall' /\ Uncut' /\ InUse' /\ Counted'
<1> DEFINE key == Masked(r)
           level == LevelOf(key.depth)
           t == Walk(key.ip)[level]
<1>1. /\ op.pc = "idle" /\ key \in DOMAIN rules /\ rules' = WithoutRules(rules, {key})
      /\ UNCHANGED tables /\ t \in Tables
      /\ op' = [Idle EXCEPT !.pc = IF t = TBL24_IND THEN "clear" ELSE "unref",
                            !.key = key, !.cur = t, !.level = level,
                            !.entry = rule_find_less_specific(key)]
  BY DEF Delete
<1>2. key.ip \in Address /\ level \in Levels
  BY <1>1, SingleTypes
<1> HIDE DEF key, level, t
<1>3. /\ op'.pc = IF t = TBL24_IND THEN "clear" ELSE "unref"
      /\ op'.key = key /\ op'.cur = t /\ op'.chain = <<>> /\ op'.todo = {}
  BY <1>1 DEF Idle
<1>4. op.chain = <<>>
  BY <1>1, SingleTypes DEF LinksInv, CallLinks
<1>5. /\ Taken' = Taken /\ Leaving' = Leaving /\ tbl8_hdrs' = tbl8_hdrs
      /\ \A ip : WalkIn(tbl', ip) = Walk(ip)
      /\ \A g : LinksIn(g)' = LinksIn(g)
  BY <1>1, <1>3, <1>4, TablesSame
<1>6. /\ DOMAIN rules' = DOMAIN rules \ {key} /\ Settled = DOMAIN rules
      /\ Settled' = DOMAIN rules \ {key} /\ Leaving = {}
  BY <1>1, <1>3, <1>4 DEF WithoutRules, Settled, Leaving
<1>7. SingleCall'
  <2>1. level + 0 = level /\ Len(<<>>) = 0
    BY <1>2, LevelRange
  <2>2. WalkIn(tbl', key.ip)[level] = t
    BY <1>5 DEF t
  <2>3. level + Len(<<>>) = LevelOf(key.depth)
    BY <2>1 DEF level
  <2> QED BY <1>2, <1>3, <2>2, <2>3 DEF SingleCall, Walk
<1>8. Uncut'
  BY <1>5, <1>6 DEF SingleInv, Uncut, Walk
<1>9. InUse'
  <2> SUFFICES ASSUME NEW g \in Taken
               PROVE  \E k \in Wanted' : \E n \in Levels :
                        n <= LevelOf(k.depth) /\ Walk(k.ip)[n] = g
    BY <1>5 DEF InUse, Walk
  <2>1. PICK k \in DOMAIN rules : \E n \in Levels :
          n <= LevelOf(k.depth) /\ Walk(k.ip)[n] = g
    BY <1>1, <1>6 DEF SingleInv, InUse, Wanted
  <2>2. PICK n \in Levels : n <= LevelOf(k.depth) /\ Walk(k.ip)[n] = g
    BY <2>1
  <2>3. CASE t = TBL24_IND
    <3>1. k # key
      <4> SUFFICES ASSUME k = key PROVE FALSE
        OBVIOUS
      <4>1. level = ADD_FIRST_BYTE
        BY <1>2, <2>3, WalkIsLive, SingleTypes DEF t
      <4>2. n = ADD_FIRST_BYTE
        BY <2>2, <4>1, LevelRange DEF level
      <4> QED BY <1>2, <2>2, <4>2, WalkIsLive, SingleTypes, LiveTables
    <3>2. Wanted' = DOMAIN rules \ {key}
      BY <1>3, <1>6, <2>3 DEF Wanted
    <3> QED BY <2>2, <3>1, <3>2
  <2>4. CASE t # TBL24_IND
    <3>1. Wanted' = (DOMAIN rules \ {key}) \cup {key}
      BY <1>3, <1>6, <2>4 DEF Wanted
    <3> QED BY <2>2, <3>1
  <2> QED BY <2>3, <2>4
<1>10. ASSUME NEW g \in Taken
       PROVE  tbl8_hdrs[g].ref_cnt =
                Cardinality(RulesIn(g)') + Cardinality(LinksIn(g)') + Surplus(g)'
  <2>1. RulesIn(g)' = RulesIn(g) \ {key}
    BY <1>5, <1>6 DEF RulesIn, Walk
  <2>2. key \in RulesIn(g) <=> g = t
    BY <1>1, <1>6 DEF RulesIn, t, level
  <2>3. /\ IsFiniteSet(RulesIn(g)) /\ Cardinality(RulesIn(g)) \in Nat
        /\ Cardinality(LinksIn(g)) \in Nat
    BY ReferenceSets, LiveTables
  <2>4. tbl8_hdrs[g].ref_cnt = Cardinality(RulesIn(g)) + Cardinality(LinksIn(g)) + 0
    BY <1>1, <1>6 DEF SingleInv, Counted, Surplus
  <2>5. CASE g = t
    <3>1. Surplus(g)' = 1
      BY <1>3, <2>5, LiveTables DEF Surplus
    <3>2. Cardinality(RulesIn(g)') = Cardinality(RulesIn(g)) - 1
      BY <2>1, <2>2, <2>3, <2>5, FS_RemoveElement
    <3>3. LinksIn(g)' = LinksIn(g)
      BY <1>5
    <3> QED BY <2>3, <2>4, <3>1, <3>2, <3>3
  <2>6. CASE g # t
    <3>1. Surplus(g)' = 0
      BY <1>3, <2>6 DEF Surplus
    <3>2. RulesIn(g)' = RulesIn(g) /\ LinksIn(g)' = LinksIn(g)
      BY <1>5, <2>1, <2>2, <2>6
    <3> QED BY <2>4, <3>1, <3>2
  <2> QED BY <2>5, <2>6
<1>11. Counted'
  BY <1>5, <1>6, <1>10 DEF Counted
<1> QED BY <1>7, <1>8, <1>9, <1>11

LEMMA DeleteAllKeepsSingle ==
  ASSUME SingleInv, DeleteAll
  PROVE  SingleCall' /\ Uncut' /\ InUse' /\ Counted'
<1>1. op.pc = "idle" /\ op' = op /\ DOMAIN rules' = {} /\ ResetTables /\ op.todo = {}
  BY DEF DeleteAll, NoRules, SingleInv, SingleCall
<1>2. Taken' = {}
  <2>1. tbl8_pool' = FullPool /\ tbl8_pool_pos' = 0
    BY <1>1 DEF ResetTables
  <2>2. \A g \in Groups : g \in 0..(NUMBER_TBL8S - 1) /\ FullPool[g] = g
    BY DEF FullPool, Groups
  <2> QED BY <2>1, <2>2 DEF Taken, Free
<1>3. Settled' = {}
  BY <1>1 DEF Settled
<1> QED BY <1>1, <1>2, <1>3 DEF SingleCall, Uncut, InUse, Counted

-----------------------------------------------------------------------------
(* Giving references back *)

\* Ways that meet in a table are the same above it.
LEMMA SameWayAbove ==
  ASSUME IndInv, LinksKept, NEW ip \in Address, NEW jp \in Address,
         NEW n \in Levels, NEW m \in Levels,
         Walk(ip)[n] \in Live, Walk(ip)[n] = Walk(jp)[m]
  PROVE  m = n /\ \A l \in Levels : l <= n => Walk(ip)[l] = Walk(jp)[l]
<1>1. /\ m = n
      /\ \A l \in ADD_FIRST_BYTE..(n - 1) : get_bitshift(ip, l) = get_bitshift(jp, l)
  BY SameTableSameNode
<1>2. ASSUME NEW l \in Levels, l <= n PROVE Walk(ip)[l] = Walk(jp)[l]
  <2>1. \A i \in ADD_FIRST_BYTE..(l - 1) : i \in ADD_FIRST_BYTE..(n - 1)
    BY <1>2, LevelRange
  <2> QED BY <1>1, <2>1, SameNodeSameTable
<1> QED BY <1>1, <1>2

\* A group on the way to a rule is referred to: by the rule, or by a link.
LEMMA OnWayIsReferred ==
  ASSUME SingleInv, NEW k \in Settled, NEW n \in Levels, n <= LevelOf(k.depth),
         NEW g, g = Walk(k.ip)[n]
  PROVE  k \in RulesIn(g) \/ LinksIn(g) # {}
<1> DEFINE L == LevelOf(k.depth)
<1>1. k.ip \in Address /\ L \in Levels
  BY SingleTypes
<1>2. CASE n = L
  BY <1>2 DEF RulesIn
<1>3. CASE n # L
  <2> HIDE DEF L
  <2>1. n + 1 \in Levels /\ n + 1 <= L /\ n + 1 # ADD_FIRST_BYTE /\ (n + 1) - 1 = n
    BY <1>1, <1>3, LevelRange DEF L
  <2>2. Walk(k.ip)[n + 1] \notin Leaving \cup {NO_TABLE}
    BY <2>1 DEF SingleInv, Uncut, L
  <2>3. Walk(k.ip)[n + 1] \in Taken
    BY <1>1, <2>1, <2>2, WalkIsLive, SingleTypes DEF Live
  <2>4. Walk(k.ip)[n + 1] \in LinkedFrom(g, Slots(g))
    BY <1>1, <2>1, <2>3, LinkOnWalk, SingleTypes
  <2> QED BY <2>2, <2>4 DEF LinkedFrom, LinksIn
<1> QED BY <1>2, <1>3

\* Where a running deletion stands: on the walk of its rule, with the groups
\* below, down to the one where the rule ended, in the chain.
LEMMA UnrefStands ==
  ASSUME SingleInv, op.pc = "unref"
  PROVE  \E k \in Levels :
           /\ op.cur = Walk(op.key.ip)[k] /\ k + Len(op.chain) = LevelOf(op.key.depth)
           /\ op.cur \in Taken \ Leaving /\ k # ADD_FIRST_BYTE /\ k - 1 \in Levels
           /\ Owner(op.cur) = Walk(op.key.ip)[k - 1]
           /\ Owner(op.cur) \in Live \ Leaving
           /\ Leaving \subseteq Taken
           /\ \A n \in Levels : k < n /\ n <= LevelOf(op.key.depth) =>
                Walk(op.key.ip)[n] \in Leaving
<1> DEFINE ip == op.key.ip
           L == LevelOf(op.key.depth)
<1>1. /\ op.chain \in Seq(Groups) /\ ip \in Address /\ op.cur \in Groups /\ L \in Levels
  BY SingleTypes, AddingTypes DEF IndInv, CallOK, Call, Prefix
<1> HIDE DEF ip, L
<1>2. PICK k \in Levels :
        /\ op.cur = Walk(ip)[k]
        /\ \A i \in DOMAIN op.chain : k + i \in Levels /\ op.chain[i] = Walk(ip)[k + i]
  BY SingleTypes DEF LinksInv, CallLinks, ChainOnWalk, ip
<1>3. PICK m \in Levels : op.cur = Walk(ip)[m] /\ m + Len(op.chain) = L
  BY DEF SingleInv, SingleCall, ip, L
<1>4. op.cur \in Taken
  <2>1. op.cur # NO_TABLE /\ op.cur # TBL24_IND
    BY <1>1, LiveTables, Constants
  <2> QED BY <1>1, <1>2, <2>1, WalkIsLive, SingleTypes DEF Live
<1>5. m = k
  <2>1. IndInv /\ LinksKept
    BY SingleTypes
  <2>2. Walk(ip)[m] \in Live /\ Walk(ip)[m] = Walk(ip)[k]
    BY <1>2, <1>3, <1>4 DEF Live
  <2> QED BY <1>1, <2>1, <2>2, WalkMeetsOnce
<1>6. /\ k # ADD_FIRST_BYTE /\ k - 1 \in Levels /\ Walk(ip)[k - 1] \in Live
      /\ Owner(op.cur) = Walk(ip)[k - 1]
  BY <1>1, <1>2, <1>4, WalkIsLive, LiveTables, SingleTypes
<1>7. ASSUME NEW i \in DOMAIN op.chain
      PROVE  op.chain[i] \in Taken /\ op.chain[i] # op.cur /\ op.chain[i] # Walk(ip)[k - 1]
  <2>1. k + i \in Levels /\ op.chain[i] = Walk(ip)[k + i] /\ op.chain[i] \in Groups
    BY <1>1, <1>2
  <2>2. k + i # k /\ k + i # k - 1
    BY <1>1, LevelRange
  <2> DEFINE n == k + i
  <2> HIDE DEF n
  <2>3. op.chain[i] \in Live
    <3>1. n \in Levels /\ op.chain[i] = Walk(ip)[n]
      BY <2>1 DEF n
    <3>2. Walk(ip)[n] \in Live \cup {NO_TABLE}
      BY <1>1, <3>1, WalkIsLive, SingleTypes
    <3>3. op.chain[i] # NO_TABLE
      BY <2>1, LiveTables, Constants
    <3> QED BY <3>1, <3>2, <3>3
  <2>4. op.chain[i] \in Taken
    BY <2>1, <2>3, LiveTables, Constants DEF Live
  <2> QED BY <1>1, <1>2, <1>6, <2>1, <2>2, <2>3, <2>4, WalkMeetsOnce, SingleTypes
<1>8. ASSUME NEW n \in Levels, k < n, n <= L
      PROVE  Walk(ip)[n] \in Leaving
  <2>1. n - k \in DOMAIN op.chain /\ k + (n - k) = n
    BY <1>1, <1>3, <1>5, <1>8, LevelRange
  <2>2. op.chain[n - k] = Walk(ip)[k + (n - k)]
    BY <1>2, <2>1
  <2> QED BY <2>1, <2>2 DEF Leaving
<1>9. op.cur \notin Leaving /\ Walk(ip)[k - 1] \notin Leaving /\ Leaving \subseteq Taken
  BY <1>7 DEF Leaving
<1> QED BY <1>2, <1>3, <1>4, <1>5, <1>6, <1>8, <1>9 DEF ip, L

\* A link that stays in the table the deletion stands at leads to a rule that
\* is left, and so does the way to the table.
LEMMA LinkMeansRule ==
  ASSUME SingleInv, op.pc = "unref", NEW j \in LinksIn(op.cur)
  PROVE  \E k \in DOMAIN rules : \E n \in Levels :
           n <= LevelOf(k.depth) /\ Walk(k.ip)[n] = op.cur
<1> DEFINE h == tbl[op.cur][j].next_hop
           ip == op.key.ip
           L == LevelOf(op.key.depth)
<1>1. ip \in Address /\ L \in Levels
  BY SingleTypes, AddingTypes
<1>2. PICK c \in Levels :
        /\ op.cur = Walk(ip)[c] /\ op.cur \in Taken \ Leaving
        /\ \A n \in Levels : c < n /\ n <= L => Walk(ip)[n] \in Leaving
  BY UnrefStands
<1>3. h \in Taken \ Leaving /\ Owner(h) = op.cur
  BY <1>2, SingleTypes DEF LinksIn, LinksKept, Live
<1> HIDE DEF h, ip, L
<1>4. PICK k \in Wanted : \E n \in Levels : n <= LevelOf(k.depth) /\ Walk(k.ip)[n] = h
  BY <1>3 DEF SingleInv, InUse
<1>5. PICK n \in Levels : n <= LevelOf(k.depth) /\ Walk(k.ip)[n] = h
  BY <1>4
<1>6. k.ip \in Address /\ LevelOf(k.depth) \in Levels
  BY <1>1, SingleTypes DEF Wanted, ip, L
<1>7. n - 1 \in Levels /\ Walk(k.ip)[n - 1] = op.cur
  BY <1>3, <1>5, <1>6, WalkIsLive, SingleTypes
<1>8. k # op.key
  <2> SUFFICES ASSUME k = op.key PROVE FALSE
    OBVIOUS
  <2>1. n - 1 = c
    BY <1>1, <1>2, <1>7, WalkMeetsOnce, SingleTypes DEF ip, Live
  <2>2. c < n /\ n <= L
    BY <1>5, <2>1, LevelRange DEF L
  <2> QED BY <1>2, <1>3, <1>5, <2>2 DEF ip
<1>9. n - 1 <= LevelOf(k.depth)
  BY <1>5, <1>6, LevelRange
<1> QED BY <1>4, <1>7, <1>8, <1>9 DEF Wanted

LEMMA DeleteUnrefKeepsSingle ==
  ASSUME CountsFit, SingleInv, DeleteUnref
  PROVE  SingleCall' /\ Uncut' /\ InUse' /\ Counted'
<1> DEFINE ip == op.key.ip
           L == LevelOf(op.key.depth)
           cur == op.cur
           count == (tbl8_hdrs[cur].ref_cnt - 1) % REF_MOD
           owner == Owner(cur)
<1>1. /\ op.pc = "unref" /\ rules' = rules /\ tbl' = tbl
      /\ UNCHANGED <<tbl8_pool, tbl8_pool_pos>>
      /\ op \in Call /\ op.todo = {} /\ op.chain \in Seq(Groups)
      /\ ip \in Address /\ L \in Levels /\ tbl8_hdrs \in [Groups -> Header]
  BY SingleTypes, AddingTypes DEF DeleteUnref, SingleInv, SingleCall, Call
<1>2. PICK c \in Levels :
        /\ cur = Walk(ip)[c] /\ c + Len(op.chain) = L
        /\ cur \in Taken \ Leaving /\ c # ADD_FIRST_BYTE /\ c - 1 \in Levels
        /\ owner = Walk(ip)[c - 1] /\ owner \in Live \ Leaving /\ Leaving \subseteq Taken
        /\ \A n \in Levels : c < n /\ n <= L => Walk(ip)[n] \in Leaving
  BY <1>1, UnrefStands
<1>3. /\ tbl8_hdrs' = [tbl8_hdrs EXCEPT ![cur].ref_cnt = count]
      /\ \/ /\ ~LastReference(count)
            /\ op' = [op EXCEPT !.pc = IF op.chain = <<>> THEN "clear" ELSE "unlink"]
         \/ /\ LastReference(count)
            /\ op' = [op EXCEPT !.chain = <<cur>> \o op.chain,
                                !.pc = IF owner = TBL24_IND THEN "unlink" ELSE "unref",
                                !.cur = owner]
  BY DEF DeleteUnref, Owner
<1> HIDE DEF ip, L, cur, owner
<1>4. Taken' = Taken /\ (\A a : WalkIn(tbl', a) = Walk(a))
      /\ Settled = DOMAIN rules /\ Wanted = DOMAIN rules \cup {op.key}
  BY <1>1 DEF Taken, Free, Walk, Settled, Wanted
<1>5. /\ IsFiniteSet(RulesIn(cur)) /\ Cardinality(RulesIn(cur)) \in Nat
      /\ IsFiniteSet(LinksIn(cur)) /\ Cardinality(LinksIn(cur)) \in Nat
      /\ Cardinality(RulesIn(cur)) + Cardinality(LinksIn(cur)) < REF_MOD
  <2>1. cur \in Groups
    BY <1>2, LiveTables
  <2>2. IsFiniteSet(DOMAIN rules) /\ Cardinality(DOMAIN rules) <= MAX_RULES
    BY SingleTypes, Constants DEF IndInv, TypeOK, RulesCounted
  <2>3. RulesIn(cur) \in SUBSET (DOMAIN rules) /\ LinksIn(cur) \in SUBSET Slots(cur)
    BY SingleTypes DEF RulesIn, LinksIn
  <2> QED BY <2>1, <2>2, <2>3, ReferencesFit
<1>6. count = Cardinality(RulesIn(cur)) + Cardinality(LinksIn(cur))
  <2>1. tbl8_hdrs[cur].ref_cnt = Cardinality(RulesIn(cur)) + Cardinality(LinksIn(cur)) + 1
    BY <1>1, <1>2 DEF SingleInv, Counted, Surplus, cur
  <2>2. /\ tbl8_hdrs[cur].ref_cnt - 1 = Cardinality(RulesIn(cur)) + Cardinality(LinksIn(cur))
        /\ Cardinality(RulesIn(cur)) + Cardinality(LinksIn(cur)) \in Nat
    BY <1>5, <2>1
  <2> QED BY <1>5, <2>2, Constants, SmallModulus
<1>7. ASSUME NEW g \in Taken
      PROVE  tbl8_hdrs'[g].ref_cnt = IF g = cur THEN count ELSE tbl8_hdrs[g].ref_cnt
  <2>1. g \in Groups /\ tbl8_hdrs[g] \in Header
    BY <1>1, LiveTables
  <2>2. tbl8_hdrs' = [tbl8_hdrs EXCEPT ![cur] = [tbl8_hdrs[cur] EXCEPT !.ref_cnt = count]]
    BY <1>3
  <2> HIDE DEF count
  <2> QED BY <1>1, <2>1, <2>2 DEF Header
<1> HIDE DEF count
<1>8. CASE /\ ~LastReference(count)
           /\ op' = [op EXCEPT !.pc = IF op.chain = <<>> THEN "clear" ELSE "unlink"]
  <2>1. /\ op'.pc \in {"clear", "unlink"} /\ op'.chain = op.chain /\ op'.todo = op.todo
    BY <1>1, <1>8 DEF Call
  <2>2. Leaving' = Leaving /\ Settled' = DOMAIN rules /\ Wanted' = DOMAIN rules
    BY <1>1, <2>1 DEF Leaving, Settled, Wanted
  <2>3. SingleCall'
    BY <1>1, <2>1 DEF SingleCall
  <2>4. Uncut'
    BY <1>4, <2>2 DEF SingleInv, Uncut, Walk
  \* the table stays for a rule that is left, and so does what is above it
  <2>5. PICK k \in DOMAIN rules : \E n \in Levels :
          n <= LevelOf(k.depth) /\ Walk(k.ip)[n] = cur
    <3>1. CASE RulesIn(cur) # {}
      <4>1. PICK k \in RulesIn(cur) : TRUE
        BY <3>1
      <4>2. k \in DOMAIN rules /\ Walk(k.ip)[LevelOf(k.depth)] = cur
        BY <1>4, <4>1 DEF RulesIn
      <4>3. LevelOf(k.depth) \in Levels /\ LevelOf(k.depth) <= LevelOf(k.depth)
        BY <4>2, SingleTypes, LevelRange
      <4> QED BY <4>2, <4>3
    <3>2. CASE LinksIn(cur) # {}
      BY <1>1, <3>2, LinkMeansRule DEF cur
    <3>3. RulesIn(cur) # {} \/ LinksIn(cur) # {}
      <4> SUFFICES ASSUME RulesIn(cur) = {}, LinksIn(cur) = {} PROVE FALSE
        OBVIOUS
      <4>1. Cardinality(RulesIn(cur)) = 0 /\ Cardinality(LinksIn(cur)) = 0
        BY FS_EmptySet
      <4>2. count = 0
        BY <1>6, <4>1
      <4> QED BY <1>8, <4>2 DEF LastReference
    <3> QED BY <3>1, <3>2, <3>3
  <2>6. PICK n \in Levels : n <= LevelOf(k.depth) /\ Walk(k.ip)[n] = cur
    BY <2>5
  <2>7. k.ip \in Address /\ LevelOf(k.depth) \in Levels
    BY SingleTypes
  <2>8. n = c /\ \A l \in Levels : l <= c => Walk(k.ip)[l] = Walk(ip)[l]
    BY <1>1, <1>2, <2>6, <2>7, SameWayAbove, SingleTypes DEF Live
  <2>9. InUse'
    <3> SUFFICES ASSUME NEW g \in Taken \ Leaving
                 PROVE  \E i \in DOMAIN rules : \E m \in Levels :
                          m <= LevelOf(i.depth) /\ Walk(i.ip)[m] = g
      BY <1>4, <2>2, <1>1 DEF InUse, Walk
    <3>1. PICK i \in Wanted : \E m \in Levels : m <= LevelOf(i.depth) /\ Walk(i.ip)[m] = g
      BY DEF SingleInv, InUse
    <3>2. PICK m \in Levels : m <= LevelOf(i.depth) /\ Walk(i.ip)[m] = g
      BY <3>1
    <3>3. CASE i \in DOMAIN rules
      BY <3>2, <3>3
    <3>4. CASE i = op.key
      <4>1. ~(c < m)
        BY <1>2, <3>2, <3>4 DEF ip, L
      <4>2. m <= c /\ m <= LevelOf(k.depth)
        BY <2>6, <2>7, <2>8, <4>1, LevelRange
      <4>3. Walk(k.ip)[m] = g
        BY <2>8, <3>2, <3>4, <4>2 DEF ip
      <4> QED BY <4>2, <4>3
    <3> QED BY <1>4, <3>1, <3>3, <3>4
  <2>10. Counted'
    <3> SUFFICES ASSUME NEW g \in Taken \ Leaving
                 PROVE  tbl8_hdrs'[g].ref_cnt =
                          Cardinality(RulesIn(g)') + Cardinality(LinksIn(g)') + Surplus(g)'
      BY <1>4, <2>2 DEF Counted
    <3>1. RulesIn(g)' = RulesIn(g) /\ LinksIn(g)' = LinksIn(g) /\ Surplus(g)' = 0
      BY <1>1, <1>4, <2>1, <2>2 DEF RulesIn, LinksIn, Surplus, Walk
    <3>2. g # cur => Surplus(g) = 0
      BY DEF Surplus, cur
    <3>3. tbl8_hdrs[g].ref_cnt = Cardinality(RulesIn(g)) + Cardinality(LinksIn(g)) + Surplus(g)
      BY DEF SingleInv, Counted
    <3>4. CASE g = cur
      BY <1>5, <1>6, <1>7, <3>1, <3>4
    <3>5. CASE g # cur
      BY <1>7, <3>1, <3>2, <3>3, <3>5
    <3> QED BY <3>4, <3>5
  <2> QED BY <2>3, <2>4, <2>9, <2>10
<1>9. CASE /\ LastReference(count)
           /\ op' = [op EXCEPT !.chain = <<cur>> \o op.chain,
                               !.pc = IF owner = TBL24_IND THEN "unlink" ELSE "unref",
                               !.cur = owner]
  <2> DEFINE longer == <<cur>> \o op.chain
  <2>1. /\ op'.pc = (IF owner = TBL24_IND THEN "unlink" ELSE "unref")
        /\ op'.chain = longer /\ op'.todo = op.todo /\ op'.cur = owner /\ op'.key = op.key
    BY <1>1, <1>9 DEF Call
  <2>2. Leaving' = Leaving \cup {cur} /\ Settled' = DOMAIN rules
    <3>1. \A i \in DOMAIN longer :
            \/ i = 1 /\ longer[i] = cur
            \/ i - 1 \in DOMAIN op.chain /\ longer[i] = op.chain[i - 1]
      BY <1>1
    <3>2. \A i \in DOMAIN op.chain : i + 1 \in DOMAIN longer /\ longer[i + 1] = op.chain[i]
      BY <1>1
    <3>3. 1 \in DOMAIN longer /\ longer[1] = cur
      BY <1>1
    <3> HIDE DEF longer
    <3>4. Leaving' = {longer[i] : i \in DOMAIN longer}
      BY <2>1 DEF Leaving
    <3>5. Leaving' = Leaving \cup {cur}
      BY <3>1, <3>2, <3>3, <3>4 DEF Leaving
    <3>6. Settled' = DOMAIN rules
      BY <1>1, <2>1 DEF Settled
    <3> QED BY <3>5, <3>6
  <2>3. Len(longer) = Len(op.chain) + 1
    BY <1>1, <1>2, LiveTables
  <2> HIDE DEF longer
  <2>4. SingleCall'
    <3>1. (c - 1) + Len(longer) = L
      BY <1>1, <1>2, <2>3, LevelRange
    <3>2. WalkIn(tbl', ip)[c - 1] = owner
      BY <1>2, <1>4
    <3> QED BY <1>1, <1>2, <2>1, <3>1, <3>2 DEF SingleCall, Walk, ip, L
  <2>5. RulesIn(cur) = {} /\ LinksIn(cur) = {}
    <3>1. Cardinality(RulesIn(cur)) = 0 /\ Cardinality(LinksIn(cur)) = 0
      BY <1>5, <1>6, <1>9 DEF LastReference
    <3> QED BY <1>5, <3>1, FS_EmptySet
  <2>6. Uncut'
    <3>1. ASSUME NEW k \in DOMAIN rules, NEW n \in Levels, n <= LevelOf(k.depth)
          PROVE  Walk(k.ip)[n] # cur
      BY <1>4, <2>5, <3>1, OnWayIsReferred
    <3> QED BY <1>4, <2>2, <3>1 DEF SingleInv, Uncut, Walk
  <2>7. InUse'
    <3> SUFFICES ASSUME NEW g \in Taken, g \notin Leaving, g # cur
                 PROVE  \E i \in Wanted' : \E m \in Levels :
                          m <= LevelOf(i.depth) /\ Walk(i.ip)[m] = g
      BY <1>4, <2>2 DEF InUse, Walk
    <3>1. PICK i \in Wanted : \E m \in Levels : m <= LevelOf(i.depth) /\ Walk(i.ip)[m] = g
      BY DEF SingleInv, InUse
    <3>2. PICK m \in Levels : m <= LevelOf(i.depth) /\ Walk(i.ip)[m] = g
      BY <3>1
    <3>3. i \in Wanted'
      <4>1. CASE owner # TBL24_IND
        BY <1>1, <1>4, <2>1, <4>1 DEF Wanted
      <4>2. CASE owner = TBL24_IND
        <5>1. c - 1 = ADD_FIRST_BYTE
          <6> DEFINE n == c - 1
          <6> HIDE DEF n
          <6>1. n \in Levels /\ Walk(ip)[n] = TBL24_IND
            BY <1>2, <4>2 DEF n
          <6>2. n = ADD_FIRST_BYTE
            BY <1>1, <6>1, WalkIsLive, SingleTypes
          <6> QED BY <6>2 DEF n
        <5>2. i # op.key
          <6> SUFFICES ASSUME i = op.key PROVE FALSE
            OBVIOUS
          <6>1. Walk(ip)[m] = g /\ m <= L
            BY <3>2 DEF ip, L
          <6>2. m # ADD_FIRST_BYTE
            BY <1>1, <6>1, WalkIsLive, SingleTypes, LiveTables
          <6>3. m = c \/ c < m
            BY <5>1, <6>2, LevelRange
          <6> QED BY <1>2, <6>1, <6>3
        <5> QED BY <1>1, <1>4, <2>1, <4>2, <5>2 DEF Wanted
      <4> QED BY <4>1, <4>2
    <3> QED BY <3>2, <3>3
  <2>8. Counted'
    <3> SUFFICES ASSUME NEW g \in Taken, g \notin Leaving, g # cur
                 PROVE  tbl8_hdrs'[g].ref_cnt =
                          Cardinality(RulesIn(g)') + Cardinality(LinksIn(g)') + Surplus(g)'
      BY <1>4, <2>2 DEF Counted
    <3>1. RulesIn(g)' = RulesIn(g)
      BY <1>1, <1>4, <2>2 DEF RulesIn, Walk
    <3>2. LinksIn(g)' = {j \in LinksIn(g) : tbl[g][j].next_hop # cur}
      BY <1>1, <2>2 DEF LinksIn
    <3>3. tbl8_hdrs'[g].ref_cnt = Cardinality(RulesIn(g)) + Cardinality(LinksIn(g)) + 0
      <4>1. Surplus(g) = 0
        BY DEF Surplus, cur
      <4> QED BY <1>7, <4>1 DEF SingleInv, Counted
    <3>4. \A j \in LinksIn(g) : tbl[g][j].next_hop = cur => owner = g /\ OwnerEntry(cur) = j
      BY SingleTypes DEF LinksIn, LinksKept, Live, owner
    <3>5. /\ IsFiniteSet(LinksIn(g)) /\ Cardinality(LinksIn(g)) \in Nat
          /\ Cardinality(RulesIn(g)) \in Nat
      BY ReferenceSets, LiveTables
    <3>6. CASE g # owner
      <4>1. LinksIn(g)' = LinksIn(g)
        BY <3>2, <3>4, <3>6
      <4>2. Surplus(g)' = 0
        BY <2>1, <3>6 DEF Surplus
      <4> QED BY <3>1, <3>3, <4>1, <4>2
    <3>7. CASE g = owner
      <4> DEFINE j == OwnerEntry(cur)
      <4>1. j \in LinksIn(g) /\ tbl[g][j].next_hop = cur
        <5>1. cur \in LinkedFrom(g, Slots(g))
          BY <1>1, <1>2, <3>7, LinkOnWalk, SingleTypes
        <5>2. PICK i \in Slots(g) : IsLink(tbl[g][i]) /\ tbl[g][i].next_hop = cur
          BY <5>1 DEF LinkedFrom
        <5>3. i \in LinksIn(g)
          BY <1>2, <5>2 DEF LinksIn
        <5> QED BY <3>4, <5>2, <5>3
      <4>2. LinksIn(g)' = LinksIn(g) \ {j}
        BY <3>2, <3>4, <4>1
      <4> HIDE DEF j
      <4>3. Cardinality(LinksIn(g)') = Cardinality(LinksIn(g)) - 1
        BY <3>5, <4>1, <4>2, FS_RemoveElement
      <4>4. owner # TBL24_IND
        BY <3>7, LiveTables
      <4>5. Surplus(g)' = 1
        BY <2>1, <3>7, <4>4 DEF Surplus
      <4> QED BY <3>1, <3>3, <3>5, <4>3, <4>5
    <3> QED BY <3>6, <3>7
  <2> QED BY <2>4, <2>6, <2>7, <2>8
<1> QED BY <1>3, <1>8, <1>9

-----------------------------------------------------------------------------
(* Unlinking the groups *)

\* The entry that a table on a walk was reached through names the table.
LEMMA OwnerEntryNames ==
  ASSUME IndInv, LinksKept, NEW ip \in Address, NEW n \in Levels, Walk(ip)[n] \in Taken
  PROVE  tbl[Owner(Walk(ip)[n])][OwnerEntry(Walk(ip)[n])].next_hop = Walk(ip)[n]
<1> DEFINE g == Walk(ip)[n]
           t == Walk(ip)[n - 1]
<1>1. t \in Live /\ g \in LinkedFrom(t, Slots(t))
  BY LinkOnWalk
<1> HIDE DEF g, t
<1>2. PICK j \in Slots(t) : IsLink(tbl[t][j]) /\ tbl[t][j].next_hop = g
  BY <1>1 DEF LinkedFrom
<1>3. Owner(g) = t /\ OwnerEntry(g) = j
  BY <1>1, <1>2 DEF LinksKept
<1> QED BY <1>2, <1>3 DEF g

\* What unlinking does to the pool.
LEMMA UnlinkEffect ==
  ASSUME LinksInv, DeleteUnlink, NEW g, g = Head(op.chain)
  PROVE  /\ g = op.chain[1] /\ 1 \in DOMAIN op.chain
         /\ g \in Taken /\ Taken' = Taken \ {g} /\ Owner(g) \in Tables
         /\ \A u \in Tables : \A i \in Slots(u) :
              tbl'[u][i] = IF u = Owner(g) /\ i = OwnerEntry(g) THEN op.entry ELSE tbl[u][i]
<1> DEFINE t == Owner(g)
           j == OwnerEntry(g)
<1>1. /\ op.chain \in Seq(Groups) /\ op.chain # <<>> /\ ChainLinked
      /\ tbl8_pool \in [Groups -> Groups] /\ tbl8_pool_pos \in 0..NUMBER_TBL8S
      /\ NUMBER_TBL8S \in Nat
  BY Constants
  DEF DeleteUnlink, LinksInv, IndInv, TypeOK, CallOK, Call, CallLinks
<1>2. g = op.chain[1] /\ 1 \in DOMAIN op.chain
  BY <1>1
<1>3. g \in Taken /\ g \in Groups /\ t \in Tables
  <2>1. g \in Taken /\ g \in Groups
    BY <1>1, <1>2, LiveTables DEF ChainLinked
  <2> QED BY <2>1 DEF LinksInv, IndInv, TypeOK, Owner, Header
<1>4. /\ tbl' = [tbl EXCEPT ![t] = [tbl[t] EXCEPT ![j] = op.entry]]
      /\ tbl8_put(g)
  BY DEF DeleteUnlink, Owner, OwnerEntry
<1>5. \A u \in Tables : \A i \in Slots(u) :
        tbl'[u][i] = IF u = t /\ i = j THEN op.entry ELSE tbl[u][i]
  <2>1. DOMAIN tbl = Tables /\ \A u \in Tables : tbl[u] \in [Slots(u) -> Entry]
    BY DEF LinksInv, IndInv, TypeOK
  <2> HIDE DEF t, j
  <2> QED BY <1>3, <1>4, <2>1
<1>6. Taken' = Taken \ {g}
  <2> DEFINE p == tbl8_pool_pos - 1
  <2>1. tbl8_pool_pos # 0
    BY <1>3, TakenMeansPosition DEF LinksInv
  <2>2. p \in Groups /\ p + 1 = tbl8_pool_pos
    BY <1>1, <2>1 DEF Groups
  <2>3. tbl8_pool_pos' = p /\ tbl8_pool' = [tbl8_pool EXCEPT ![p] = g]
    BY <1>4, <2>1 DEF tbl8_put
  <2>4. \A i \in p..(NUMBER_TBL8S - 1) :
          /\ i \in Groups
          /\ i = p \/ i \in tbl8_pool_pos..(NUMBER_TBL8S - 1)
          /\ tbl8_pool'[i] = IF i = p THEN g ELSE tbl8_pool[i]
    BY <1>1, <2>2, <2>3 DEF Groups
  <2>5. /\ \A i \in tbl8_pool_pos..(NUMBER_TBL8S - 1) : i \in p..(NUMBER_TBL8S - 1) /\ i # p
        /\ p \in p..(NUMBER_TBL8S - 1)
    BY <1>1, <2>2 DEF Groups
  <2> HIDE DEF p
  <2>6. Free' = Free \cup {g}
    BY <2>3, <2>4, <2>5 DEF Free
  <2> QED BY <2>6 DEF Taken
<1> QED BY <1>2, <1>3, <1>5, <1>6

LEMMA DeleteUnlinkKeepsSingle ==
  ASSUME CountsFit, SingleInv, IndInv', DeleteUnlink
  PROVE  SingleCall' /\ Uncut' /\ InUse' /\ Counted' /\ Named'
<1> DEFINE g == Head(op.chain)
           t == Owner(g)
           j == OwnerEntry(g)
           rest == Tail(op.chain)
<1>1. /\ op.pc = "unlink" /\ rules' = rules /\ tbl8_hdrs' = tbl8_hdrs
      /\ op \in Call /\ op.todo = {} /\ op.chain \in Seq(Groups) /\ op.chain # <<>>
      /\ op.entry \in Entry /\ ~op.entry.ext_entry /\ ChainLinked
  BY SingleTypes
  DEF DeleteUnlink, SingleInv, SingleCall, LinksInv, IndInv, TypeOK, CallOK, Call, CallLinks
<1>2. /\ g = op.chain[1] /\ 1 \in DOMAIN op.chain
      /\ g \in Taken /\ Taken' = Taken \ {g} /\ t \in Tables
      /\ \A u \in Tables : \A i \in Slots(u) :
           tbl'[u][i] = IF u = t /\ i = j THEN op.entry ELSE tbl[u][i]
  BY SingleTypes, UnlinkEffect
<1>3. ~IsLink(op.entry)
  BY <1>1, LinkEntry
<1>4. op'.pc \in {"idle", "unlink"} /\ op'.todo = {} /\ op'.chain = rest
  <2>1. CASE rest = <<>>
    <3>1. op' = Idle
      BY <2>1 DEF DeleteUnlink
    <3> HIDE DEF rest
    <3> QED BY <2>1, <3>1 DEF Idle
  <2>2. CASE rest # <<>>
    BY <1>1, <2>2 DEF DeleteUnlink, Call
  <2> QED BY <2>1, <2>2
<1>5. /\ \A i \in DOMAIN rest :
           i + 1 \in DOMAIN op.chain /\ i + 1 # 1 /\ rest[i] = op.chain[i + 1]
      /\ \A i \in DOMAIN op.chain :
           i = 1 \/ (i - 1 \in DOMAIN rest /\ rest[i - 1] = op.chain[i])
  BY <1>1
<1>6. tbl[t][j].next_hop = g
  BY <1>1, <1>2 DEF SingleInv, Named
<1> HIDE DEF g, t, j, rest
<1>7. g \in Leaving /\ Leaving' = Leaving \ {g}
  <2>1. \A i \in DOMAIN op.chain : i # 1 => op.chain[i] # g
    BY <1>1, <1>2 DEF ChainLinked
  <2> QED BY <1>2, <1>4, <1>5, <2>1 DEF Leaving
<1>8. /\ Settled = DOMAIN rules /\ Settled' = DOMAIN rules
      /\ Wanted = DOMAIN rules /\ Wanted' = DOMAIN rules
      /\ \A u : Surplus(u) = 0 /\ Surplus(u)' = 0
  BY <1>1, <1>4 DEF Settled, Wanted, Surplus
\* the ways to the rules do not go through the entry
<1>9. ASSUME NEW k \in DOMAIN rules, NEW n \in Levels, n <= LevelOf(k.depth)
      PROVE  WalkIn(tbl', k.ip)[n] = Walk(k.ip)[n]
  <2>1. k.ip \in Address /\ LevelOf(k.depth) \in Levels
    BY SingleTypes
  <2>2. ASSUME NEW m \in Levels, m < n
        PROVE  tbl'[Walk(k.ip)[m]][get_bitshift(k.ip, m)] = tbl[Walk(k.ip)[m]][get_bitshift(k.ip, m)]
    <3> DEFINE u == Walk(k.ip)[m]
               i == get_bitshift(k.ip, m)
    <3>1. /\ m <= LevelOf(k.depth) /\ m + 1 <= LevelOf(k.depth) /\ m + 1 \in Levels
          /\ m + 1 # ADD_FIRST_BYTE /\ (m + 1) - 1 = m
      BY <1>9, <2>1, <2>2, LevelRange
    <3>2. u # NO_TABLE
      BY <1>8, <3>1 DEF SingleInv, Uncut
    <3>3. u \in Live /\ (u = TBL24_IND <=> m = ADD_FIRST_BYTE) /\ u \in Tables
      BY <2>1, <3>2, WalkIsLive, LiveTables, SingleTypes
    <3>4. i \in Slots(u)
      BY <2>1, <3>3, EntryOnTheWay, SingleTypes
    <3>5. u # t \/ i # j
      <4> SUFFICES ASSUME u = t, i = j PROVE FALSE
        OBVIOUS
      <4>1. Walk(k.ip)[m + 1] = BelowIn(tbl, u, k.ip, m + 1)
        BY <2>1, <3>1, WalkInUnfolds, SingleTypes DEF Walk
      <4>2. Walk(k.ip)[m + 1] \notin Leaving \cup {NO_TABLE}
        BY <1>8, <3>1 DEF SingleInv, Uncut
      <4>3. Walk(k.ip)[m + 1] = g
        BY <1>6, <3>1, <4>1, <4>2 DEF BelowIn
      <4> QED BY <1>7, <4>2, <4>3
    <3> HIDE DEF u, i
    <3>6. tbl'[u][i] = tbl[u][i]
      BY <1>2, <3>3, <3>4, <3>5
    <3> QED BY <3>6 DEF u, i
  <2>3. TablesOK(tbl) /\ TablesOK(tbl')
    BY SingleTypes, TablesShaped DEF IndInv, TypeOK, TablesOK
  <2>4. n <= n
    BY LevelRange
  <2> QED BY <2>1, <2>2, <2>3, <2>4, WalkStays DEF Walk
<1>10. SingleCall'
  BY <1>4 DEF SingleCall
<1>11. Uncut'
  BY <1>7, <1>8, <1>9 DEF SingleInv, Uncut, Walk
<1>12. Taken' \ Leaving' = Taken \ Leaving
  BY <1>2, <1>7
<1>13. InUse'
  BY <1>8, <1>9, <1>12 DEF SingleInv, InUse, Walk
<1>14. Counted'
  <2> SUFFICES ASSUME NEW u \in Taken \ Leaving
               PROVE  tbl8_hdrs[u].ref_cnt =
                        Cardinality(RulesIn(u)') + Cardinality(LinksIn(u)') + 0
    BY <1>1, <1>8, <1>12 DEF Counted
  <2>1. RulesIn(u)' = RulesIn(u)
    <3>1. \A k \in DOMAIN rules : LevelOf(k.depth) \in Levels /\ LevelOf(k.depth) <= LevelOf(k.depth)
      BY SingleTypes, LevelRange
    <3> QED BY <1>8, <1>9, <3>1 DEF RulesIn, Walk
  <2>2. u \in Tables /\ u \in Live
    BY LiveTables DEF Live
  <2>3. ASSUME NEW i \in Slots(u)
        PROVE  /\ IsLink(tbl'[u][i]) /\ tbl'[u][i].next_hop \notin Leaving'
               <=> IsLink(tbl[u][i]) /\ tbl[u][i].next_hop \notin Leaving
    <3>1. CASE u = t /\ i = j
      BY <1>2, <1>3, <1>6, <1>7, <2>2, <3>1
    <3>2. CASE ~(u = t /\ i = j)
      <4>1. tbl'[u][i] = tbl[u][i]
        BY <1>2, <2>2, <3>2
      <4>2. IsLink(tbl[u][i]) => tbl[u][i].next_hop # g
        BY <2>2, <3>2, SingleTypes DEF LinksKept, t, j
      <4> QED BY <1>7, <4>1, <4>2
    <3> QED BY <3>1, <3>2
  <2>4. LinksIn(u)' = LinksIn(u)
    BY <2>3 DEF LinksIn
  <2> QED BY <1>8, <2>1, <2>4 DEF SingleInv, Counted
<1>15. Named'
  <2> SUFFICES ASSUME NEW i \in DOMAIN rest
               PROVE  tbl'[Owner(rest[i])][OwnerEntry(rest[i])].next_hop = rest[i]
    BY <1>1, <1>4 DEF Named, Owner, OwnerEntry
  <2>1. /\ rest[i] \in Taken /\ Owner(rest[i]) # t
        /\ tbl[Owner(rest[i])][OwnerEntry(rest[i])].next_hop = rest[i]
    BY <1>1, <1>2, <1>5 DEF ChainLinked, SingleInv, Named, t
  <2>2. Owner(rest[i]) \in Tables
    BY <2>1, SingleTypes, LiveTables DEF Owner, Header
  <2>3. tbl'[Owner(rest[i])] = tbl[Owner(rest[i])]
    <3>1. DOMAIN tbl = Tables
      BY SingleTypes DEF TablesOK
    <3>2. tbl' = [tbl EXCEPT ![t][j] = op.entry]
      BY DEF DeleteUnlink, Owner, OwnerEntry, t, j, g
    <3> QED BY <2>1, <2>2, <3>1, <3>2
  <2> QED BY <2>1, <2>3
<1> QED BY <1>10, <1>11, <1>13, <1>14, <1>15

-----------------------------------------------------------------------------
(* The invariant of callers that delete rule by rule *)

LEMMA CreateEstablishesSingle == Create => SingleInv
<1> SUFFICES ASSUME Create PROVE SingleInv
  OBVIOUS
<1>1. op.pc = "idle" /\ op.todo = {} /\ DOMAIN rules = {}
  BY DEF Create, Idle, NoRules
<1>2. Taken = {}
  <2>1. tbl8_pool = FullPool /\ tbl8_pool_pos = 0
    BY DEF Create
  <2>2. \A g \in Groups : g \in 0..(NUMBER_TBL8S - 1) /\ FullPool[g] = g
    BY DEF FullPool, Groups
  <2> QED BY <2>1, <2>2 DEF Taken, Free
<1> QED BY <1>1, <1>2, CreateEstablishesAdmission
    DEF SingleInv, SingleCall, Uncut, Settled, InUse, Counted, Named

\* Only giving the last reference back leads to unlinking.
LEMMA UnrefKeepsNamed ==
  ASSUME SingleInv, DeleteUnref
  PROVE  Named'
<1> DEFINE cur == op.cur
           owner == Owner(cur)
<1>1. /\ op.pc = "unref" /\ tbl' = tbl /\ op \in Call /\ op.key.ip \in Address
      /\ op.chain \in Seq(Groups) /\ cur \in Groups /\ tbl8_hdrs \in [Groups -> Header]
  BY SingleTypes, AddingTypes DEF DeleteUnref, IndInv, CallOK, Call
<1>2. \A g \in Groups : /\ tbl8_hdrs'[g].owner_tbl_ind = Owner(g)
                        /\ tbl8_hdrs'[g].owner_entry_ind = OwnerEntry(g)
  BY <1>1 DEF DeleteUnref, Owner, OwnerEntry, Header
<1>3. op'.chain = op.chain \/ op'.chain = <<cur>> \o op.chain
  BY <1>1 DEF DeleteUnref, Call
<1>4. ASSUME NEW n \in Levels, NEW g \in Groups, g = Walk(op.key.ip)[n]
      PROVE  tbl[Owner(g)][OwnerEntry(g)].next_hop = g
  <2>1. g # NO_TABLE /\ g # TBL24_IND
    BY LiveTables, Constants DEF Tables
  <2>2. g \in Taken
    BY <1>1, <1>4, <2>1, WalkIsLive, SingleTypes DEF Live
  <2> QED BY <1>1, <1>4, <2>2, OwnerEntryNames, SingleTypes
<1> HIDE DEF cur
<1>5. PICK k \in Levels :
        /\ cur = Walk(op.key.ip)[k]
        /\ \A i \in DOMAIN op.chain : k + i \in Levels /\ op.chain[i] = Walk(op.key.ip)[k + i]
  BY <1>1, SingleTypes DEF LinksInv, CallLinks, ChainOnWalk, cur
<1>6. \A i \in DOMAIN op'.chain :
        op'.chain[i] \in Groups /\ \E n \in Levels : op'.chain[i] = Walk(op.key.ip)[n]
  <2>1. \A i \in DOMAIN op.chain :
          op.chain[i] \in Groups /\ \E n \in Levels : op.chain[i] = Walk(op.key.ip)[n]
    BY <1>1, <1>5
  <2>2. CASE op'.chain = op.chain
    BY <2>1, <2>2
  <2>3. CASE op'.chain = <<cur>> \o op.chain
    <3>1. \A i \in DOMAIN op'.chain :
            \/ op'.chain[i] = cur
            \/ i - 1 \in DOMAIN op.chain /\ op'.chain[i] = op.chain[i - 1]
      BY <1>1, <2>3
    <3> QED BY <1>1, <1>5, <2>1, <3>1
  <2> QED BY <1>3, <2>2, <2>3
<1>7. ASSUME NEW i \in DOMAIN op'.chain
      PROVE  tbl'[Owner(op'.chain[i])][OwnerEntry(op'.chain[i])].next_hop = op'.chain[i]
  BY <1>1, <1>4, <1>6
<1> QED BY <1>2, <1>6, <1>7 DEF Named, Owner, OwnerEntry

\* Every call and every step of a call keeps it.
LEMMA StepKeepsSingle ==
  ASSUME GroupsFit, CountsFit
  PROVE  SingleInv /\ [Next]_vars => SingleInv'
<1> SUFFICES ASSUME SingleInv, [Next]_vars
             PROVE  SingleCall' /\ Uncut' /\ InUse' /\ Counted' /\ Named' /\ AdmitInv'
  BY DEF SingleInv
<1> DEFINE Rest == SingleCall' /\ Uncut' /\ InUse' /\ Counted'
           Goal == Rest /\ Named'
<1>1. AdmitInv' /\ IndInv'
  <2>1. [AnyNext]_vars
    BY DEF AnyNext
  <2> QED BY <2>1, StepKeepsAdmission DEF SingleInv, AdmitInv, LinksInv
<1>2. op \in Call
  BY SingleTypes
<1>3. ASSUME op'.pc # "unlink" PROVE Named'
  BY <1>3 DEF Named
<1>4. ASSUME UNCHANGED <<rules, tables, op>> PROVE Goal
  <2>1. /\ Taken' = Taken /\ Leaving' = Leaving /\ tbl8_hdrs' = tbl8_hdrs
        /\ \A ip : WalkIn(tbl', ip) = Walk(ip)
        /\ \A g : LinksIn(g)' = LinksIn(g)
    BY <1>4, TablesSame
  <2>2. Settled' = Settled /\ Wanted' = Wanted
    BY <1>4 DEF Settled, Wanted
  <2>3. \A g : RulesIn(g)' = RulesIn(g) /\ Surplus(g)' = Surplus(g)
    BY <1>4, <2>1, <2>2 DEF RulesIn, Surplus, Walk
  <2>4. SingleCall' /\ Named'
    BY <1>4 DEF SingleInv, SingleCall, Named, Walk, Owner, OwnerEntry, tables
  <2>5. Uncut' /\ InUse'
    BY <2>1, <2>2 DEF SingleInv, Uncut, InUse, Walk
  <2>6. Counted'
    BY <2>1, <2>3 DEF SingleInv, Counted
  <2> QED BY <2>4, <2>5, <2>6
<1> SUFFICES Goal
  BY <1>1
<1>5. CASE Update
  <2>1. ASSUME NEW r \in Routes, RejectDepth(r) \/ AddThrows(r) \/ AddNoSpace(r) PROVE Goal
    <3>1. UNCHANGED <<rules, tables, op>>
      BY <2>1 DEF RejectDepth, AddThrows, AddNoSpace, Reject
    <3> QED BY <1>4, <3>1
  <2>2. ASSUME NEW r \in Routes, NEW hop \in NextHops, Add(r, hop) PROVE Goal
    <3>1. op'.pc = "add"
      BY <2>2 DEF Add, StartAdd, Idle
    <3> QED BY <1>3, <2>2, <3>1, AddKeepsSingle
  <2>3. CASE DeleteAll
    <3>1. op'.pc = "idle"
      BY <2>3 DEF DeleteAll
    <3> QED BY <1>3, <2>3, <3>1, DeleteAllKeepsSingle
  <2> HIDE DEF Goal
  <2> QED BY <1>5, <2>1, <2>2, <2>3 DEF Update
<1>6. CASE Remove
  <2>1. ASSUME NEW r \in Routes, DeleteAbsent(r) PROVE Goal
    <3>1. UNCHANGED <<rules, tables, op>>
      BY <2>1 DEF DeleteAbsent, Reject
    <3> QED BY <1>4, <3>1
  <2>2. ASSUME NEW r \in Routes, Delete(r) PROVE Goal
    <3>1. op'.pc # "unlink"
      BY <2>2 DEF Delete, Idle
    <3> QED BY <1>3, <2>2, <3>1, DeleteKeepsSingle
  <2> HIDE DEF Goal
  <2> QED BY <1>6, <2>1, <2>2 DEF Remove
<1>7. CASE AddStep
  <2>1. CASE AddStepNewTable
    <3>1. op'.pc # "unlink"
      BY <1>2, <2>1 DEF AddStepNewTable, Descend, Call
    <3> QED BY <1>1, <1>3, <2>1, <3>1, NewTableKeepsSingle
  <2>2. CASE AddStepDescend
    <3>1. op'.pc # "unlink"
      BY <1>2, <2>2 DEF AddStepDescend, Descend, Call
    <3> QED BY <1>3, <2>2, <3>1, AddStepDescendKeepsSingle
  <2>3. CASE AddStepLast
    <3>1. op' = Idle
      BY <2>3 DEF AddStepLast, SingleInv, SingleCall
    <3>2. op'.pc # "unlink"
      BY <3>1 DEF Idle
    <3> QED BY <1>1, <1>3, <2>3, <3>2, AddStepLastKeepsSingle
  <2> HIDE DEF Goal
  <2> QED BY <1>7, <2>1, <2>2, <2>3 DEF AddStep
<1>8. CASE DeleteStep
  <2>1. CASE DeleteUnref
    BY <2>1, DeleteUnrefKeepsSingle, UnrefKeepsNamed
  <2>2. CASE DeleteUnlink
    BY <1>1, <2>2, DeleteUnlinkKeepsSingle
  <2>3. CASE DeleteClear
    <3>1. op'.pc # "unlink"
      BY <2>3 DEF DeleteClear, Idle
    <3> QED BY <1>1, <1>3, <2>3, <3>1, DeleteClearKeepsSingle
  <2> HIDE DEF Goal
  <2> QED BY <1>8, <2>1, <2>2, <2>3 DEF DeleteStep
<1>9. CASE Lookups \/ UNCHANGED vars
  <2>1. UNCHANGED <<rules, tables, op>>
    BY <1>9 DEF Lookups, Lookup, vars, tables
  <2> QED BY <1>4, <2>1
<1> HIDE DEF Goal
<1> QED BY <1>5, <1>6, <1>7, <1>8, <1>9 DEF Next

-----------------------------------------------------------------------------
(* What the two invariants say of the properties *)

\* Groups that a way leads to, or a running deletion is to unlink, are linked.
LEMMA PoolFromWays ==
  ASSUME IndInv, PoolOnce, LinksKept,
         \A g \in Taken : \E ip \in Address : \E n \in Levels : Walk(ip)[n] = g
  PROVE  /\ Cardinality(Free) = NUMBER_TBL8S - tbl8_pool_pos
         /\ Free = Groups \ Reachable
<1>1. Cardinality(Free) = NUMBER_TBL8S - tbl8_pool_pos /\ Free \subseteq Groups
  BY TakenCounted
<1>2. Reachable \subseteq Taken
  <2>1. LinkedFrom(TBL24_IND, Slots(TBL24_IND)) \in SUBSET Taken
    BY DEF LinksKept, LinkedFrom, Live
  <2> QED BY <2>1, SubtreeIsTaken DEF Reachable
<1>3. Taken \subseteq Reachable
  BY WalkIsReachable
<1> QED BY <1>1, <1>2, <1>3 DEF Taken

\* Every group in use is on the way to some address, whether the callers
\* delete only in bulk or rule by rule.
LEMMA BulkWays ==
  ASSUME BulkInv, NEW g \in Taken
  PROVE  \E ip \in Address : \E n \in Levels : Walk(ip)[n] = g
<1>1. IndInv /\ Needed
  BY DEF BulkInv, AdmitInv, LinksInv
<1>2. PICK k \in Inserted : \E n \in Levels :
        n <= LevelOf(k.depth) /\ Walk(k.ip)[n] = g
  BY <1>1 DEF Needed
<1>3. k.ip \in Address
  BY <1>1, RuleTypes
<1> QED BY <1>2, <1>3

LEMMA SingleWays ==
  ASSUME SingleInv, op.pc # "unlink", NEW g \in Taken
  PROVE  \E ip \in Address : \E n \in Levels : Walk(ip)[n] = g
<1>1. /\ IndInv /\ LinksInv
      /\ \A k \in DOMAIN rules : k.ip \in Address /\ LevelOf(k.depth) \in Levels
  BY SingleTypes
<1>2. op.key.ip \in Address
  BY <1>1, AddingTypes
<1>3. CASE g \in Leaving
  <2>1. PICK i \in DOMAIN op.chain : g = op.chain[i]
    BY <1>3 DEF Leaving
  <2>2. op.pc = "unref"
    BY <1>1, <2>1 DEF LinksInv, CallLinks
  <2>3. PICK k \in Levels : \A m \in DOMAIN op.chain :
          k + m \in Levels /\ op.chain[m] = Walk(op.key.ip)[k + m]
    BY <1>1, <2>2 DEF LinksInv, CallLinks, ChainOnWalk
  <2> QED BY <1>2, <2>1, <2>3
<1>4. CASE g \notin Leaving
  <2>1. PICK k \in Wanted : \E n \in Levels :
          n <= LevelOf(k.depth) /\ Walk(k.ip)[n] = g
    BY <1>4 DEF SingleInv, InUse
  <2>2. k.ip \in Address
    BY <1>1, <1>2, <2>1 DEF Wanted
  <2> QED BY <2>1, <2>2
<1> QED BY <1>3, <1>4

\* What callers that delete only in bulk rely on.
LEMMA BulkConsequences ==
  ASSUME BulkInv
  PROVE  RuleTablesLinked /\ PoolIsWhatIsUnlinked /\ RebuildAlwaysFits
<1>1. IndInv /\ PoolOnce /\ LinksKept /\ LinksInv /\ Needed /\ NodesFit
  BY DEF BulkInv, AdmitInv, LinksInv
<1>2. RuleTablesLinked
  <2> SUFFICES ASSUME Quiet, NEW k \in DOMAIN rules
               PROVE  Walk(k.ip)[LevelOf(k.depth)] # NO_TABLE
    BY DEF RuleTablesLinked
  <2>1. op.pc = "idle" /\ k \in Inserted
    BY <1>1, IdleIsAllInserted DEF Quiet
  <2> QED BY <2>1 DEF BulkInv, Placed
<1>3. PoolIsWhatIsUnlinked
  BY <1>1, BulkWays, PoolFromWays DEF PoolIsWhatIsUnlinked
<1>4. ASSUME NEW key \in op.todo
      PROVE  tbl8_available >= simulate_add(key)
  <2>1. key \in DOMAIN rules
    BY <1>1, RuleTypes
  <2> QED BY <1>1, <2>1, RulesLeftFit
<1> QED BY <1>2, <1>3, <1>4 DEF RebuildAlwaysFits

\* What callers that delete rule by rule rely on.
LEMMA SingleConsequences ==
  ASSUME CountsFit, SingleInv
  PROVE  RefCountsExact /\ RuleTablesLinked /\ PoolIsWhatIsUnlinked /\ RebuildAlwaysFits
<1>1. /\ IndInv /\ PoolOnce /\ LinksKept /\ LinksInv /\ op.pc # "rebuild"
      /\ \A k \in DOMAIN rules : k.ip \in Address /\ LevelOf(k.depth) \in Levels
  BY SingleTypes DEF SingleInv, SingleCall
<1>2. Quiet => Leaving = {} /\ Settled = DOMAIN rules /\ Wanted = DOMAIN rules
  BY <1>1 DEF Quiet, Leaving, Settled, Wanted, LinksInv, CallLinks
<1>3. RefCountsExact
  <2> SUFFICES ASSUME Quiet, NEW g \in Reachable
               PROVE  LET rules_in == {k \in DOMAIN rules : Walk(k.ip)[LevelOf(k.depth)] = g}
                          links_in == {j \in Slots(g) : IsLink(tbl[g][j])}
                      IN  /\ tbl8_hdrs[g].ref_cnt = Cardinality(rules_in) + Cardinality(links_in)
                          /\ tbl8_hdrs[g].ref_cnt # 0
    BY DEF RefCountsExact
  <2> DEFINE rules_in == {k \in DOMAIN rules : Walk(k.ip)[LevelOf(k.depth)] = g}
             links_in == {j \in Slots(g) : IsLink(tbl[g][j])}
  <2>1. g \in Taken \ Leaving /\ g \in Groups
    <3>1. LinkedFrom(TBL24_IND, Slots(TBL24_IND)) \in SUBSET Taken
      BY <1>1 DEF LinksKept, LinkedFrom, Live
    <3>2. g \in Taken
      BY <1>1, <3>1, SubtreeIsTaken DEF Reachable
    <3> QED BY <1>2, <3>2, LiveTables
  <2>2. RulesIn(g) = rules_in /\ LinksIn(g) = links_in /\ Surplus(g) = 0
    BY <1>2 DEF RulesIn, LinksIn, Surplus, Quiet
  <2>3. /\ IsFiniteSet(rules_in) /\ Cardinality(rules_in) \in Nat
        /\ IsFiniteSet(links_in) /\ Cardinality(links_in) \in Nat
    BY <2>1, <2>2, ReferenceSets
  <2>4. tbl8_hdrs[g].ref_cnt = Cardinality(rules_in) + Cardinality(links_in) + 0
    BY <2>1, <2>2 DEF SingleInv, Counted
  <2>5. rules_in # {} \/ links_in # {}
    <3>1. PICK k \in DOMAIN rules : \E n \in Levels :
            n <= LevelOf(k.depth) /\ Walk(k.ip)[n] = g
      BY <1>2, <2>1 DEF SingleInv, InUse
    <3>2. k \in RulesIn(g) \/ LinksIn(g) # {}
      BY <1>2, <3>1, OnWayIsReferred
    <3> QED BY <2>2, <3>2
  <2> HIDE DEF rules_in, links_in
  <2>6. Cardinality(rules_in) # 0 \/ Cardinality(links_in) # 0
    BY <2>3, <2>5, FS_EmptySet
  <2>7. /\ tbl8_hdrs[g].ref_cnt = Cardinality(rules_in) + Cardinality(links_in)
        /\ tbl8_hdrs[g].ref_cnt # 0
    BY <2>3, <2>4, <2>6
  <2> QED BY <2>7 DEF rules_in, links_in
<1>4. RuleTablesLinked
  <2> SUFFICES ASSUME Quiet, NEW k \in DOMAIN rules
               PROVE  Walk(k.ip)[LevelOf(k.depth)] # NO_TABLE
    BY DEF RuleTablesLinked
  <2>1. LevelOf(k.depth) \in Levels /\ LevelOf(k.depth) <= LevelOf(k.depth)
    BY <1>1, LevelRange
  <2> QED BY <1>2, <2>1 DEF SingleInv, Uncut
<1>5. ASSUME op.pc # "unlink"
      PROVE  /\ Cardinality(Free) = NUMBER_TBL8S - tbl8_pool_pos
             /\ Free = Groups \ Reachable
  BY <1>1, <1>5, SingleWays, PoolFromWays
<1>6. RebuildAlwaysFits
  BY <1>1 DEF RebuildAlwaysFits
<1> QED BY <1>3, <1>4, <1>5, <1>6 DEF PoolIsWhatIsUnlinked

-----------------------------------------------------------------------------
(* The theorems about callers that agree on one way to delete rules *)

EitherInv ==
  /\ deletion \in {"single", "bulk"}
  /\ deletion = "single" => SingleInv
  /\ deletion = "bulk" => BulkInv

LEMMA EitherInvIsKept ==
  ASSUME GroupsFit, CountsFit
  PROVE  /\ Create /\ deletion \in {"single", "bulk"} => EitherInv
         /\ EitherInv /\ [EitherNext]_<<vars, deletion>> => EitherInv'
<1>1. Create /\ deletion \in {"single", "bulk"} => EitherInv
  BY CreateEstablishesSingle, CreateEstablishesBulk DEF EitherInv
<1>2. ASSUME EitherInv, [EitherNext]_<<vars, deletion>> PROVE EitherInv'
  <2>1. deletion' = deletion
    BY <1>2 DEF EitherNext
  <2>2. CASE deletion = "single"
    <3>1. SingleInv /\ [Next]_vars
      BY <1>2, <2>2 DEF EitherInv, EitherNext
    <3>2. SingleInv'
      BY <3>1, StepKeepsSingle
    <3> QED BY <2>1, <2>2, <3>2 DEF EitherInv
  <2>3. CASE deletion = "bulk"
    <3>1. BulkInv /\ [BulkNext]_vars
      BY <1>2, <2>3 DEF EitherInv, EitherNext
    <3>2. BulkInv'
      BY <3>1, StepKeepsBulk
    <3> QED BY <2>1, <2>3, <3>2 DEF EitherInv
  <2> QED BY <1>2, <2>2, <2>3 DEF EitherInv
<1> QED BY <1>1, <1>2

\* Links lead from tbl24 to the table of every rule, so that the assertions of
\* a deletion that looks for a rule's range hold (rule_find_range).
THEOREM RuleTablesStayLinked ==
  ASSUME GroupsFit, CountsFit
  PROVE  EitherSpec => []RuleTablesLinked
<1>1. EitherInv => RuleTablesLinked
  BY BulkConsequences, SingleConsequences DEF EitherInv
<1> QED BY <1>1, EitherInvIsKept, PTL DEF EitherSpec

\* A group is in the pool exactly if no link leads to it, and the pool holds
\* each such group once: nothing is leaked and nothing handed out twice.
THEOREM PoolStaysExact ==
  ASSUME GroupsFit, CountsFit
  PROVE  EitherSpec => []PoolIsWhatIsUnlinked
<1>1. EitherInv => PoolIsWhatIsUnlinked
  BY BulkConsequences, SingleConsequences DEF EitherInv
<1> QED BY <1>1, EitherInvIsKept, PTL DEF EitherSpec

\* rebuild_lpm finds room for every rule that is left, in whatever order it
\* inserts them: it never throws with the tables half built.
THEOREM RebuildsFit ==
  ASSUME GroupsFit, CountsFit
  PROVE  EitherSpec => []RebuildAlwaysFits
<1>1. EitherInv => RebuildAlwaysFits
  BY BulkConsequences, SingleConsequences DEF EitherInv
<1> QED BY <1>1, EitherInvIsKept, PTL DEF EitherSpec

\* Between calls a group's ref_cnt counts the rules that end in it and the
\* groups linked from it, and is not zero: the last reference goes exactly
\* when the group is no longer needed (add_step, remove_tbl).
THEOREM CountsStayExact ==
  ASSUME GroupsFit, CountsFit
  PROVE  EitherSpec => []RefCountsKept
<1>1. EitherInv => RefCountsKept
  BY SingleConsequences DEF EitherInv, RefCountsKept
<1> QED BY <1>1, EitherInvIsKept, PTL DEF EitherSpec

-----------------------------------------------------------------------------
(* The links of every table, those of the groups in the pool included *)

\* LinksKept of all tables: a group goes back with no link but those to the
\* groups that remove_tbl unlinks next.
LinksOwned ==
  \A t \in Tables : \A j \in Slots(t) :
    IsLink(tbl[t][j]) =>
      /\ tbl[t][j].next_hop \in Taken
      /\ Owner(tbl[t][j].next_hop) = t
      /\ OwnerEntry(tbl[t][j].next_hop) = j

LEMMA EmptyTablesOwnNothing ==
  ASSUME NEW T, T = ZeroTables
  PROVE  \A t \in Tables : \A j \in Slots(t) : ~IsLink(T[t][j])
BY DEF ZeroTables, Invalid, IsLink

\* A step that makes no link, and leaves the groups that are linked in use
\* and with their owners.
LEMMA OwnedLinksStay ==
  ASSUME LinksOwned,
         \A g \in Groups : Owner(g)' = Owner(g) /\ OwnerEntry(g)' = OwnerEntry(g),
         \A t \in Tables : \A j \in Slots(t) :
           IsLink(tbl'[t][j]) =>
             tbl'[t][j] = tbl[t][j] /\ tbl[t][j].next_hop \in Taken'
  PROVE  LinksOwned'
<1> SUFFICES ASSUME NEW t \in Tables, NEW j \in Slots(t), IsLink(tbl'[t][j])
             PROVE  \E h \in Taken' : /\ tbl'[t][j].next_hop = h
                                      /\ tbl8_hdrs'[h].owner_tbl_ind = t
                                      /\ tbl8_hdrs'[h].owner_entry_ind = j
  BY DEF LinksOwned, Owner, OwnerEntry
<1>1. tbl'[t][j] = tbl[t][j] /\ tbl[t][j].next_hop \in Taken'
  OBVIOUS
<1>2. PICK h \in Taken : h = tbl[t][j].next_hop /\ Owner(h) = t /\ OwnerEntry(h) = j
  BY <1>1 DEF LinksOwned
<1>3. h \in Groups
  BY LiveTables
<1> QED BY <1>1, <1>2, <1>3 DEF Owner, OwnerEntry

LEMMA NewTableOwnsLinks ==
  ASSUME GroupsFit, LinksInv, LinksOwned, AddStepNewTable
  PROVE  LinksOwned'
<1> DEFINE g == tbl8_get
           c == op.cur
           s == AddSlot
           header == init_tbl8_header(c, s)
           filled == [tbl8_hdrs EXCEPT ![g] = header]
<1>1. /\ c \in Tables /\ c # g /\ s \in Slots(c) /\ g \in Groups /\ g \notin Taken
      /\ Taken' = Taken \cup {g} /\ Link(g).next_hop = g
      /\ \A u \in Tables \ {g, c} : tbl'[u] = tbl[u]
      /\ \A i \in Slots(c) : tbl'[c][i] = IF i = s THEN Link(g) ELSE tbl[c][i]
      /\ \A i \in Slots(g) : ~IsLink(tbl'[g][i])
  BY NewTableEffect DEF Live
<1>2. tbl8_hdrs' = Referenced(filled, c) /\ tbl8_hdrs \in [Groups -> Header]
  BY DEF AddStepNewTable, LinksInv, IndInv, TypeOK
<1>3. header \in Header /\ header.owner_tbl_ind = c /\ header.owner_entry_ind = s
  BY <1>1, Constants DEF init_tbl8_header, Header, Slots
<1> HIDE DEF g, c, s, header
<1>4. /\ filled \in [Groups -> Header] /\ filled[g] = header
      /\ \A h \in Groups \ {g} : filled[h] = tbl8_hdrs[h]
  BY <1>1, <1>2, <1>3
<1> HIDE DEF filled
<1>5. \A h \in Groups : /\ Owner(h)' = filled[h].owner_tbl_ind
                        /\ OwnerEntry(h)' = filled[h].owner_entry_ind
  BY <1>1, <1>2, <1>4, CountingKeepsOwners DEF Owner, OwnerEntry
<1>6. Taken \subseteq Groups
  BY LiveTables
<1>7. ASSUME NEW t \in Tables, NEW j \in Slots(t), IsLink(tbl'[t][j])
      PROVE  \E h \in Taken' : /\ tbl'[t][j].next_hop = h
                               /\ Owner(h)' = t /\ OwnerEntry(h)' = j
  <2>1. CASE t = c /\ j = s
    <3>1. tbl'[t][j].next_hop = g /\ g \in Taken'
      BY <1>1, <2>1
    <3> QED BY <1>1, <1>3, <1>4, <1>5, <2>1, <3>1
  <2>2. CASE ~(t = c /\ j = s)
    <3>1. tbl'[t][j] = tbl[t][j]
      BY <1>1, <1>7, <2>2
    <3>2. PICK h \in Taken : h = tbl[t][j].next_hop /\ Owner(h) = t /\ OwnerEntry(h) = j
      BY <1>7, <3>1 DEF LinksOwned
    <3>3. h \in Groups \ {g} /\ h \in Taken'
      BY <1>1, <1>6
    <3> QED BY <1>4, <1>5, <3>1, <3>2, <3>3 DEF Owner, OwnerEntry
  <2> QED BY <2>1, <2>2
<1> QED BY <1>7 DEF LinksOwned, Owner, OwnerEntry

LEMMA UnlinkOwnsLinks ==
  ASSUME LinksInv, LinksOwned, DeleteUnlink
  PROVE  LinksOwned'
<1> DEFINE g == Head(op.chain)
<1>1. /\ g \in Taken /\ Taken' = Taken \ {g} /\ Owner(g) \in Tables
      /\ \A u \in Tables : \A i \in Slots(u) :
           tbl'[u][i] = IF u = Owner(g) /\ i = OwnerEntry(g) THEN op.entry ELSE tbl[u][i]
  BY UnlinkEffect
<1>2. ~op.entry.ext_entry /\ UNCHANGED tbl8_hdrs
  BY DEF LinksInv, CallLinks, DeleteUnlink
<1> HIDE DEF g
<1>3. ASSUME NEW t \in Tables, NEW j \in Slots(t), IsLink(tbl'[t][j])
      PROVE  tbl'[t][j] = tbl[t][j] /\ tbl[t][j].next_hop \in Taken'
  <2>1. ~(t = Owner(g) /\ j = OwnerEntry(g)) /\ tbl'[t][j] = tbl[t][j]
    BY <1>1, <1>2, <1>3 DEF IsLink
  <2> QED BY <1>1, <1>3, <2>1 DEF LinksOwned
<1> QED BY <1>2, <1>3, OwnedLinksStay DEF Owner, OwnerEntry

\* Every step keeps them.
LEMMA StepOwnsLinks ==
  ASSUME GroupsFit, LinksInv, LinksOwned, [AnyNext]_vars
  PROVE  LinksOwned'
<1>1. IndInv /\ tbl8_hdrs \in [Groups -> Header] /\ op \in Call
  BY DEF LinksInv, IndInv, TypeOK
<1>2. ASSUME UNCHANGED <<tbl, tbl8_pool, tbl8_pool_pos>>,
             \A g \in Groups : Owner(g)' = Owner(g) /\ OwnerEntry(g)' = OwnerEntry(g)
      PROVE  LinksOwned'
  <2>1. Taken' = Taken
    BY <1>2 DEF Taken, Free
  <2> QED BY <1>2, <2>1, OwnedLinksStay DEF LinksOwned
<1>3. ASSUME UNCHANGED tables PROVE LinksOwned'
  BY <1>2, <1>3 DEF tables, Owner, OwnerEntry
<1>4. ASSUME tbl' = ZeroTables PROVE LinksOwned'
  BY <1>4, EmptyTablesOwnNothing DEF LinksOwned
<1>5. ASSUME NEW t, NEW cells, NEW hit, NEW depth, NEW e \in Entry, ~e.ext_entry,
             tbl' = WriteRule(t, cells, hit, depth, e),
             UNCHANGED <<tbl8_pool, tbl8_pool_pos>>,
             \A g \in Groups : Owner(g)' = Owner(g) /\ OwnerEntry(g)' = OwnerEntry(g)
      PROVE  LinksOwned'
  <2>1. \A u \in Tables : \A j \in Slots(u) :
          IsLink(tbl'[u][j]) => tbl'[u][j] = tbl[u][j]
    BY <1>1, <1>5, WriteRuleKeepsLinks
  <2>2. Taken' = Taken
    BY <1>5 DEF Taken, Free
  <2>3. \A u \in Tables : \A j \in Slots(u) :
          IsLink(tbl[u][j]) => tbl[u][j].next_hop \in Taken
    BY DEF LinksOwned
  <2> QED BY <1>5, <2>1, <2>2, <2>3, OwnedLinksStay
<1>6. op.entry \in Entry /\ ~op.entry.ext_entry /\ op.cur \in Tables
  BY <1>1 DEF LinksInv, CallLinks, Call
<1>7. CASE AddStepLast
  <2>1. \A g \in Groups : Owner(g)' = Owner(g) /\ OwnerEntry(g)' = OwnerEntry(g)
    BY <1>1, <1>6, <1>7, CountingKeepsOwners DEF AddStepLast, RuleCounted, Owner, OwnerEntry
  <2>2. UNCHANGED <<tbl8_pool, tbl8_pool_pos>>
    BY <1>7 DEF AddStepLast
  <2> DEFINE cells == RuleRange(op.key, op.level)
             hit == {j \in cells : Yields(tbl[op.cur][j], op.key.depth)}
  <2>3. tbl' = WriteRule(op.cur, cells, hit, op.key.depth, op.entry)
    BY <1>7 DEF AddStepLast
  <2> HIDE DEF cells, hit
  <2> QED BY <1>5, <1>6, <2>1, <2>2, <2>3
<1>8. CASE DeleteClear
  <2>1. UNCHANGED <<tbl8_pool, tbl8_pool_pos, tbl8_hdrs>>
    BY <1>8 DEF DeleteClear
  <2> DEFINE cells == RuleRange(op.key, op.level)
             hit == {j \in cells : BelongsTo(tbl[op.cur][j], op.key.depth)}
  <2>2. tbl' = WriteRule(op.cur, cells, hit, op.key.depth, op.entry)
    BY <1>8 DEF DeleteClear
  <2> HIDE DEF cells, hit
  <2> QED BY <1>5, <1>6, <2>1, <2>2 DEF Owner, OwnerEntry
<1>9. CASE DeleteUnref
  <2>1. UNCHANGED <<tbl, tbl8_pool, tbl8_pool_pos>>
    BY <1>9 DEF DeleteUnref
  <2> DEFINE count == (tbl8_hdrs[op.cur].ref_cnt - 1) % REF_MOD
  <2>2. tbl8_hdrs' = [tbl8_hdrs EXCEPT ![op.cur].ref_cnt = count]
    BY <1>9 DEF DeleteUnref
  <2> HIDE DEF count
  <2>3. \A g \in Groups : tbl8_hdrs[g] \in Header
    BY <1>1
  <2>4. \A g \in Groups : Owner(g)' = Owner(g) /\ OwnerEntry(g)' = OwnerEntry(g)
    BY <1>1, <2>2, <2>3 DEF Owner, OwnerEntry, Header
  <2> QED BY <1>2, <2>1, <2>4
<1>10. CASE Update \/ Remove \/ Lookups \/ Bulk \/ UNCHANGED vars
  <2>1. UNCHANGED tables \/ tbl' = ZeroTables
    BY <1>10 DEF Update, RejectDepth, AddThrows, AddNoSpace, Reject, Add, DeleteAll,
       ResetTables, Remove, DeleteAbsent, Delete, Lookups, Lookup, Bulk, DeleteBulk,
       Rebuild, vars, tables
  <2> QED BY <1>3, <1>4, <2>1
<1>11. CASE AddStepDescend
  BY <1>3, <1>11 DEF AddStepDescend
<1> QED BY <1>7, <1>8, <1>9, <1>10, <1>11, NewTableOwnsLinks, UnlinkOwnsLinks
        DEF AnyNext, Next, AddStep, DeleteStep

\* The callers that agree on one way to delete keep the links of every table,
\* and leave no group in use that none of them leads to.
LEMMA EitherOwnsLinks ==
  ASSUME GroupsFit
  PROVE  /\ Create => LinksOwned
         /\ EitherInv /\ LinksOwned /\ [EitherNext]_<<vars, deletion>> => LinksOwned'
<1>1. Create => LinksOwned
  BY EmptyTablesOwnNothing DEF Create, LinksOwned
<1>2. ASSUME EitherInv, LinksOwned, [EitherNext]_<<vars, deletion>> PROVE LinksOwned'
  <2>1. LinksInv
    BY <1>2 DEF EitherInv, SingleInv, BulkInv, AdmitInv
  <2>2. [AnyNext]_vars
    BY <1>2 DEF EitherNext, AnyNext, Next, BulkNext
  <2> QED BY <1>2, <2>1, <2>2, StepOwnsLinks
<1> QED BY <1>1, <1>2

LEMMA TakenIsLinked ==
  ASSUME EitherInv, op.pc # "unlink", NEW g \in Taken
  PROVE  \E t \in Tables : \E j \in Slots(t) : IsLink(tbl[t][j]) /\ tbl[t][j].next_hop = g
<1>1. IndInv /\ LinksKept
  BY DEF EitherInv, SingleInv, BulkInv, AdmitInv, LinksInv
<1>2. PICK ip \in Address : \E n \in Levels : Walk(ip)[n] = g
  BY BulkWays, SingleWays DEF EitherInv
<1>3. PICK n \in Levels : Walk(ip)[n] = g
  BY <1>2
<1>4. g \in LinkedFrom(Walk(ip)[n - 1], Slots(Walk(ip)[n - 1])) /\ Walk(ip)[n - 1] \in Tables
  BY <1>1, <1>3, LinkOnWalk, LiveTables
<1> QED BY <1>4 DEF LinkedFrom

-----------------------------------------------------------------------------
(* Indexes on a way and leading bits *)

\* A quotient and a remainder say what they are of.
LEMMA QuotientsCompared ==
  ASSUME NEW M \in Nat, NEW x \in Int, NEW y \in Int, NEW r \in 0..(M - 1),
         NEW s \in 0..(M - 1), M * x + r = M * y + s
  PROVE  x = y /\ r = s
<1>1. x < y => M * x + M <= M * y
  BY MultiplesApart
<1>2. y < x => M * y + M <= M * x
  BY MultiplesApart
<1>3. M * x \in Int /\ M * y \in Int
  OBVIOUS
<1> QED BY <1>1, <1>2, <1>3

\* The bits of an address that the levels down to n consume.
LeadingBits(ip, n) == ip \div Size(BitsCovered(n))

LEMMA LeadingBitsAre ==
  ASSUME NEW ip \in Address, NEW n \in Levels
  PROVE  /\ LeadingBits(ip, n) \in Nat /\ Size(BitsCovered(n)) \in Nat \ {0}
         /\ Size(BitsCovered(n)) * LeadingBits(ip, n) <= ip
         /\ ip < Size(BitsCovered(n)) * LeadingBits(ip, n) + Size(BitsCovered(n))
         /\ ip6_mask_addr(ip, BitsCovered(n)) = Size(BitsCovered(n)) * LeadingBits(ip, n)
         /\ get_bitshift(ip, n) = LeadingBits(ip, n) % 2 ^ StepBits(n)
<1> DEFINE size == Size(BitsCovered(n))
<1>1. size \in Nat \ {0} /\ ip \in Nat
  BY BitsCoveredRange, SizeOfDepth, DepthsAreNaturals DEF Address
<1>2. ip6_mask_addr(ip, BitsCovered(n)) = ip - (ip % size)
  BY DEF ip6_mask_addr, Size
<1>3. get_bitshift(ip, n) = (ip \div size) % 2 ^ StepBits(n)
  BY DEF get_bitshift, Size
<1> HIDE DEF size
<1>4. /\ ip \div size \in Nat /\ ip - (ip % size) = size * (ip \div size)
      /\ size * (ip \div size) <= ip /\ ip < size * (ip \div size) + size
  BY <1>1, RoundedDown
<1> QED BY <1>1, <1>2, <1>3, <1>4 DEF LeadingBits, size

\* At the first level they are the index; each level below adds its own.
LEMMA LeadingBitsGrow ==
  ASSUME NEW ip \in Address, NEW n \in Levels
  PROVE  /\ n = ADD_FIRST_BYTE => LeadingBits(ip, n) = get_bitshift(ip, n)
         /\ n # ADD_FIRST_BYTE =>
              /\ n - 1 \in Levels /\ 2 ^ BYTE_SIZE \in Nat \ {0}
              /\ get_bitshift(ip, n) \in 0..(2 ^ BYTE_SIZE - 1)
              /\ LeadingBits(ip, n)
                   = 2 ^ BYTE_SIZE * LeadingBits(ip, n - 1) + get_bitshift(ip, n)
<1> DEFINE S == Size(BitsCovered(n))
           x == LeadingBits(ip, n)
           M == 2 ^ StepBits(n)
<1>1. /\ x \in Nat /\ S \in Nat \ {0} /\ S * x <= ip /\ ip < S * x + S
      /\ get_bitshift(ip, n) = x % M
  BY LeadingBitsAre
<1>2. M \in Nat \ {0} /\ BitsCovered(n) \in 0..MAX_DEPTH
  BY BitsCoveredRange, PowersAssumption
<1>3. ip \in Nat /\ ip < 2 ^ MAX_DEPTH
  BY DepthsAreNaturals DEF Address
<1>4. ASSUME n = ADD_FIRST_BYTE PROVE x = get_bitshift(ip, n)
  <2>1. 2 ^ MAX_DEPTH = S * M
    BY <1>2, <1>4, SizeOfDepth DEF StepBits
  <2> HIDE DEF S, x, M
  <2>2. ~(M <= x)
    <3> SUFFICES ASSUME M <= x PROVE FALSE
      OBVIOUS
    <3>1. S * M <= S * x
      <4>1. M = x \/ M < x
        BY <1>1, <1>2
      <4>2. S * M \in Int /\ S * x \in Int
        BY <1>1, <1>2
      <4> QED BY <1>1, <1>2, <4>1, <4>2, MultiplesApart
    <3>2. S * x \in Int /\ S * M \in Int
      BY <1>1, <1>2
    <3> QED BY <1>1, <1>3, <2>1, <3>1, <3>2
  <2>3. x % M = x
    BY <1>1, <1>2, <2>2
  <2> QED BY <1>1, <2>3
<1>5. ASSUME n # ADD_FIRST_BYTE
      PROVE  /\ n - 1 \in Levels /\ 2 ^ BYTE_SIZE \in Nat \ {0}
             /\ get_bitshift(ip, n) \in 0..(2 ^ BYTE_SIZE - 1)
             /\ x = 2 ^ BYTE_SIZE * LeadingBits(ip, n - 1) + get_bitshift(ip, n)
  <2>1. n - 1 \in Levels /\ M = 2 ^ BYTE_SIZE
    BY <1>5, LevelRange DEF StepBits
  <2>2. Size(BitsCovered(n - 1)) = S * M
    <3>1. BitsCovered(n) - BitsCovered(n - 1) = BYTE_SIZE
      BY LevelRange, SizesAssumption DEF BitsCovered
    <3>2. /\ BitsCovered(n - 1) \in 0..MAX_DEPTH /\ BitsCovered(n) \in 0..MAX_DEPTH
          /\ BitsCovered(n - 1) <= BitsCovered(n)
      <4>1. n - 1 <= n
        BY LevelRange
      <4> QED BY <2>1, <4>1, BitsCoveredRange, BitsGrow
    <3> QED BY <2>1, <3>1, <3>2, SizesDivide
  <2> DEFINE k == x \div M
             r == x % M
             T == S * M
  <2> HIDE DEF S, x, M
  <2>3. k \in Nat /\ r \in 0..(M - 1) /\ x = M * k + r
    BY <1>1, <1>2
  <2>4. LeadingBits(ip, n - 1) = ip \div T /\ T \in Nat \ {0}
    BY <1>1, <1>2, <2>2 DEF LeadingBits
  <2> HIDE DEF k, r
  <2>5. S * x = T * k + S * r
    BY <1>1, <1>2, <2>3
  <2>6. S * r \in Nat /\ S * r + S <= T
    BY <1>1, <1>2, <2>3, MultiplesApart
  <2>7. T * k \in Nat
    BY <2>3, <2>4
  <2> HIDE DEF T
  <2>8. T * k <= ip /\ ip < T * k + T
    <3> DEFINE a == S * x
               b == T * k
               c == S * r
    <3>1. /\ ip \in Nat /\ b \in Nat /\ c \in Nat /\ S \in Nat /\ T \in Nat
          /\ a = b + c /\ c + S <= T /\ a <= ip /\ ip < a + S
      BY <1>1, <1>3, <2>4, <2>5, <2>6, <2>7
    <3> HIDE DEF a, b, c
    <3>2. b <= ip /\ ip < b + T
      BY ONLY <3>1
    <3> QED BY <3>2 DEF b
  <2>9. ip \div T = k
    <3>1. ip \in Nat /\ T \in Nat \ {0} /\ k \in Int
      BY <1>3, <2>3, <2>4
    <3> QED BY ONLY <2>8, <3>1, RoundedDownIs
  <2> QED BY <1>1, <1>2, <2>1, <2>3, <2>4, <2>9 DEF r, M
<1> QED BY <1>4, <1>5

\* Addresses have the same indexes down to a level if they have the same bits.
LEMMA SameIndexesSameBits ==
  ASSUME NEW ip \in Address, NEW jp \in Address, NEW n \in Levels
  PROVE  (\A m \in ADD_FIRST_BYTE..n : get_bitshift(ip, m) = get_bitshift(jp, m))
         <=> LeadingBits(ip, n) = LeadingBits(jp, n)
<1> DEFINE Alike(k) == \A m \in ADD_FIRST_BYTE..k : get_bitshift(ip, m) = get_bitshift(jp, m)
           Same(k) == LeadingBits(ip, k) = LeadingBits(jp, k)
           Off == {k \in Levels : ~(Alike(k) <=> Same(k))}
<1>1. \A k \in Levels \ {ADD_FIRST_BYTE} :
        /\ k - 1 \in Levels /\ ~(k <= k - 1)
        /\ Same(k) <=> Same(k - 1) /\ get_bitshift(ip, k) = get_bitshift(jp, k)
  <2> TAKE k \in Levels \ {ADD_FIRST_BYTE}
  <2> DEFINE M == 2 ^ BYTE_SIZE
             a == LeadingBits(ip, k - 1)
             b == LeadingBits(jp, k - 1)
             r == get_bitshift(ip, k)
             s == get_bitshift(jp, k)
  <2>1. /\ k - 1 \in Levels /\ M \in Nat \ {0} /\ r \in 0..(M - 1) /\ s \in 0..(M - 1)
        /\ LeadingBits(ip, k) = M * a + r /\ LeadingBits(jp, k) = M * b + s
    BY LeadingBitsGrow
  <2>2. a \in Nat /\ b \in Nat /\ ~(k <= k - 1)
    BY <2>1, LeadingBitsAre, LevelRange
  <2> HIDE DEF a, b, r, s, M
  <2>3. M * a + r = M * b + s <=> a = b /\ r = s
    BY <2>1, <2>2, QuotientsCompared
  <2> QED BY <2>1, <2>2, <2>3 DEF a, b, r, s
<1>2. \A k \in Levels \ {ADD_FIRST_BYTE} :
        Alike(k) <=> Alike(k - 1) /\ get_bitshift(ip, k) = get_bitshift(jp, k)
  BY LevelRange
<1>3. Alike(ADD_FIRST_BYTE) <=> Same(ADD_FIRST_BYTE)
  <2>1. ADD_FIRST_BYTE \in Levels /\ ADD_FIRST_BYTE..ADD_FIRST_BYTE = {ADD_FIRST_BYTE}
    BY LevelRange
  <2> QED BY <2>1, LeadingBitsGrow
<1> HIDE DEF Alike, Same
<1>4. Off = {}
  <2> SUFFICES ASSUME Off # {} PROVE FALSE
    OBVIOUS
  <2>1. Off \in SUBSET Nat
    BY LevelRange
  <2>2. PICK k \in Off : \A l \in Off : k <= l
    <3> HIDE DEF Off
    <3> QED BY <2>1, LeastNatural
  <2>3. k \in Levels \ {ADD_FIRST_BYTE}
    BY <1>3
  <2>4. k - 1 \notin Off
    <3> HIDE DEF Off
    <3> QED BY <1>1, <2>2, <2>3
  <2>5. Alike(k - 1) <=> Same(k - 1)
    BY <1>1, <2>3, <2>4
  <2> QED BY <1>1, <1>2, <2>3, <2>5
<1>5. Alike(n) <=> Same(n)
  BY <1>4
<1> QED BY <1>5 DEF Alike, Same

-----------------------------------------------------------------------------
(* Where a lookup ends *)

\* The entry that answers a lookup: that of the last table on the way.
EndIn(T, ip) ==
  LET walk == WalkIn(T, ip)
      last == LastLevel(walk, IPV6_ADDR_SIZE)
  IN  T[walk[last]][get_bitshift(ip, last)]

EndsAt(T, ip, n) ==
  /\ WalkIn(T, ip)[n] # NO_TABLE
  /\ n # IPV6_ADDR_SIZE => WalkIn(T, ip)[n + 1] = NO_TABLE

LEMMA EndIs ==
  ASSUME NEW T, TablesOK(T), NEW ip \in Address, NEW n \in Levels, EndsAt(T, ip, n)
  PROVE  EndIn(T, ip) = T[WalkIn(T, ip)[n]][get_bitshift(ip, n)]
<1> DEFINE w == WalkIn(T, ip)
           last == LastLevel(w, IPV6_ADDR_SIZE)
<1>1. /\ last \in Levels /\ w[last] # NO_TABLE
      /\ \A m \in Levels : last < m => w[m] = NO_TABLE
  <2>1. IPV6_ADDR_SIZE \in Levels
    BY LevelRange
  <2> QED BY <2>1, LastLevelIs, LevelRange
<1>2. w[n] # NO_TABLE /\ (n # IPV6_ADDR_SIZE => w[n + 1] = NO_TABLE)
  BY DEF EndsAt
<1>3. \A m \in Levels : m <= last => w[m] # NO_TABLE
  BY <1>1, WalkStops
<1> HIDE DEF w, last
<1>4. ~(last < n)
  BY <1>1, <1>2
<1>5. ~(n < last)
  <2> SUFFICES ASSUME n < last PROVE FALSE
    OBVIOUS
  <2>1. n # IPV6_ADDR_SIZE /\ n + 1 \in Levels /\ n + 1 <= last
    BY <1>1, LevelRange
  <2> QED BY <1>2, <1>3, <2>1
<1>6. last = n
  BY <1>1, <1>4, <1>5, LevelRange
<1> QED BY <1>6 DEF EndIn, w, last

LEMMA EndExists ==
  ASSUME NEW T, TablesOK(T), NEW ip \in Address
  PROVE  \E n \in Levels :
           /\ EndsAt(T, ip, n) /\ WalkIn(T, ip)[n] \in Tables
           /\ get_bitshift(ip, n) \in Slots(WalkIn(T, ip)[n])
           /\ EndIn(T, ip) = T[WalkIn(T, ip)[n]][get_bitshift(ip, n)]
           /\ EndIn(T, ip) \in Entry
<1> DEFINE w == WalkIn(T, ip)
           n == LastLevel(w, IPV6_ADDR_SIZE)
<1>1. /\ n \in Levels /\ w[n] # NO_TABLE
      /\ \A m \in Levels : n < m => w[m] = NO_TABLE
  <2>1. IPV6_ADDR_SIZE \in Levels
    BY LevelRange
  <2> QED BY <2>1, LastLevelIs, LevelRange
<1>2. EndIn(T, ip) = T[w[n]][get_bitshift(ip, n)]
  BY DEF EndIn
<1> HIDE DEF n
<1>3. w[n] \in Tables /\ (w[n] = TBL24_IND <=> n = ADD_FIRST_BYTE)
  BY <1>1, WalkInUnfolds
<1>4. EndsAt(T, ip, n)
  <2>1. n # IPV6_ADDR_SIZE => n + 1 \in Levels /\ n < n + 1
    BY <1>1, LevelRange
  <2> QED BY <1>1, <2>1 DEF EndsAt
<1> HIDE DEF w
<1>5. get_bitshift(ip, n) \in Slots(w[n])
  BY <1>1, <1>3, SlotOfAddress
<1>6. T[w[n]][get_bitshift(ip, n)] \in Entry
  BY <1>3, <1>5 DEF TablesOK
<1> QED BY <1>1, <1>2, <1>3, <1>4, <1>5, <1>6 DEF w

\* A lookup that meets an entry that is no link ends there.
LEMMA EndsAtLeaf ==
  ASSUME NEW T, TablesOK(T), NEW ip \in Address, NEW n \in Levels,
         WalkIn(T, ip)[n] # NO_TABLE, ~IsLink(T[WalkIn(T, ip)[n]][get_bitshift(ip, n)])
  PROVE  EndsAt(T, ip, n) /\ EndIn(T, ip) = T[WalkIn(T, ip)[n]][get_bitshift(ip, n)]
<1>1. ASSUME n # IPV6_ADDR_SIZE PROVE WalkIn(T, ip)[n + 1] = NO_TABLE
  <2>1. n + 1 \in Levels \ {ADD_FIRST_BYTE} /\ (n + 1) - 1 = n
    BY <1>1, LevelRange
  <2>2. WalkIn(T, ip)[n + 1] = BelowIn(T, WalkIn(T, ip)[(n + 1) - 1], ip, n + 1)
    BY <2>1, WalkInUnfolds
  <2> QED BY <2>1, <2>2 DEF BelowIn
<1> QED BY <1>1, EndIs DEF EndsAt

\* Only at the last level can a lookup end at a link.
LEMMA EndNoLink ==
  ASSUME NEW T, TablesOK(T), NEW ip \in Address, NEW n \in Levels,
         EndsAt(T, ip, n), n # IPV6_ADDR_SIZE
  PROVE  ~IsLink(T[WalkIn(T, ip)[n]][get_bitshift(ip, n)])
<1> DEFINE w == WalkIn(T, ip)
<1>1. n + 1 \in Levels \ {ADD_FIRST_BYTE} /\ (n + 1) - 1 = n
  BY LevelRange
<1>2. w[n + 1] = BelowIn(T, w[(n + 1) - 1], ip, n + 1)
  BY <1>1, WalkInUnfolds
<1>3. w[n] # NO_TABLE /\ w[n + 1] = NO_TABLE
  BY DEF EndsAt
<1>4. w[n] \in Tables /\ get_bitshift(ip, n) \in Slots(w[n])
  BY <1>3, WalkInUnfolds, SlotOfAddress
<1>5. T[w[n]][get_bitshift(ip, n)] \in Entry
  BY <1>4 DEF TablesOK
<1>6. \A e \in Entry : IsLink(e) => e.next_hop # NO_TABLE
  BY LinkEntry, LiveTables, Constants
<1> QED BY <1>1, <1>2, <1>3, <1>5, <1>6 DEF BelowIn

\* The way of a lookup stays where its entries do, up to the level of one that
\* is no link afterwards.
LEMMA EndStays ==
  ASSUME NEW T, NEW U, TablesOK(T), TablesOK(U), NEW ip \in Address, NEW n \in Levels,
         WalkIn(T, ip)[n] # NO_TABLE,
         \A m \in Levels : m < n =>
           U[WalkIn(T, ip)[m]][get_bitshift(ip, m)] = T[WalkIn(T, ip)[m]][get_bitshift(ip, m)],
         ~IsLink(U[WalkIn(T, ip)[n]][get_bitshift(ip, n)])
  PROVE  /\ \A m \in Levels : m <= n => WalkIn(U, ip)[m] = WalkIn(T, ip)[m]
         /\ \A m \in Levels : n < m => WalkIn(U, ip)[m] = NO_TABLE
         /\ EndIn(U, ip) = U[WalkIn(T, ip)[n]][get_bitshift(ip, n)]
<1>1. \A m \in Levels : m <= n => WalkIn(U, ip)[m] = WalkIn(T, ip)[m]
  BY WalkStays
<1>2. WalkIn(U, ip)[n] = WalkIn(T, ip)[n]
  BY <1>1, LevelRange
<1>3. EndsAt(U, ip, n) /\ EndIn(U, ip) = U[WalkIn(T, ip)[n]][get_bitshift(ip, n)]
  BY <1>2, EndsAtLeaf
<1>4. ASSUME NEW m \in Levels, n < m PROVE WalkIn(U, ip)[m] = NO_TABLE
  <2>1. n # IPV6_ADDR_SIZE /\ n + 1 \in Levels /\ n + 1 <= m
    BY <1>4, LevelRange
  <2>2. WalkIn(U, ip)[n + 1] = NO_TABLE
    BY <1>3, <2>1 DEF EndsAt
  <2> QED BY <2>1, <2>2, WalkStops
<1> QED BY <1>1, <1>3, <1>4

\* Where no entry becomes a link and no link changes, ways stay whole.
LEMMA EndWithSameLinks ==
  ASSUME NEW T, NEW U, TablesOK(T), TablesOK(U), NEW ip \in Address,
         \A u \in Tables : \A j \in Slots(u) :
           IsLink(U[u][j]) \/ IsLink(T[u][j]) => U[u][j] = T[u][j],
         NEW n \in Levels, EndsAt(T, ip, n)
  PROVE  EndIn(U, ip) = U[WalkIn(T, ip)[n]][get_bitshift(ip, n)]
<1> DEFINE w == WalkIn(T, ip)
<1>1. /\ w[n] # NO_TABLE
      /\ \A m \in Levels : m <= n => w[m] # NO_TABLE
  BY WalkStops DEF EndsAt
<1>2. \A m \in Levels \ {ADD_FIRST_BYTE} : w[m] = BelowIn(T, w[m - 1], ip, m)
  BY WalkInUnfolds
<1>3. \A m \in Levels : m <= n => w[m] \in Tables /\ get_bitshift(ip, m) \in Slots(w[m])
  BY <1>1, WalkInUnfolds, SlotOfAddress
<1>4. n # IPV6_ADDR_SIZE => ~IsLink(T[w[n]][get_bitshift(ip, n)])
  BY EndNoLink
<1> HIDE DEF w
<1>5. \A m \in Levels : m < n => IsLink(T[w[m]][get_bitshift(ip, m)])
  <2> TAKE m \in Levels
  <2> HAVE m < n
  <2>1. m + 1 \in Levels \ {ADD_FIRST_BYTE} /\ m + 1 <= n /\ (m + 1) - 1 = m
    BY LevelRange
  <2>2. w[m + 1] = BelowIn(T, w[(m + 1) - 1], ip, m + 1) /\ w[m + 1] # NO_TABLE
    BY <1>1, <1>2, <2>1
  <2> QED BY <2>1, <2>2 DEF BelowIn
<1>6. \A m \in Levels : m < n =>
        U[w[m]][get_bitshift(ip, m)] = T[w[m]][get_bitshift(ip, m)]
  <2> TAKE m \in Levels
  <2> HAVE m < n
  <2>1. m <= n
    BY LevelRange
  <2> QED BY <1>3, <1>5, <2>1
<1>7. CASE n # IPV6_ADDR_SIZE
  <2>1. n <= n
    BY LevelRange
  <2>2. ~IsLink(U[w[n]][get_bitshift(ip, n)])
    BY <1>3, <1>4, <1>7, <2>1
  <2> QED BY <1>1, <1>6, <2>2, EndStays DEF w
<1>8. CASE n = IPV6_ADDR_SIZE
  <2>1. n <= n
    BY LevelRange
  <2>2. WalkIn(U, ip)[n] = w[n]
    BY <1>6, <2>1, WalkStays DEF w
  <2>3. EndsAt(U, ip, n)
    BY <1>1, <1>8, <2>1, <2>2 DEF EndsAt
  <2> QED BY <2>2, <2>3, EndIs DEF w
<1> QED BY <1>7, <1>8

-----------------------------------------------------------------------------
(* The entries a rule covers *)

\* The rule that matches an address with so many bits.
Under(ip, d) == [ip |-> ip6_mask_addr(ip, d), depth |-> d]

\* What a rule's range is in numbers: c indexes from the one of its address.
LEMMA RangeOfRule ==
  ASSUME NEW key \in Prefix, ip6_mask_addr(key.ip, key.depth) = key.ip,
         NEW L, L = LevelOf(key.depth)
  PROVE  \E c \in Nat \ {0}, k \in Nat :
           /\ L \in Levels /\ Size(key.depth) = Size(BitsCovered(L)) * c
           /\ key.ip = Size(key.depth) * k
           /\ LeadingBits(key.ip, L) = c * k
           /\ RuleRange(key, L) = get_bitshift(key.ip, L)..(get_bitshift(key.ip, L) + c - 1)
           /\ get_bitshift(key.ip, L) + c <= 2 ^ StepBits(L)
<1> DEFINE D == key.depth
           S == Size(BitsCovered(L))
           gap == BitsCovered(L) - D
           c == 2 ^ gap
           M == 2 ^ StepBits(L)
           s == get_bitshift(key.ip, L)
<1>1. /\ key.ip \in Address /\ D \in Depth /\ D \in 0..MAX_DEPTH /\ D \in Nat
      /\ L \in Levels /\ BitsCovered(L) \in 0..MAX_DEPTH /\ D <= BitsCovered(L)
      /\ StepBits(L) \in 0..MAX_DEPTH
  BY LevelOfIs, BitsCoveredRange, DepthsAreNaturals DEF Prefix, Depth
<1>2. c \in Nat \ {0} /\ Size(D) = S * c /\ S \in Nat \ {0} /\ M \in Nat \ {0}
  BY <1>1, SizesDivide, SizeOfDepth, PowersAssumption
<1>3. PICK k \in Nat : key.ip = Size(D) * k
  BY <1>1, MaskIs
<1>4. gap \in Nat /\ gap <= StepBits(L)
  <2>1. CASE L = ADD_FIRST_BYTE
    BY <1>1, <2>1 DEF StepBits
  <2>2. CASE L # ADD_FIRST_BYTE
    <3>1. D > BitsCovered(L - 1)
      BY <1>1, <2>2, LevelOfIs
    <3>2. BitsCovered(L) - BitsCovered(L - 1) = BYTE_SIZE /\ BitsCovered(L - 1) \in Int
      BY <1>1, LevelRange, SizesAssumption DEF BitsCovered
    <3> QED BY <1>1, <2>2, <3>1, <3>2 DEF StepBits
  <2> QED BY <2>1, <2>2
<1>5. PICK m \in Nat : M = c * m
  <2> DEFINE rest == StepBits(L) - gap
  <2>1. rest \in Nat /\ gap + rest = StepBits(L) /\ gap + rest <= MAX_DEPTH
        /\ rest \in 0..MAX_DEPTH
    BY <1>1, <1>4, DepthsAreNaturals
  <2> HIDE DEF rest, gap
  <2>2. M = 2 ^ gap * 2 ^ rest /\ 2 ^ rest \in Nat
    BY <1>4, <2>1, PowerOfSum, PowersAssumption
  <2> QED BY <2>2
<1>6. LeadingBits(key.ip, L) = key.ip \div S /\ s = LeadingBits(key.ip, L) % M
  BY <1>1, LeadingBitsAre DEF LeadingBits
<1>7. RuleRange(key, L) = s..(s + c - 1)
  BY DEF RuleRange
<1> HIDE DEF c, M, S, s, D
<1>8. c * k \in Nat /\ key.ip = S * (c * k) /\ key.ip \in Nat
  BY <1>1, <1>2, <1>3, DepthsAreNaturals DEF Address
<1>9. key.ip \div S = c * k
  <2> DEFINE y == c * k
  <2>1. y \in Int /\ S * y <= key.ip /\ key.ip < S * y + S /\ key.ip \in Nat
    <3>1. y \in Nat /\ key.ip = S * y
      BY <1>8
    <3> HIDE DEF y
    <3> QED BY <1>2, <1>8, <3>1
  <2> HIDE DEF y
  <2>2. key.ip \div S = y
    BY ONLY <1>2, <2>1, RoundedDownIs
  <2> QED BY <2>2 DEF y
<1>10. s + c <= M
  <2> DEFINE q == (c * k) \div M
  <2>1. q \in Nat /\ s \in 0..(M - 1) /\ c * k = M * q + s
    BY <1>2, <1>6, <1>8, <1>9
  <2> HIDE DEF q
  <2>2. M * q = c * (m * q) /\ m * q \in Nat
    BY <1>2, <1>5, <2>1
  <2>3. c * (k - m * q) = c * k - c * (m * q) /\ k - m * q \in Int
    BY <1>2, <1>3, <2>2
  <2>4. s = c * (k - m * q)
    BY <1>2, <1>8, <2>1, <2>2, <2>3
  <2>5. k - m * q < m
    <3> DEFINE z == k - m * q
    <3> SUFFICES ASSUME ~(z < m) PROVE FALSE
      OBVIOUS
    <3>1. z \in Int /\ (m = z \/ m < z)
      BY <1>5, <2>3
    <3>2. s = c * z
      BY <2>4
    <3> HIDE DEF z
    <3>3. c * m <= c * z
      BY <1>2, <1>5, <3>1, MultiplesApart
    <3> QED BY <1>2, <1>5, <2>1, <3>2, <3>3
  <2> DEFINE z == k - m * q
  <2>6. z \in Int /\ s = c * z /\ z < m
    BY <2>3, <2>4, <2>5
  <2> HIDE DEF z
  <2>7. c * z + c <= c * m
    BY <1>2, <1>5, <2>6, MultiplesApart
  <2> QED BY <1>5, <2>6, <2>7
<1> QED BY <1>1, <1>2, <1>3, <1>6, <1>7, <1>9, <1>10 DEF c, M, S, s, D

\* In the table where it ends, a rule's range consists of slots.
LEMMA RangeInSlots ==
  ASSUME NEW key \in Prefix, ip6_mask_addr(key.ip, key.depth) = key.ip,
         NEW L, L = LevelOf(key.depth),
         NEW t \in Tables, t = TBL24_IND <=> L = ADD_FIRST_BYTE
  PROVE  RuleRange(key, L) \subseteq Slots(t)
<1>1. PICK c \in Nat \ {0}, k \in Nat :
        /\ L \in Levels
        /\ RuleRange(key, L) = get_bitshift(key.ip, L)..(get_bitshift(key.ip, L) + c - 1)
        /\ get_bitshift(key.ip, L) + c <= 2 ^ StepBits(L)
  BY RangeOfRule
<1>2. get_bitshift(key.ip, L) \in Nat
  <2>1. 2 ^ StepBits(L) \in Nat \ {0} /\ LeadingBits(key.ip, L) \in Nat
        /\ get_bitshift(key.ip, L) = LeadingBits(key.ip, L) % 2 ^ StepBits(L)
    BY <1>1, LeadingBitsAre, BitsCoveredRange, PowersAssumption DEF Prefix
  <2> QED BY <2>1
<1>3. Slots(t) = 0..(2 ^ StepBits(L) - 1)
  <2>1. CASE L = ADD_FIRST_BYTE
    BY <2>1 DEF Slots
  <2>2. CASE L # ADD_FIRST_BYTE
    <3>1. ADD_FIRST_BYTE + 1 # ADD_FIRST_BYTE
      BY LevelRange
    <3> QED BY <2>2, <3>1 DEF Slots, StepBits
  <2> QED BY <2>1, <2>2
<1>4. 2 ^ StepBits(L) \in Nat
  BY <1>1, BitsCoveredRange, PowersAssumption
<1> QED BY <1>1, <1>2, <1>3, <1>4

\* A rule matches the addresses that share its indexes above the table where
\* it ends and have one of its range there.
LEMMA RangeIsMatch ==
  ASSUME NEW key \in Prefix, ip6_mask_addr(key.ip, key.depth) = key.ip,
         NEW L, L = LevelOf(key.depth), NEW ip \in Address
  PROVE  ip6_mask_addr(ip, key.depth) = key.ip
         <=> /\ \A m \in ADD_FIRST_BYTE..(L - 1) :
                  get_bitshift(ip, m) = get_bitshift(key.ip, m)
             /\ get_bitshift(ip, L) \in RuleRange(key, L)
<1>1. PICK c \in Nat \ {0}, k \in Nat :
        /\ L \in Levels /\ Size(key.depth) = Size(BitsCovered(L)) * c
        /\ key.ip = Size(key.depth) * k
        /\ LeadingBits(key.ip, L) = c * k
        /\ RuleRange(key, L) = get_bitshift(key.ip, L)..(get_bitshift(key.ip, L) + c - 1)
  BY RangeOfRule
<1> DEFINE D == key.depth
           S == Size(BitsCovered(L))
           x == LeadingBits(ip, L)
           y == LeadingBits(key.ip, L)
           r == get_bitshift(ip, L)
           s == get_bitshift(key.ip, L)
           Above == \A m \in ADD_FIRST_BYTE..(L - 1) :
                      get_bitshift(ip, m) = get_bitshift(key.ip, m)
           Match == ip6_mask_addr(ip, D) = key.ip
<1>2. /\ key.ip \in Address /\ D \in 0..MAX_DEPTH /\ D \in Depth /\ ip \in Nat
      /\ x \in Nat /\ y \in Nat /\ S \in Nat \ {0}
      /\ S * x <= ip /\ ip < S * x + S
  <2>1. key.ip \in Address /\ D \in 0..MAX_DEPTH /\ D \in Depth /\ ip \in Nat
    BY DepthsAreNaturals DEF Prefix, Depth, Address
  <2>2. x \in Nat /\ S \in Nat \ {0} /\ S * x <= ip /\ ip < S * x + S
    BY <1>1, LeadingBitsAre
  <2>3. y \in Nat
    BY <1>1, <2>1, LeadingBitsAre
  <2> QED BY <2>1, <2>2, <2>3
<1>3. r \in Nat /\ s \in Nat
  <2>1. /\ 2 ^ StepBits(L) \in Nat \ {0}
        /\ r = x % 2 ^ StepBits(L) /\ s = y % 2 ^ StepBits(L)
    BY <1>1, <1>2, LeadingBitsAre, BitsCoveredRange, PowersAssumption
  <2> HIDE DEF r, s, x, y
  <2> QED BY <1>2, <2>1
<1>4. Match <=> y <= x /\ x < y + c
  <2>1. PICK l \in Nat : /\ ip6_mask_addr(ip, D) = Size(D) * l
                         /\ Size(D) * l <= ip /\ ip < Size(D) * l + Size(D)
    BY <1>2, MaskIs
  <2>2. Size(D) = S * c /\ key.ip = Size(D) * k /\ y = c * k
    BY <1>1
  <2>3. y + c \in Nat /\ key.ip = S * y /\ S * y + Size(D) = S * (y + c) /\ S * y \in Nat
    <3>1. key.ip = S * (c * k) /\ S * (c * k) + S * c = S * (c * k + c)
      BY <1>2, <2>2
    <3> QED BY <1>2, <2>2, <3>1
  <2>4. Size(D) * k <= ip /\ ip < Size(D) * k + Size(D) => Match
    BY <1>1, <1>2, MaskFrom
  <2> DEFINE z == y + c
  <2>5. z \in Nat /\ S * z \in Nat /\ S * x \in Nat /\ Size(D) \in Nat
    BY <1>2, <2>2, <2>3
  <2>6. Match <=> S * y <= ip /\ ip < S * z
    <3>1. Match => S * y <= ip /\ ip < S * y + Size(D)
      BY <2>1, <2>3
    <3>2. S * y <= ip /\ ip < S * y + Size(D) => Match
      BY <2>2, <2>3, <2>4
    <3> QED BY <2>3, <3>1, <3>2
  <2> HIDE DEF x, y, z, S, Match
  <2>7. x < y => S * x + S <= S * y
    BY <1>2, MultiplesApart
  <2>8. z <= x => S * z <= S * x
    <3>1. z < x => S * z + S <= S * x
      BY <1>2, <2>5, MultiplesApart
    <3> QED BY <1>2, <2>5, <3>1
  <2>9. y <= x => S * y <= S * x
    <3>1. y < x => S * y + S <= S * x
      BY <1>2, MultiplesApart
    <3>2. y = x => S * y = S * x
      OBVIOUS
    <3> QED BY <1>2, <2>3, <2>5, <3>1, <3>2
  <2>10. x < z => S * x + S <= S * z
    BY <1>2, <2>5, MultiplesApart
  <2>11. Match <=> y <= x /\ x < z
    BY <1>2, <2>3, <2>5, <2>6, <2>7, <2>8, <2>9, <2>10
  <2> QED BY <2>11 DEF z
<1>5. CASE L = ADD_FIRST_BYTE
  <2>1. x = r /\ y = s
    BY <1>1, <1>2, <1>5, LeadingBitsGrow
  <2>2. Above
    BY <1>5, LevelRange
  <2> HIDE DEF x, y, r, s, Above
  <2>3. r \in RuleRange(key, L) <=> s <= r /\ r < s + c
    BY <1>1, <1>3 DEF s
  <2> QED BY <1>4, <2>1, <2>2, <2>3 DEF Match, Above, r
<1>6. CASE L # ADD_FIRST_BYTE
  <2> DEFINE a == LeadingBits(ip, L - 1)
             b == LeadingBits(key.ip, L - 1)
             M == 2 ^ BYTE_SIZE
             B == Size(BitsCovered(L - 1))
  <2>1. L - 1 \in Levels /\ M \in Nat \ {0} /\ x = M * a + r /\ y = M * b + s
    BY <1>1, <1>2, <1>6, LeadingBitsGrow
  <2>2. /\ a \in Nat /\ b \in Nat /\ B \in Nat \ {0}
        /\ ip6_mask_addr(ip, BitsCovered(L - 1)) = B * a
        /\ ip6_mask_addr(key.ip, BitsCovered(L - 1)) = B * b
    BY <1>2, <2>1, LeadingBitsAre
  <2>3. Above <=> a = b
    BY <1>2, <2>1, SameIndexesSameBits
  <2>4. Match => a = b
    <3> SUFFICES ASSUME Match PROVE a = b
      OBVIOUS
    <3>1. BitsCovered(L - 1) \in 0..MAX_DEPTH /\ BitsCovered(L - 1) <= D
      BY <1>2, <1>6, <2>1, BitsCoveredRange, LevelOfIs, DepthsAreNaturals DEF Depth
    <3>2. B * a = B * b
      <4>1. ip6_mask_addr(ip6_mask_addr(ip, D), BitsCovered(L - 1))
              = ip6_mask_addr(ip, BitsCovered(L - 1))
        BY <1>2, <3>1, MaskOfMask
      <4> QED BY <2>2, <4>1
    <3> HIDE DEF a, b, B
    <3>3. a < b => B * a + B <= B * b
      BY <2>2, MultiplesApart
    <3>4. b < a => B * b + B <= B * a
      BY <2>2, MultiplesApart
    <3>5. B * a \in Nat /\ B * b \in Nat
      BY <2>2
    <3> QED BY <2>2, <3>2, <3>3, <3>4, <3>5
  <2> HIDE DEF x, y, r, s, a, b, M, Above, Match
  <2>5. r \in RuleRange(key, L) <=> s <= r /\ r < s + c
    BY <1>1, <1>3 DEF s
  <2>6. a = b => (y <= x /\ x < y + c <=> s <= r /\ r < s + c)
    <3> SUFFICES ASSUME a = b PROVE y <= x /\ x < y + c <=> s <= r /\ r < s + c
      OBVIOUS
    <3> DEFINE p == M * a
    <3>1. p \in Nat /\ x = p + r /\ y = p + s
      BY <2>1, <2>2
    <3> HIDE DEF p
    <3> QED BY <1>3, <3>1
  <2>7. Match <=> Above /\ r \in RuleRange(key, L)
    BY <1>4, <2>3, <2>4, <2>5, <2>6
  <2> QED BY <2>7 DEF Match, Above, r
<1> QED BY <1>5, <1>6

\* Addresses that have the same bits down to a level match the same rules
\* that are no longer than that.
LEMMA SameBitsSameRules ==
  ASSUME NEW ip \in Address, NEW jp \in Address, NEW n \in Levels,
         \A m \in ADD_FIRST_BYTE..n : get_bitshift(ip, m) = get_bitshift(jp, m),
         NEW d \in 0..MAX_DEPTH, d <= BitsCovered(n)
  PROVE  ip6_mask_addr(ip, d) = ip6_mask_addr(jp, d)
<1>1. BitsCovered(n) \in 0..MAX_DEPTH
  BY BitsCoveredRange
<1>2. ip6_mask_addr(ip, BitsCovered(n)) = ip6_mask_addr(jp, BitsCovered(n))
  BY SameIndexesSameBits, LeadingBitsAre
<1>3. /\ ip6_mask_addr(ip6_mask_addr(ip, BitsCovered(n)), d) = ip6_mask_addr(ip, d)
      /\ ip6_mask_addr(ip6_mask_addr(jp, BitsCovered(n)), d) = ip6_mask_addr(jp, d)
  BY <1>1, MaskOfMask
<1> QED BY <1>2, <1>3

\* The ways that reach a rule's range are those of the addresses it matches.
LEMMA RangeIsReached ==
  ASSUME IndInv, LinksKept, NEW key \in Prefix, ip6_mask_addr(key.ip, key.depth) = key.ip,
         NEW L, L = LevelOf(key.depth), Walk(key.ip)[L] \in Live, NEW ip \in Address
  PROVE  ip6_mask_addr(ip, key.depth) = key.ip
         <=> /\ Walk(ip)[L] = Walk(key.ip)[L]
             /\ get_bitshift(ip, L) \in RuleRange(key, L)
<1>1. L \in Levels /\ key.ip \in Address
  BY LevelOfIs DEF Prefix
<1>2. Walk(ip)[L] = Walk(key.ip)[L]
      <=> \A m \in ADD_FIRST_BYTE..(L - 1) : get_bitshift(ip, m) = get_bitshift(key.ip, m)
  BY <1>1, SameNodeSameTable, SameTableSameNode
<1> QED BY <1>2, RangeIsMatch

\* The groups below some entries of a table on a way are those that ways
\* through these entries reach.
LEMMA BelowEntries ==
  ASSUME IndInv, LinksKept, NEW jp \in Address, NEW L \in Levels,
         NEW t \in Live, t = Walk(jp)[L], NEW cells \in SUBSET Slots(t),
         NEW ip \in Address, NEW n \in Levels, Walk(ip)[n] \in Live
  PROVE  Walk(ip)[n] \in Subtree(LinkedFrom(t, cells))
         <=> L < n /\ Walk(ip)[L] = t /\ get_bitshift(ip, L) \in cells
<1> DEFINE hi == IPV6_ADDR_SIZE
           first == LinkedFrom(t, cells)
           w == Walk(ip)
           Through == w[L] = t /\ get_bitshift(ip, L) \in cells
<1>1. hi \in Nat /\ ADD_FIRST_BYTE \in Nat /\ Levels = ADD_FIRST_BYTE..hi
  BY LevelRange
<1>2. \A g \in first : \E j \in cells :
        g \in Taken /\ Owner(g) = t /\ OwnerEntry(g) = j
  BY DEF LinksKept, LinkedFrom
<1>3. PICK s : /\ s[0] = first /\ s[hi] = Subtree(first)
               /\ \A i \in 0..hi : s[i] \subseteq Taken
               /\ \A i \in 1..hi :
                    s[i] = s[i - 1] \cup UNION {LinkedFrom(g, Slots(g)) : g \in s[i - 1]}
  <2>1. first \in SUBSET Taken
    BY <1>2
  <2> HIDE DEF first
  <2> QED BY <2>1, SubtreeSteps
<1>4. \A m \in Levels : w[m] \in Taken =>
        /\ m # ADD_FIRST_BYTE /\ m - 1 \in Levels /\ w[m - 1] \in Live
        /\ Owner(w[m]) = w[m - 1] /\ OwnerEntry(w[m]) = get_bitshift(ip, m - 1)
        /\ w[m] \in LinkedFrom(w[m - 1], Slots(w[m - 1]))
  BY LinkOnWalk, WalkIsLive
<1>5. \A m \in Levels : w[m] = t => m = L
  BY SameTableSameNode
<1>6. \A g \in Taken : \A h \in LinkedFrom(g, Slots(g)) : Owner(h) = g
  BY DEF LinksKept, LinkedFrom, Live
<1> HIDE DEF first, w
<1>7. ASSUME w[n] \in Subtree(first) PROVE L < n /\ Through
  <2> DEFINE Off == {i \in 0..hi : \E m \in Levels : w[m] \in s[i] /\ ~(L < m /\ Through)}
  <2>1. Off = {}
    <3> SUFFICES ASSUME Off # {} PROVE FALSE
      OBVIOUS
    <3>1. Off \in SUBSET Nat
      OBVIOUS
    <3>2. PICK i \in Off : \A k \in Off : i <= k
      <4> HIDE DEF Off
      <4> QED BY <3>1, LeastNatural
    <3>3. PICK m \in Levels : w[m] \in s[i] /\ ~(L < m /\ Through)
      BY <3>2
    <3>4. i \in 0..hi /\ w[m] \in Taken
      BY <1>3, <3>3
    <3>5. /\ m # ADD_FIRST_BYTE /\ m - 1 \in Levels
          /\ Owner(w[m]) = w[m - 1] /\ OwnerEntry(w[m]) = get_bitshift(ip, m - 1)
      BY <1>4, <3>4
    <3>6. CASE w[m] \in first
      <4>1. w[m - 1] = t /\ get_bitshift(ip, m - 1) \in cells
        BY <1>2, <3>5, <3>6
      <4>2. m - 1 = L
        BY <1>5, <3>5, <4>1
      <4>3. L < m
        BY <1>1, <4>2
      <4> QED BY <3>3, <4>1, <4>2, <4>3
    <3>7. CASE w[m] \notin first
      <4>1. i # 0
        BY <1>3, <3>3, <3>7
      <4>2. i - 1 \in 0..hi /\ i \in 1..hi /\ ~(i <= i - 1)
        BY <1>1, <3>4, <4>1
      <4>3. i - 1 \notin Off
        <5> HIDE DEF Off
        <5> QED BY <3>2, <4>2
      <4>4. \A k \in Levels : w[k] \in s[i - 1] => L < k /\ Through
        BY <4>2, <4>3
      <4>5. w[m] \notin s[i - 1]
        BY <3>3, <4>4
      <4>6. PICK g \in s[i - 1] : w[m] \in LinkedFrom(g, Slots(g))
        BY <1>3, <3>3, <4>2, <4>5
      <4>7. w[m - 1] = g
        BY <1>3, <1>6, <3>5, <4>2, <4>6
      <4>8. L < m - 1 /\ Through
        BY <3>5, <4>4, <4>6, <4>7
      <4>9. L < m
        BY <1>1, <4>8
      <4> QED BY <3>3, <4>8, <4>9
    <3> QED BY <3>6, <3>7
  <2>2. hi \in 0..hi
    BY <1>1
  <2> QED BY <1>3, <1>7, <2>1, <2>2
<1>8. ASSUME L < n, Through PROVE w[n] \in Subtree(first)
  <2>1. \A m \in Levels : m <= n => w[m] # NO_TABLE
    <3>1. w[n] # NO_TABLE
      BY LiveTables DEF w
    <3>2. TablesOK(tbl)
      BY TablesShaped
    <3> QED BY <3>1, <3>2, WalkStops DEF w, Walk
  <2>2. \A m \in Levels : L < m /\ m <= n => w[m] \in Taken
    <3> TAKE m \in Levels
    <3> HAVE L < m /\ m <= n
    <3>1. m # ADD_FIRST_BYTE
      BY <1>1
    <3>2. w[m] \in Live \cup {NO_TABLE} /\ (w[m] = TBL24_IND <=> m = ADD_FIRST_BYTE)
      BY WalkIsLive DEF w
    <3> QED BY <2>1, <3>1, <3>2 DEF Live
  <2>3. \A m \in Levels : m = L + 1 /\ m <= n => w[m] \in first
    <3> TAKE m \in Levels
    <3> HAVE m = L + 1 /\ m <= n
    <3>1. m # ADD_FIRST_BYTE /\ m - 1 = L /\ L < m
      BY <1>1
    <3>2. w[m] = Below(w[m - 1], ip, m)
      BY <3>1, WalkUnfolds DEF w
    <3>3. w[m] \in Taken /\ w[m] # NO_TABLE
      BY <2>1, <2>2, <3>1
    <3>4. IsLink(tbl[t][get_bitshift(ip, L)]) /\ w[m] = tbl[t][get_bitshift(ip, L)].next_hop
      BY <1>8, <3>1, <3>2, <3>3 DEF Below, BelowIn
    <3> QED BY <1>8, <3>4 DEF first, LinkedFrom
  <2> DEFINE Off == {i \in 0..hi : \E m \in Levels :
                       L < m /\ m <= n /\ m <= L + 1 + i /\ w[m] \notin s[i]}
  <2>4. Off = {}
    <3> SUFFICES ASSUME Off # {} PROVE FALSE
      OBVIOUS
    <3>1. Off \in SUBSET Nat
      OBVIOUS
    <3>2. PICK i \in Off : \A k \in Off : i <= k
      <4> HIDE DEF Off
      <4> QED BY <3>1, LeastNatural
    <3>3. PICK m \in Levels : L < m /\ m <= n /\ m <= L + 1 + i /\ w[m] \notin s[i]
      BY <3>2
    <3>4. i \in 0..hi
      OBVIOUS
    <3>5. CASE i = 0
      <4>1. m = L + 1
        BY <1>1, <3>3, <3>5
      <4> QED BY <1>3, <2>3, <3>3, <3>5, <4>1
    <3>6. CASE i # 0
      <4>1. i - 1 \in 0..hi /\ i \in 1..hi /\ ~(i <= i - 1)
        BY <1>1, <3>4, <3>6
      <4>2. i - 1 \notin Off
        <5> HIDE DEF Off
        <5> QED BY <3>2, <4>1
      <4>3. \A k \in Levels : L < k /\ k <= n /\ k <= L + 1 + (i - 1) => w[k] \in s[i - 1]
        BY <4>1, <4>2
      <4>4. s[i] = s[i - 1] \cup UNION {LinkedFrom(g, Slots(g)) : g \in s[i - 1]}
        BY <1>3, <4>1
      <4>5. CASE m <= L + 1 + (i - 1)
        BY <3>3, <4>3, <4>4, <4>5
      <4>6. CASE ~(m <= L + 1 + (i - 1))
        <5>1. L < m - 1 /\ m - 1 <= n /\ m - 1 <= L + 1 + (i - 1)
          BY <1>1, <3>3, <3>4, <3>6, <4>6
        <5>2. w[m] \in LinkedFrom(w[m - 1], Slots(w[m - 1])) /\ m - 1 \in Levels
          BY <1>4, <2>2, <3>3
        <5>3. w[m - 1] \in s[i - 1]
          BY <4>3, <5>1, <5>2
        <5> QED BY <3>3, <4>4, <5>2, <5>3
      <4> QED BY <4>5, <4>6
    <3> QED BY <3>5, <3>6
  <2>5. hi \in 0..hi /\ n <= L + 1 + hi /\ n <= n
    BY <1>1
  <2> QED BY <1>3, <1>8, <2>4, <2>5
<1> QED BY <1>7, <1>8 DEF w, first

-----------------------------------------------------------------------------
(* What rules make of an address *)

DepthsOf(K, ip) == {d \in Depth : Under(ip, d) \in K}

\* The entry is that of the longest of the rules K that match the address,
\* with R their next hops, or invalid if none does.
Expands(e, R, K, ip) ==
  IF DepthsOf(K, ip) = {} THEN e = Invalid
  ELSE \E d \in DepthsOf(K, ip) :
         /\ \A c \in DepthsOf(K, ip) : c <= d
         /\ e = Leaf(R[Under(ip, d)], d)

\* Such an entry is a leaf, or no entry.
LEMMA ExpandedEntry ==
  ASSUME NEW e, NEW R, NEW K, NEW ip, Expands(e, R, K, ip), NEW depth \in Depth
  PROVE  /\ ~IsLink(e) /\ ~e.ext_entry
         /\ (\A d \in DepthsOf(K, ip) : d <= depth) => Yields(e, depth)
         /\ (\E d \in DepthsOf(K, ip) : d > depth) =>
              ~Yields(e, depth) /\ ~BelongsTo(e, depth)
<1>1. CASE DepthsOf(K, ip) = {}
  BY <1>1 DEF Expands, Invalid, IsLink, Yields
<1>2. CASE DepthsOf(K, ip) # {}
  <2>1. PICK d \in DepthsOf(K, ip) :
          (\A c \in DepthsOf(K, ip) : c <= d) /\ e = Leaf(R[Under(ip, d)], d)
    BY <1>2 DEF Expands
  <2>2. e.valid /\ ~e.ext_entry /\ e.depth = d
    BY <2>1 DEF Leaf
  <2>3. DepthsOf(K, ip) \subseteq Depth /\ Depth \subseteq Nat
    BY Constants DEF DepthsOf
  <2>4. ~IsLink(e)
    BY <2>2 DEF IsLink
  <2>5. (\A c \in DepthsOf(K, ip) : c <= depth) => Yields(e, depth)
    BY <2>1, <2>2 DEF Yields
  <2>6. ASSUME NEW c \in DepthsOf(K, ip), c > depth
        PROVE  ~Yields(e, depth) /\ ~BelongsTo(e, depth)
    <3>0. d \in Nat /\ c \in Nat /\ depth \in Nat /\ c <= d /\ c > depth
      <4>1. d \in Nat /\ c \in Nat /\ depth \in Nat
        BY <2>3
      <4> QED BY <2>1, <2>6, <4>1
    <3>1. d > depth /\ d \in Nat /\ depth \in Nat
      BY ONLY <3>0
    <3>2. ~(d <= depth) /\ d # depth
      BY <3>1
    <3> QED BY <2>2, <3>2 DEF Yields, BelongsTo
  <2> QED BY <2>2, <2>4, <2>5, <2>6
<1> QED BY <1>1, <1>2

\* Where one rule is the longest, it is what counts.
LEMMA LongestExpands ==
  ASSUME NEW key \in Prefix, NEW K, key \in K, NEW R, NEW ip, NEW e,
         Under(ip, key.depth) = key, \A d \in DepthsOf(K, ip) : d <= key.depth
  PROVE  Expands(e, R, K, ip) <=> e = Leaf(R[key], key.depth)
<1>1. key.depth \in DepthsOf(K, ip) /\ DepthsOf(K, ip) \subseteq Nat
  BY Constants DEF DepthsOf, Prefix
<1>2. \A d \in DepthsOf(K, ip) :
        (\A c \in DepthsOf(K, ip) : c <= d) => d = key.depth
  BY <1>1
<1> QED BY <1>1, <1>2 DEF Expands

\* A rule that does not match, or matches next to a longer one, may come and go.
LEMMA OthersExpand ==
  ASSUME NEW key, key.depth \in Depth, NEW K, NEW J, J \ {key} = K \ {key},
         NEW R, NEW Q, \A k \in K \ {key} : R[k] = Q[k],
         NEW ip, NEW e, Expands(e, R, K, ip),
         Under(ip, key.depth) # key \/ \E d \in DepthsOf(J, ip) : d > key.depth
  PROVE  Expands(e, Q, J, ip)
<1>1. /\ DepthsOf(K, ip) \subseteq Nat /\ DepthsOf(J, ip) \subseteq Nat
      /\ key.depth \in Nat
  BY Constants DEF DepthsOf
<1>2. \A d : d # key.depth => Under(ip, d) # key
  BY DEF Under
<1>3. \A d \in DepthsOf(K, ip) : Under(ip, d) # key =>
        d \in DepthsOf(J, ip) /\ R[Under(ip, d)] = Q[Under(ip, d)]
  BY DEF DepthsOf
<1>4. \A d \in DepthsOf(J, ip) : Under(ip, d) # key => d \in DepthsOf(K, ip)
  BY DEF DepthsOf
<1>5. CASE Under(ip, key.depth) # key
  <2>1. \A d : Under(ip, d) # key
    BY <1>2, <1>5
  <2>2. DepthsOf(J, ip) = DepthsOf(K, ip)
    BY <1>3, <1>4, <2>1
  <2>3. CASE DepthsOf(K, ip) = {}
    BY <2>2, <2>3 DEF Expands
  <2>4. CASE DepthsOf(K, ip) # {}
    <3>1. PICK d \in DepthsOf(K, ip) :
            (\A c \in DepthsOf(K, ip) : c <= d) /\ e = Leaf(R[Under(ip, d)], d)
      BY <2>4 DEF Expands
    <3>2. e = Leaf(Q[Under(ip, d)], d)
      BY <1>3, <2>1, <3>1
    <3> QED BY <2>2, <3>1, <3>2 DEF Expands
  <2> QED BY <2>3, <2>4
<1>6. ASSUME NEW b \in DepthsOf(J, ip), b > key.depth
      PROVE  Expands(e, Q, J, ip)
  <2>1. b # key.depth
    BY <1>1, <1>6
  <2>2. b \in DepthsOf(K, ip)
    BY <1>2, <1>4, <2>1
  <2>3. PICK d \in DepthsOf(K, ip) :
          (\A c \in DepthsOf(K, ip) : c <= d) /\ e = Leaf(R[Under(ip, d)], d)
    BY <2>2 DEF Expands
  <2>4. d > key.depth /\ d # key.depth
    BY <1>1, <1>6, <2>2, <2>3
  <2>5. d \in DepthsOf(J, ip) /\ e = Leaf(Q[Under(ip, d)], d)
    BY <1>2, <1>3, <2>3, <2>4
  <2>6. ASSUME NEW c \in DepthsOf(J, ip) PROVE c <= d
    <3>1. CASE c = key.depth
      BY <1>1, <2>4, <3>1
    <3>2. CASE c # key.depth
      BY <1>2, <1>4, <2>3, <3>2
    <3> QED BY <3>1, <3>2
  <2> QED BY <2>5, <2>6 DEF Expands
<1> QED BY <1>5, <1>6

DepthsBelow(K, key) == {d \in 1..(key.depth - 1) : Under(key.ip, d) \in K}

\* The entry is that of the longest of the rules K that are shorter than the
\* key and cover it, or invalid if there is none.
Replaces(e, R, K, key) ==
  IF DepthsBelow(K, key) = {} THEN e = Invalid
  ELSE \E d \in DepthsBelow(K, key) :
         /\ \A c \in DepthsBelow(K, key) : c <= d
         /\ e = Leaf(R[Under(key.ip, d)], d)

LEMMA LessSpecificReplaces ==
  ASSUME NEW key \in Prefix
  PROVE  Replaces(rule_find_less_specific(key), rules, DOMAIN rules, key)
<1> DEFINE Shorter(d) == [ip |-> ip6_mask_addr(key.ip, d), depth |-> d]
           found == {d \in 1..(key.depth - 1) : Shorter(d) \in DOMAIN rules}
           best == CHOOSE d \in found : \A c \in found : c <= d
<1>1. key.depth \in Nat
  BY Constants DEF Prefix
<1>2. \A d : Shorter(d) = Under(key.ip, d)
  BY DEF Under
<1>3. rule_find_less_specific(key) =
        IF found = {} THEN Invalid ELSE Leaf(rules[Shorter(best)], best)
  BY DEF rule_find_less_specific
<1>4. found = DepthsBelow(DOMAIN rules, key)
  BY <1>2 DEF DepthsBelow
<1>5. found \in SUBSET (0..key.depth)
  BY <1>1
<1> HIDE DEF Shorter, found
<1>6. CASE found = {}
  BY <1>3, <1>4, <1>6 DEF Replaces
<1>7. CASE found # {}
  <2>1. \E d \in found : \A c \in found : c <= d
    BY <1>1, <1>5, <1>7, GreatestNatural
  <2>2. best \in found /\ \A c \in found : c <= best
    BY <2>1
  <2> HIDE DEF best
  <2>3. rule_find_less_specific(key) = Leaf(rules[Under(key.ip, best)], best)
    BY <1>2, <1>3, <1>7
  <2> QED BY <1>4, <1>7, <2>2, <2>3 DEF Replaces
<1> QED BY <1>6, <1>7

\* That is what the rules make of the addresses whose rules are the shorter
\* ones of the key.
LEMMA ReplacementExpands ==
  ASSUME NEW key \in Prefix, NEW e, NEW R, NEW K, Replaces(e, R, K, key), NEW ip,
         \A d \in DepthsOf(K, ip) : d < key.depth /\ Under(ip, d) = Under(key.ip, d),
         \A d \in DepthsBelow(K, key) : Under(ip, d) = Under(key.ip, d)
  PROVE  Expands(e, R, K, ip)
<1>1. key.depth \in Nat /\ Depth = 1..MAX_DEPTH /\ MAX_DEPTH \in Nat /\ key.depth <= MAX_DEPTH
  BY Constants DEF Prefix, Depth
<1>2. DepthsBelow(K, key) = DepthsOf(K, ip)
  <2>1. ASSUME NEW d \in DepthsBelow(K, key) PROVE d \in DepthsOf(K, ip)
    <3>1. d \in 1..(key.depth - 1) /\ Under(ip, d) \in K
      BY DEF DepthsBelow
    <3>2. d \in Depth
      BY <1>1, <3>1
    <3> QED BY <3>1, <3>2 DEF DepthsOf
  <2>2. ASSUME NEW d \in DepthsOf(K, ip) PROVE d \in DepthsBelow(K, key)
    <3>1. d \in Depth /\ d < key.depth /\ Under(key.ip, d) \in K
      BY DEF DepthsOf
    <3>2. d \in 1..(key.depth - 1)
      BY <1>1, <3>1
    <3> QED BY <3>1, <3>2 DEF DepthsBelow
  <2> QED BY <2>1, <2>2
<1> QED BY <1>2 DEF Replaces, Expands

\* For an address that the key matches they are the shorter ones.
LEMMA ReplacementOfMatch ==
  ASSUME NEW key \in Prefix, NEW e, NEW R, NEW K, Replaces(e, R, K, key),
         NEW ip \in Address, Under(ip, key.depth) = key,
         \A d \in DepthsOf(K, ip) : d < key.depth
  PROVE  Expands(e, R, K, ip)
<1>1. \A d \in 0..MAX_DEPTH : d <= key.depth => Under(ip, d) = Under(key.ip, d)
  <2> TAKE d \in 0..MAX_DEPTH
  <2> HAVE d <= key.depth
  <2>1. key.depth \in 0..MAX_DEPTH /\ key.ip = ip6_mask_addr(ip, key.depth)
    BY Constants DEF Under, Prefix, Depth
  <2>2. ip6_mask_addr(key.ip, d) = ip6_mask_addr(ip, d)
    BY <2>1, MaskOfMask
  <2> QED BY <2>2 DEF Under
<1>2. key.depth \in Nat /\ Depth = 1..MAX_DEPTH /\ MAX_DEPTH \in Nat /\ key.depth <= MAX_DEPTH
  BY Constants DEF Prefix, Depth
<1>3. ASSUME NEW d \in DepthsOf(K, ip)
      PROVE  Under(ip, d) = Under(key.ip, d)
  <2>1. d \in Depth /\ d < key.depth
    BY DEF DepthsOf
  <2>2. d \in 0..MAX_DEPTH /\ d <= key.depth
    BY <1>2, <2>1
  <2> QED BY <1>1, <2>2
<1>4. ASSUME NEW d \in DepthsBelow(K, key)
      PROVE  Under(ip, d) = Under(key.ip, d)
  <2>1. d \in 0..MAX_DEPTH /\ d <= key.depth
    BY <1>2 DEF DepthsBelow
  <2> QED BY <1>1, <2>1
<1> QED BY <1>3, <1>4, ReplacementExpands

-----------------------------------------------------------------------------
(* What expanding a rule does to lookups *)

\* U is what the tables are once a rule has been written over the cells whose
\* entries are in H, from the table where it ends.
Rewritten(U, key, t, H, new) ==
  /\ key \in Prefix /\ ip6_mask_addr(key.ip, key.depth) = key.ip
  /\ t \in Live /\ t = Walk(key.ip)[LevelOf(key.depth)]
  /\ H \in SUBSET Entry /\ \A e \in H : ~e.ext_entry
  /\ new \in Entry /\ ~new.ext_entry
  /\ U = WriteRule(t, RuleRange(key, LevelOf(key.depth)),
                   {j \in RuleRange(key, LevelOf(key.depth)) : tbl[t][j] \in H},
                   key.depth, new)

LEMMA WriteRuleEnds ==
  ASSUME IndInv, LinksKept, NEW U, NEW key, NEW t, NEW H, NEW new,
         Rewritten(U, key, t, H, new), NEW ip \in Address
  PROVE  /\ Under(ip, key.depth) # key => EndIn(U, ip) = EndIn(tbl, ip)
         /\ Under(ip, key.depth) = key =>
              /\ EndIn(tbl, ip) \in H /\ Yields(EndIn(tbl, ip), key.depth) =>
                   EndIn(U, ip) = new
              /\ EndIn(tbl, ip) \notin H /\ ~Yields(EndIn(tbl, ip), key.depth) =>
                   EndIn(U, ip) = EndIn(tbl, ip)
<1> DEFINE L == LevelOf(key.depth)
           hit == {j \in RuleRange(key, L) : tbl[t][j] \in H}
<1> USE DEF Rewritten
<1> DEFINE cells == RuleRange(key, L)
           below == Subtree(LinkedFrom(t, cells))
           Match == ip6_mask_addr(ip, key.depth) = key.ip
<1>1. /\ TablesOK(tbl) /\ L \in Levels /\ key.ip \in Address /\ t \in Tables
      /\ t = TBL24_IND <=> L = ADD_FIRST_BYTE
  <2>1. TablesOK(tbl)
    BY TablesShaped
  <2>2. L \in Levels /\ key.ip \in Address
    BY LevelOfIs DEF Prefix
  <2> QED BY <2>1, <2>2, LiveTables, WalkIsLive
<1>2. TablesOK(U)
  BY <1>1, WriteRuleType
<1>3. cells \in SUBSET Slots(t)
  BY <1>1, RangeInSlots
<1>4. \A u \in Tables : \A j \in Slots(u) :
        U[u][j] = IF (u = t /\ j \in hit) \/ (u \in below /\ Yields(tbl[u][j], key.depth))
                  THEN new ELSE tbl[u][j]
  BY DEF WriteRule
<1>5. Match <=> Under(ip, key.depth) = key
  BY DEF Under, Prefix
<1>6. Match <=> Walk(ip)[L] = t /\ get_bitshift(ip, L) \in cells
  BY RangeIsReached
<1>7. PICK n \in Levels :
        /\ EndsAt(tbl, ip, n) /\ Walk(ip)[n] \in Tables
        /\ get_bitshift(ip, n) \in Slots(Walk(ip)[n])
        /\ EndIn(tbl, ip) = tbl[Walk(ip)[n]][get_bitshift(ip, n)]
  BY <1>1, EndExists DEF Walk
<1> DEFINE w == Walk(ip)[n]
           j == get_bitshift(ip, n)
           e == tbl[w][j]
<1>8. w \in Live
  BY <1>7, WalkIsLive, LiveTables
<1>9. w \in below <=> L < n /\ Walk(ip)[L] = t /\ get_bitshift(ip, L) \in cells
  BY <1>1, <1>3, <1>8, BelowEntries
<1>10. w = t => n = L
  BY <1>1, SameTableSameNode
<1>11. Match => n = L \/ L < n
  <2> SUFFICES ASSUME Match, n < L PROVE FALSE
    BY <1>1, LevelRange
  <2>1. n + 1 \in Levels /\ n + 1 <= L /\ n # IPV6_ADDR_SIZE
    BY <1>1, LevelRange
  <2>2. Walk(ip)[n + 1] = NO_TABLE
    BY <1>7, <2>1 DEF EndsAt, Walk
  <2>3. Walk(ip)[L] # NO_TABLE
    BY <1>1, <1>6, LiveTables
  <2> QED BY <1>1, <2>1, <2>2, <2>3, WalkStops DEF Walk
<1>12. \A u \in Tables : \A i \in Slots(u) :
         IsLink(U[u][i]) \/ IsLink(tbl[u][i]) => U[u][i] = tbl[u][i]
  <2> TAKE u \in Tables
  <2> TAKE i \in Slots(u)
  <2> HIDE DEF below, cells, L
  <2>1. ~IsLink(new)
    BY DEF IsLink
  <2>2. u = t /\ i \in hit => ~IsLink(tbl[u][i])
    BY DEF IsLink
  <2>3. Yields(tbl[u][i], key.depth) => ~IsLink(tbl[u][i])
    BY DEF IsLink, Yields
  <2> HIDE DEF hit, Rewritten
  <2> QED BY <1>4, <2>1, <2>2, <2>3
<1>13. EndIn(U, ip) = U[w][j] /\ EndIn(tbl, ip) = e
  <2> HIDE DEF Rewritten, cells, below, hit, Match, L
  <2>1. EndIn(U, ip) = U[WalkIn(tbl, ip)[n]][get_bitshift(ip, n)]
    BY <1>1, <1>2, <1>7, <1>12, EndWithSameLinks
  <2> QED BY <1>7, <2>1 DEF Walk
<1>14. U[w][j] = IF (w = t /\ j \in hit) \/ (w \in below /\ Yields(e, key.depth))
                 THEN new ELSE e
  BY <1>4, <1>7
<1>15. j \in hit => j \in cells
  OBVIOUS
<1>16. w = t /\ j \in cells => (j \in hit <=> e \in H)
  OBVIOUS
<1>17. ~(L < L)
  BY <1>1, LevelRange
<1>18. n = L => w = Walk(ip)[L] /\ j = get_bitshift(ip, L)
  OBVIOUS
<1> HIDE DEF w, j, e, hit, below, cells, Match, L, Rewritten
<1> QED BY <1>5, <1>6, <1>9, <1>10, <1>11, <1>13, <1>14, <1>15, <1>16, <1>17, <1>18

-----------------------------------------------------------------------------
(* The tables expand the rules *)

\* A lookup ends at what the inserted rules make of the address.
Exact(ip) == Expands(EndIn(tbl, ip), rules, Inserted, ip)

\* The rule of the running call is the longest that matches the address.
Longest(ip) ==
  /\ Under(ip, op.key.depth) = op.key
  /\ \A d \in DepthsOf(Inserted, ip) : d <= op.key.depth

KeysMasked == \A k \in DOMAIN rules : ip6_mask_addr(k.ip, k.depth) = k.ip

Rested == op.pc \in {"idle", "rebuild"} => \A ip \in Address : Exact(ip)

\* Where the rule being inserted is the longest, lookups end at what it will
\* replace.
Adding ==
  op.pc = "add" =>
    /\ op.key \in Inserted /\ op.entry = Leaf(rules[op.key], op.key.depth)
    /\ \A ip \in Address :
         IF Longest(ip) THEN Yields(EndIn(tbl, ip), op.key.depth) ELSE Exact(ip)

\* Where the deleted rule would be the longest, lookups still end at it.
Deleting ==
  op.pc \in {"unref", "clear"} =>
    /\ op.key \notin DOMAIN rules
    /\ ip6_mask_addr(op.key.ip, op.key.depth) = op.key.ip
    /\ Replaces(op.entry, rules, DOMAIN rules, op.key)
    /\ op.level = LevelOf(op.key.depth)
    /\ op.pc = "clear" => op.cur = Walk(op.key.ip)[op.level]
    /\ \A ip \in Address :
         IF Longest(ip)
         THEN EndIn(tbl, ip).valid /\ BelongsTo(EndIn(tbl, ip), op.key.depth)
         ELSE Exact(ip)

\* Lookups that go through a group about to be unlinked will end at the entry
\* that takes the place of its link, and that is what the rules make of them.
Unlinking ==
  op.pc = "unlink" =>
    \A ip \in Address :
      /\ ~IsLink(EndIn(tbl, ip))
      /\ IF \E n \in Levels : Walk(ip)[n] \in Leaving
         THEN Expands(op.entry, rules, DOMAIN rules, ip)
         ELSE Exact(ip)

ExpandInv == KeysMasked /\ Rested /\ Adding /\ Deleting /\ Unlinking

-----------------------------------------------------------------------------
(* Steps of insertions *)

LEMMA QuietKeepsExpanded ==
  ASSUME ExpandInv, UNCHANGED <<rules, tables, op>>
  PROVE  ExpandInv'
<1>1. /\ rules' = rules /\ tbl' = tbl /\ op' = op /\ Inserted' = Inserted
      /\ Leaving' = Leaving /\ (DOMAIN rules)' = DOMAIN rules
      /\ \A ip : Walk(ip)' = Walk(ip)
  BY DEF tables, Inserted, Leaving, Walk
<1>2. \A ip : (Exact(ip)' <=> Exact(ip)) /\ (Longest(ip)' <=> Longest(ip))
  BY <1>1 DEF Exact, Longest
<1>4. KeysMasked' /\ Rested' /\ Adding'
  BY <1>1, <1>2 DEF ExpandInv, KeysMasked, Rested, Adding
<1>5. Deleting'
  BY <1>1, <1>2 DEF ExpandInv, Deleting
<1>6. Unlinking'
  BY <1>1, <1>2 DEF ExpandInv, Unlinking
<1> QED BY <1>4, <1>5, <1>6 DEF ExpandInv

\* The tables of a running insertion may change as long as lookups end at the
\* same entries, or entries that are as good.
LEMMA InsertingKeepsExpanded ==
  ASSUME ExpandInv, op \in Call, op.pc = "add", rules' = rules,
         op'.pc = "add", op'.key = op.key, op'.entry = op.entry, op'.todo = op.todo,
         \A ip \in Address : EndIn(tbl', ip) = PushedDown(EndIn(tbl, ip))
                             \/ EndIn(tbl', ip) = EndIn(tbl, ip)
  PROVE  ExpandInv'
<1>1. Inserted' = Inserted
  BY DEF Inserted
<1>2. \A ip : Longest(ip)' <=> Longest(ip)
  BY <1>1 DEF Longest
<1>3. ASSUME NEW ip \in Address, Exact(ip) PROVE Exact(ip)'
  <2>1. Expands(EndIn(tbl, ip), rules, Inserted, ip)
    BY <1>3 DEF Exact
  <2>2. EndIn(tbl, ip) = Invalid \/ EndIn(tbl, ip).valid
    BY <2>1 DEF Expands, Leaf
  <2>3. EndIn(tbl', ip) = EndIn(tbl, ip)
    BY <2>2 DEF PushedDown
  <2> QED BY <1>1, <2>1, <2>3 DEF Exact
<1>4. ASSUME NEW ip \in Address, Yields(EndIn(tbl, ip), op.key.depth)
      PROVE  Yields(EndIn(tbl', ip), op.key.depth)
  <2>1. CASE EndIn(tbl', ip) = EndIn(tbl, ip)
    BY <1>4, <2>1
  <2>2. CASE EndIn(tbl', ip) = PushedDown(EndIn(tbl, ip))
    BY <1>4, <2>2 DEF Yields, PushedDown, Invalid
  <2> QED BY <2>1, <2>2
<1>5. Adding'
  <2>1. /\ op.key \in Inserted /\ op.entry = Leaf(rules[op.key], op.key.depth)
        /\ \A ip \in Address :
             IF Longest(ip) THEN Yields(EndIn(tbl, ip), op.key.depth) ELSE Exact(ip)
    BY DEF ExpandInv, Adding
  <2> QED BY <1>1, <1>2, <1>3, <1>4, <2>1 DEF Adding
<1>6. KeysMasked'
  BY DEF ExpandInv, KeysMasked
<1> QED BY <1>5, <1>6 DEF ExpandInv, Rested, Deleting, Unlinking

LEMMA AddStepDescendKeepsExpanded ==
  ASSUME IndInv, ExpandInv, AddStepDescend
  PROVE  ExpandInv'
<1>1. op \in Call
  BY AddingTypes
<1>2. /\ op.pc = "add" /\ rules' = rules /\ tbl' = tbl
      /\ op'.pc = "add" /\ op'.key = op.key /\ op'.entry = op.entry /\ op'.todo = op.todo
  BY <1>1 DEF AddStepDescend, Descend, tables, Call
<1> QED BY <1>1, <1>2, InsertingKeepsExpanded

\* The way of a lookup through the entry that becomes a link goes on into the
\* new group, and ends at a copy of the entry.
LEMMA NewTableEnds ==
  ASSUME GroupsFit, LinksInv, IndInv', AddOnWalk, AddStepNewTable, NEW ip \in Address
  PROVE  EndIn(tbl', ip) = PushedDown(EndIn(tbl, ip)) \/ EndIn(tbl', ip) = EndIn(tbl, ip)
<1> DEFINE g == tbl8_get
           c == op.cur
           s == AddSlot
           L == op.level
           kp == op.key.ip
<1>1. /\ c \in Live /\ c \in Tables /\ c # g /\ s \in Slots(c) /\ ~IsLink(AddEntry)
      /\ g \in Groups \ Live /\ Link(g).next_hop = g /\ IsLink(Link(g))
      /\ \A u \in Tables \ {g, c} : tbl'[u] = tbl[u]
      /\ \A i \in Slots(c) : tbl'[c][i] = IF i = s THEN Link(g) ELSE tbl[c][i]
      /\ \A i \in Slots(g) : ~IsLink(tbl'[g][i])
  BY NewTableEffect
<1>2. /\ \A n \in Levels : Walk(ip)[n] # NO_TABLE => WalkIn(tbl', ip)[n] = Walk(ip)[n]
      /\ L + 1 \in Levels /\ c = Walk(kp)[L]
  BY NewTableWalks
<1>3. /\ TablesOK(tbl) /\ TablesOK(tbl') /\ IndInv /\ LinksKept
      /\ kp \in Address /\ L \in Levels
  BY AddingTypes DEF LinksInv, IndInv, TypeOK, TablesOK
<1>4. \A i \in Slots(g) : tbl'[g][i] = PushedDown(AddEntry)
  <2>1. tbl' = [[tbl EXCEPT ![g] = [j \in Slots(g) |-> PushedDown(AddEntry)]]
                 EXCEPT ![c][s] = Link(g)]
    BY DEF AddStepNewTable
  <2>2. DOMAIN tbl = Tables /\ g \in Tables
    BY <1>1, <1>3, Constants DEF TablesOK
  <2> HIDE DEF g, c, s
  <2> QED BY <1>1, <2>1, <2>2
<1>5. AddEntry = tbl[c][s] /\ s = get_bitshift(kp, L)
  BY DEF AddEntry, AddSlot
<1> HIDE DEF g, c, s, L, kp
<1>6. PICK n \in Levels :
        /\ EndsAt(tbl, ip, n) /\ Walk(ip)[n] \in Tables
        /\ get_bitshift(ip, n) \in Slots(Walk(ip)[n])
        /\ EndIn(tbl, ip) = tbl[Walk(ip)[n]][get_bitshift(ip, n)]
  BY <1>3, EndExists DEF Walk
<1>7. CASE Walk(ip)[L] = c /\ get_bitshift(ip, L) = s
  <2>1. EndIn(tbl, ip) = AddEntry
    <3>1. Walk(ip)[L] # NO_TABLE
      BY <1>1, <1>7, LiveTables
    <3> QED BY <1>1, <1>3, <1>5, <1>7, <3>1, EndsAtLeaf DEF Walk
  <2> DEFINE k == L + 1
  <2>2. k \in Levels \ {ADD_FIRST_BYTE} /\ k - 1 = L
    BY <1>2, <1>3, LevelRange
  <2> HIDE DEF k
  <2>3. WalkIn(tbl', ip)[k] = g
    <3>1. WalkIn(tbl', ip)[k] = BelowIn(tbl', WalkIn(tbl', ip)[k - 1], ip, k)
      BY <1>3, <2>2, WalkInUnfolds
    <3>2. WalkIn(tbl', ip)[L] = c /\ c # NO_TABLE
      BY <1>1, <1>2, <1>3, <1>7, LiveTables
    <3>3. tbl'[c][s] = Link(g)
      BY <1>1
    <3> QED BY <1>1, <1>7, <2>2, <3>1, <3>2, <3>3 DEF BelowIn
  <2>4. get_bitshift(ip, k) \in Slots(g) /\ g # NO_TABLE
    <3>1. g \in Tables /\ g # TBL24_IND
      BY <1>1, Constants
    <3> QED BY <2>2, <3>1, SlotOfAddress, LiveTables
  <2>5. EndIn(tbl', ip) = tbl'[g][get_bitshift(ip, k)]
    BY <1>1, <1>3, <2>2, <2>3, <2>4, EndsAtLeaf
  <2> QED BY <1>4, <2>1, <2>4, <2>5
<1>8. CASE ~(Walk(ip)[L] = c /\ get_bitshift(ip, L) = s)
  <2> DEFINE w == Walk(ip)[n]
             j == get_bitshift(ip, n)
  <2>1. w \in Live /\ w # NO_TABLE
    BY <1>3, <1>6, WalkIsLive, LiveTables
  <2>2. w = c => n = L
    BY <1>2, <1>3, <2>1, SameTableSameNode
  <2>3. tbl'[w][j] = tbl[w][j]
    <3>1. ~(w = c /\ j = s)
      BY <1>8, <2>2
    <3>2. w # g /\ w \in Tables /\ j \in Slots(w)
      BY <1>1, <1>6, <2>1
    <3> HIDE DEF w, j
    <3> QED BY <1>1, <3>1, <3>2
  <2>4. WalkIn(tbl', ip)[n] = w
    BY <1>2, <2>1
  <2>5. CASE n # IPV6_ADDR_SIZE
    <3>1. ~IsLink(tbl[w][j])
      BY <1>3, <1>6, <2>5, EndNoLink DEF Walk
    <3> QED BY <1>3, <1>6, <2>1, <2>3, <2>4, <3>1, EndsAtLeaf
  <2>6. CASE n = IPV6_ADDR_SIZE
    <3>1. EndsAt(tbl', ip, n)
      BY <2>1, <2>4, <2>6 DEF EndsAt
    <3> QED BY <1>3, <1>6, <2>3, <2>4, <3>1, EndIs
  <2> QED BY <2>5, <2>6
<1> QED BY <1>7, <1>8

LEMMA AddStepNewTableKeepsExpanded ==
  ASSUME GroupsFit, AdmitInv, IndInv', ExpandInv, AddStepNewTable
  PROVE  ExpandInv'
<1>1. op \in Call /\ LinksInv /\ AddOnWalk
  BY AddingTypes DEF AdmitInv, LinksInv
<1>2. /\ op.pc = "add" /\ rules' = rules
      /\ op'.pc = "add" /\ op'.key = op.key /\ op'.entry = op.entry /\ op'.todo = op.todo
  BY <1>1 DEF AddStepNewTable, Descend, Call
<1>3. \A ip \in Address : EndIn(tbl', ip) = PushedDown(EndIn(tbl, ip))
                          \/ EndIn(tbl', ip) = EndIn(tbl, ip)
  BY <1>1, NewTableEnds
<1> QED BY <1>1, <1>2, <1>3, InsertingKeepsExpanded

\* An insertion starts: where its rule is the longest, what there is yields.
LEMMA StartKeepsExpanded ==
  ASSUME ExpandInv, op.pc \in {"idle", "rebuild"}, tbl' = tbl,
         NEW key \in Prefix, ip6_mask_addr(key.ip, key.depth) = key.ip,
         NEW fresh, NEW todo, StartAdd(key, rules'[key], fresh, todo),
         Inserted' = Inserted \cup {key}, DOMAIN rules' = DOMAIN rules \cup {key},
         \A k \in Inserted \ {key} : rules'[k] = rules[k]
  PROVE  ExpandInv'
<1>1. /\ op'.pc = "add" /\ op'.key = key
      /\ op'.entry = Leaf(rules'[key], key.depth)
  BY DEF StartAdd, Idle
<1>2. KeysMasked'
  BY DEF ExpandInv, KeysMasked
<1>3. \A ip \in Address : Expands(EndIn(tbl, ip), rules, Inserted, ip)
  BY DEF ExpandInv, Rested, Exact
<1>4. key.depth \in Depth /\ key \in Inserted'
  BY DEF Prefix
<1>5. ASSUME NEW ip \in Address, Longest(ip)'
      PROVE  Yields(EndIn(tbl', ip), key.depth)
  <2>1. \A d \in DepthsOf(Inserted, ip) : d <= key.depth
    BY <1>1, <1>5 DEF Longest, DepthsOf
  <2> QED BY <1>3, <1>4, <2>1, ExpandedEntry
<1>6. ASSUME NEW ip \in Address, ~Longest(ip)'
      PROVE  Exact(ip)'
  <2>1. Under(ip, key.depth) # key
        \/ \E d \in DepthsOf(Inserted', ip) : ~(d <= key.depth)
    BY <1>1, <1>6 DEF Longest
  <2>2. DepthsOf(Inserted', ip) \subseteq Nat /\ key.depth \in Nat
    BY <1>4, Constants DEF DepthsOf
  <2>3. Under(ip, key.depth) # key \/ \E d \in DepthsOf(Inserted', ip) : d > key.depth
    BY <2>1, <2>2
  <2>4. Inserted' \ {key} = Inserted \ {key}
    OBVIOUS
  <2>5. Expands(EndIn(tbl, ip), rules', Inserted', ip)
    BY <1>3, <1>4, <2>3, <2>4, OthersExpand
  <2> QED BY <2>5 DEF Exact
<1>7. Adding'
  BY <1>1, <1>4, <1>5, <1>6 DEF Adding
<1> QED BY <1>1, <1>2, <1>7 DEF ExpandInv, Rested, Deleting, Unlinking

LEMMA AddKeepsExpanded ==
  ASSUME IndInv, ExpandInv, NEW r \in Routes, NEW hop \in NextHops, Add(r, hop)
  PROVE  ExpandInv'
<1> DEFINE key == Masked(r)
<1>1. /\ op.pc = "idle" /\ r.depth \in Depth /\ r.ip \in Address
      /\ rules' = WithRule(rules, key, hop) /\ UNCHANGED tables
      /\ StartAdd(key, hop, key \notin DOMAIN rules, {})
  BY CreateAssumption DEF Add
<1>2. key \in Prefix
  BY <1>1, MaskedPrefix
<1>3. ip6_mask_addr(key.ip, key.depth) = key.ip
  <2>1. r.depth \in 0..MAX_DEPTH /\ r.depth <= r.depth
    BY <1>1, Constants DEF Depth
  <2> QED BY <1>1, <2>1, MaskOfMask DEF Masked
<1> HIDE DEF key
<1>4. /\ DOMAIN rules' = DOMAIN rules \cup {key} /\ rules'[key] = hop
      /\ \A k \in DOMAIN rules \ {key} : rules'[k] = rules[k]
  BY <1>1 DEF WithRule
<1>5. Inserted = DOMAIN rules
  BY <1>1, IdleIsAllInserted
<1>6. op'.todo = {}
  BY <1>1 DEF StartAdd, Idle
<1>7. Inserted' = Inserted \cup {key} /\ tbl' = tbl
  BY <1>1, <1>4, <1>5, <1>6 DEF Inserted, tables
<1> QED BY <1>1, <1>2, <1>3, <1>4, <1>5, <1>7, StartKeepsExpanded

LEMMA RebuildKeepsExpanded ==
  ASSUME IndInv, ExpandInv, NEW key, Rebuild(key)
  PROVE  ExpandInv'
<1>1. /\ op.pc = "rebuild" /\ key \in op.todo /\ rules' = rules /\ tbl' = tbl
      /\ StartAdd(key, rules'[key], FALSE, op.todo \ {key}) /\ op'.todo = op.todo \ {key}
  BY DEF Rebuild, StartAdd, Idle, tables
<1>2. key \in DOMAIN rules /\ key \in Prefix
  BY <1>1, RuleTypes
<1>3. ip6_mask_addr(key.ip, key.depth) = key.ip
  BY <1>2 DEF ExpandInv, KeysMasked
<1>4. Inserted' = Inserted \cup {key} /\ DOMAIN rules' = DOMAIN rules \cup {key}
  BY <1>1, <1>2 DEF Inserted
<1> QED BY <1>1, <1>2, <1>3, <1>4, StartKeepsExpanded

\* The last step writes the rule wherever it is the longest.
LEMMA AddStepLastKeepsExpanded ==
  ASSUME AdmitInv, IndInv', ExpandInv, AddStepLast
  PROVE  ExpandInv'
<1> DEFINE key == op.key
           L == op.level
           H == {e \in Entry : Yields(e, key.depth)}
<1>1. /\ IndInv /\ LinksKept /\ op \in Call /\ key \in Prefix /\ key.depth \in Depth
      /\ op.entry \in Entry /\ op.level \in Levels
  BY AddingTypes DEF AdmitInv, LinksInv, Call
<1>2. op.pc = "add" /\ ~Deeper /\ rules' = rules /\ op'.pc \in {"idle", "rebuild"}
      /\ op'.todo = op.todo
  <2>1. CASE op.todo = {}
    BY <2>1 DEF AddStepLast, Idle
  <2>2. CASE op.todo # {}
    <3>1. op' = [Idle EXCEPT !.pc = "rebuild", !.todo = op.todo]
      BY <2>2 DEF AddStepLast
    <3> QED BY <3>1 DEF AddStepLast, Idle
  <2> QED BY <2>1, <2>2
<1>3. /\ op.cur \in Live /\ ~op.entry.ext_entry
      /\ op.cur = Walk(key.ip)[L] /\ L <= LevelOf(key.depth)
  BY <1>2 DEF AdmitInv, LinksInv, CallLinks, AddOnWalk
<1>4. L = LevelOf(key.depth)
  <2>1. ~(L < LevelOf(key.depth))
    BY <1>1, <1>2, DeeperIsAbove DEF Deeper
  <2> QED BY <1>1, <1>3, <2>1, LevelOfIs, LevelRange
<1>5. /\ key \in Inserted /\ op.entry = Leaf(rules[key], key.depth)
      /\ \A ip \in Address :
           IF Longest(ip) THEN Yields(EndIn(tbl, ip), key.depth) ELSE Exact(ip)
  BY <1>2 DEF ExpandInv, Adding
<1>6. ip6_mask_addr(key.ip, key.depth) = key.ip
  BY <1>5 DEF ExpandInv, KeysMasked, Inserted
<1>7. RuleRange(key, L) \subseteq Slots(op.cur) /\ TablesOK(tbl)
  <2>1. op.cur \in Tables /\ (op.cur = TBL24_IND <=> L = ADD_FIRST_BYTE)
    BY <1>1, <1>3, LiveTables, WalkIsLive DEF Prefix
  <2> QED BY <1>1, <1>4, <1>6, <2>1, RangeInSlots, TablesShaped
<1>8. tbl' = WriteRule(op.cur, RuleRange(key, L),
                       {j \in RuleRange(key, L) : tbl[op.cur][j] \in H},
                       key.depth, op.entry)
  <2>1. op.cur \in Tables
    BY <1>3, LiveTables
  <2>2. \A j \in RuleRange(key, L) : tbl[op.cur][j] \in Entry
    BY <1>7, <2>1 DEF TablesOK
  <2>3. {j \in RuleRange(key, L) : tbl[op.cur][j] \in H}
        = {j \in RuleRange(key, L) : Yields(tbl[op.cur][j], key.depth)}
    BY <2>2
  <2> HIDE DEF H
  <2> QED BY <2>3 DEF AddStepLast
<1>9. \A e \in H : ~e.ext_entry
  BY DEF H, Yields, Entry
<1>10. Inserted' = Inserted
  BY <1>2 DEF Inserted
<1>11. ASSUME NEW ip \in Address PROVE Exact(ip)'
  <2>1. EndIn(tbl, ip) \in Entry
    BY <1>7, EndExists
  <2>2. H \in SUBSET Entry
    OBVIOUS
  <2>3. EndIn(tbl, ip) \in H <=> Yields(EndIn(tbl, ip), key.depth)
    BY <2>1
  <2> HIDE DEF H
  <2>4. /\ Under(ip, key.depth) # key => EndIn(tbl', ip) = EndIn(tbl, ip)
        /\ Under(ip, key.depth) = key =>
             EndIn(tbl', ip) = IF Yields(EndIn(tbl, ip), key.depth)
                               THEN op.entry ELSE EndIn(tbl, ip)
    <3>1. Rewritten(tbl', key, op.cur, H, op.entry)
      BY <1>1, <1>3, <1>4, <1>6, <1>8, <1>9, <2>2 DEF Rewritten
    <3> HIDE DEF key
    <3> QED BY <1>1, <2>3, <3>1, WriteRuleEnds
  <2>5. CASE Longest(ip)
    <3>1. EndIn(tbl', ip) = Leaf(rules[key], key.depth)
      BY <1>5, <2>4, <2>5 DEF Longest
    <3>2. Expands(EndIn(tbl', ip), rules, Inserted, ip)
      BY <1>1, <1>5, <2>5, <3>1, LongestExpands DEF Longest
    <3> QED BY <1>2, <1>10, <3>2 DEF Exact
  <2>6. CASE ~Longest(ip)
    <3>1. Expands(EndIn(tbl, ip), rules, Inserted, ip)
      BY <1>5, <2>6 DEF Exact
    <3>2. EndIn(tbl', ip) = EndIn(tbl, ip)
      <4>1. CASE Under(ip, key.depth) # key
        BY <2>4, <4>1
      <4>2. CASE Under(ip, key.depth) = key
        <5>1. \E d \in DepthsOf(Inserted, ip) : ~(d <= key.depth)
          BY <2>6, <4>2 DEF Longest
        <5>2. DepthsOf(Inserted, ip) \subseteq Nat /\ key.depth \in Nat
          BY <1>1, Constants DEF DepthsOf
        <5>3. \E d \in DepthsOf(Inserted, ip) : d > key.depth
          BY <5>1, <5>2
        <5>4. ~Yields(EndIn(tbl, ip), key.depth)
          BY <1>1, <3>1, <5>3, ExpandedEntry
        <5> QED BY <2>4, <4>2, <5>4
      <4> QED BY <4>1, <4>2
    <3> QED BY <1>2, <1>10, <3>1, <3>2 DEF Exact
  <2> QED BY <2>5, <2>6
<1>12. KeysMasked'
  BY <1>2 DEF ExpandInv, KeysMasked
<1>13. Rested'
  BY <1>11 DEF Rested
<1> QED BY <1>2, <1>12, <1>13 DEF ExpandInv, Adding, Deleting, Unlinking

-----------------------------------------------------------------------------
(* Empty tables *)

LEMMA EmptyExpands ==
  ASSUME NEW ip \in Address, NEW R, NEW T, T = ZeroTables
  PROVE  Expands(EndIn(T, ip), R, {}, ip)
<1>1. TablesOK(T)
  BY ZeroTablesType
<1>2. PICK n \in Levels : /\ WalkIn(T, ip)[n] \in Tables
                          /\ get_bitshift(ip, n) \in Slots(WalkIn(T, ip)[n])
                          /\ EndIn(T, ip) = T[WalkIn(T, ip)[n]][get_bitshift(ip, n)]
  BY <1>1, EndExists
<1>3. EndIn(T, ip) = Invalid
  BY <1>2 DEF ZeroTables
<1>4. DepthsOf({}, ip) = {}
  BY DEF DepthsOf
<1> QED BY <1>3, <1>4 DEF Expands

LEMMA CreateExpands == Create => ExpandInv
<1> SUFFICES ASSUME Create PROVE ExpandInv
  OBVIOUS
<1>1. op.pc = "idle" /\ DOMAIN rules = {} /\ Inserted = {} /\ tbl = ZeroTables
  BY DEF Create, Idle, NoRules, Inserted
<1>2. \A ip \in Address : Exact(ip)
  BY <1>1, EmptyExpands DEF Exact
<1> QED BY <1>1, <1>2 DEF ExpandInv, KeysMasked, Rested, Adding, Deleting, Unlinking

LEMMA DeleteManyKeepsExpanded ==
  ASSUME IndInv, ExpandInv, NEW keys, DeleteAll \/ DeleteBulk(keys)
  PROVE  ExpandInv'
<1>1. op.pc = "idle" /\ tbl' = ZeroTables
  BY DEF DeleteAll, DeleteBulk, ResetTables
<1>2. DOMAIN rules' \subseteq DOMAIN rules
  BY DEF DeleteAll, DeleteBulk, NoRules, WithoutRules
<1>3. op'.pc \in {"idle", "rebuild"} /\ Inserted' = {}
  <2>1. CASE DeleteAll
    <3>1. DOMAIN rules' = {} /\ op' = op
      BY <2>1 DEF DeleteAll, NoRules
    <3> QED BY <1>1, <3>1 DEF Inserted
  <2>2. CASE DeleteBulk(keys) /\ DOMAIN rules \ keys = {}
    <3>1. DOMAIN rules' = {} /\ op' = op
      BY <2>2 DEF DeleteBulk, WithoutRules
    <3> QED BY <1>1, <3>1 DEF Inserted
  <2>3. CASE DeleteBulk(keys) /\ DOMAIN rules \ keys # {}
    <3> DEFINE left == DOMAIN rules \ keys
    <3>1. op' = [Idle EXCEPT !.pc = "rebuild", !.todo = left]
      BY <2>3 DEF DeleteBulk
    <3>2. DOMAIN rules' = left
      BY <2>3 DEF DeleteBulk, WithoutRules
    <3> HIDE DEF left
    <3>3. op'.pc = "rebuild" /\ op'.todo = left
      BY <3>1 DEF Idle
    <3> QED BY <3>2, <3>3 DEF Inserted
  <2> QED BY <2>1, <2>2, <2>3
<1>4. KeysMasked'
  BY <1>2 DEF ExpandInv, KeysMasked
<1>5. \A ip \in Address : Exact(ip)'
  BY <1>1, <1>3, EmptyExpands DEF Exact
<1> QED BY <1>3, <1>4, <1>5 DEF ExpandInv, Rested, Adding, Deleting, Unlinking

-----------------------------------------------------------------------------
(* Steps of a deletion *)

LEMMA DeleteKeepsExpanded ==
  ASSUME IndInv, ExpandInv, NEW r \in Routes, Delete(r)
  PROVE  ExpandInv'
<1> DEFINE key == Masked(r)
           level == LevelOf(key.depth)
           t == Walk(key.ip)[level]
           J == DOMAIN rules \ {key}
<1>1. /\ op.pc = "idle" /\ key \in DOMAIN rules /\ rules' = WithoutRules(rules, {key})
      /\ tbl' = tbl /\ t \in Tables
      /\ op' = [Idle EXCEPT !.pc = IF t = TBL24_IND THEN "clear" ELSE "unref",
                            !.key = key, !.cur = t, !.level = level,
                            !.entry = rule_find_less_specific(key)]
  BY DEF Delete, tables
<1>2. key \in Prefix /\ key.depth \in Depth /\ Inserted = DOMAIN rules
  BY <1>1, RuleTypes, IdleIsAllInserted DEF Prefix
<1> HIDE DEF key, level, t
<1>3. /\ op'.pc \in {"clear", "unref"} /\ op'.key = key /\ op'.cur = t /\ op'.todo = {}
      /\ op'.level = level /\ op'.entry = rule_find_less_specific(key)
  BY <1>1 DEF Idle
<1>4. /\ DOMAIN rules' = J /\ Inserted' = J /\ key \notin J
      /\ \A k \in J : rules'[k] = rules[k]
  BY <1>1, <1>3 DEF WithoutRules, Inserted
<1>5. KeysMasked' /\ ip6_mask_addr(key.ip, key.depth) = key.ip
  BY <1>1, <1>4 DEF ExpandInv, KeysMasked
<1>6. \A ip \in Address : Expands(EndIn(tbl, ip), rules, DOMAIN rules, ip)
  BY <1>1, <1>2 DEF ExpandInv, Rested, Exact
<1>7. Replaces(op'.entry, rules', J, key)
  <2>1. Replaces(op'.entry, rules, DOMAIN rules, key)
    BY <1>2, <1>3, LessSpecificReplaces
  <2>2. ASSUME NEW d \in 1..(key.depth - 1)
        PROVE  Under(key.ip, d) # key
    <3>1. d # key.depth
      BY <1>2, Constants
    <3> QED BY <3>1 DEF Under
  <2>3. DepthsBelow(J, key) = DepthsBelow(DOMAIN rules, key)
    BY <2>2 DEF DepthsBelow
  <2>4. \A d \in DepthsBelow(J, key) : rules'[Under(key.ip, d)] = rules[Under(key.ip, d)]
    BY <1>4 DEF DepthsBelow
  <2> HIDE DEF J
  <2> QED BY <2>1, <2>3, <2>4 DEF Replaces
<1>8. ASSUME NEW ip \in Address, Longest(ip)'
      PROVE  EndIn(tbl, ip).valid /\ BelongsTo(EndIn(tbl, ip), key.depth)
  <2>1. Under(ip, key.depth) = key /\ \A d \in DepthsOf(J, ip) : d <= key.depth
    BY <1>3, <1>4, <1>8 DEF Longest
  <2>2. \A d \in DepthsOf(DOMAIN rules, ip) : d <= key.depth
    <3> TAKE d \in DepthsOf(DOMAIN rules, ip)
    <3>1. CASE Under(ip, d) = key
      <4>1. d = key.depth /\ key.depth \in Nat
        BY <1>2, <3>1, Constants DEF Under
      <4> QED BY <4>1
    <3>2. CASE Under(ip, d) # key
      BY <2>1, <3>2 DEF DepthsOf
    <3> QED BY <3>1, <3>2
  <2>3. EndIn(tbl, ip) = Leaf(rules[key], key.depth)
    BY <1>1, <1>2, <1>6, <2>1, <2>2, LongestExpands
  <2> QED BY <2>3 DEF Leaf, BelongsTo
<1>9. ASSUME NEW ip \in Address, ~Longest(ip)'
      PROVE  Exact(ip)'
  <2>1. Under(ip, key.depth) # key \/ \E d \in DepthsOf(J, ip) : ~(d <= key.depth)
    BY <1>3, <1>4, <1>9 DEF Longest
  <2>2. DepthsOf(J, ip) \subseteq Nat /\ key.depth \in Nat
    BY <1>2, Constants DEF DepthsOf
  <2>3. Under(ip, key.depth) # key \/ \E d \in DepthsOf(J, ip) : d > key.depth
    BY <2>1, <2>2
  <2>4. J \ {key} = DOMAIN rules \ {key} /\ \A k \in DOMAIN rules \ {key} : rules[k] = rules'[k]
    BY <1>4
  <2> HIDE DEF J
  <2>5. Expands(EndIn(tbl, ip), rules', J, ip)
    BY <1>2, <1>6, <2>3, <2>4, OthersExpand
  <2> QED BY <1>1, <1>4, <2>5 DEF Exact
<1>10. Deleting'
  <2>1. (op.cur = Walk(op.key.ip)[op.level])'
    <3>1. op'.cur = WalkIn(tbl', op'.key.ip)[op'.level]
      BY <1>1, <1>3 DEF Walk, t
    <3> QED BY <3>1 DEF Walk
  <2>2. op'.level = LevelOf(op'.key.depth)
    BY <1>3 DEF level
  <2>3. \A ip \in Address :
          IF Longest(ip)'
          THEN EndIn(tbl', ip).valid /\ BelongsTo(EndIn(tbl', ip), op'.key.depth)
          ELSE Exact(ip)'
    BY <1>1, <1>3, <1>8, <1>9
  <2> QED BY <1>3, <1>4, <1>5, <1>7, <2>1, <2>2, <2>3 DEF Deleting
<1> QED BY <1>3, <1>5, <1>10 DEF ExpandInv, Rested, Adding, Unlinking

\* Where the deleted rule's entries are, the less specific rule takes over.
LEMMA DeleteClearKeepsExpanded ==
  ASSUME SingleInv, IndInv', ExpandInv, DeleteClear
  PROVE  ExpandInv'
<1> DEFINE key == op.key
           L == op.level
           H == {e \in Entry : BelongsTo(e, key.depth)}
<1>1. /\ IndInv /\ LinksKept /\ op \in Call /\ key \in Prefix /\ key.depth \in Depth
      /\ op.entry \in Entry /\ op.level \in Levels /\ op.todo = {}
  BY AddingTypes, SingleTypes DEF Call, SingleInv, SingleCall
<1>2. op.pc = "clear" /\ rules' = rules /\ op'.pc = "idle" /\ op'.todo = {}
  BY DEF DeleteClear, Idle
<1>3. /\ key \notin DOMAIN rules /\ ip6_mask_addr(key.ip, key.depth) = key.ip
      /\ Replaces(op.entry, rules, DOMAIN rules, key)
      /\ L = LevelOf(key.depth) /\ op.cur = Walk(key.ip)[L]
      /\ \A ip \in Address :
           IF Longest(ip)
           THEN EndIn(tbl, ip).valid /\ BelongsTo(EndIn(tbl, ip), key.depth)
           ELSE Exact(ip)
  BY <1>2 DEF ExpandInv, Deleting
<1>4. op.cur \in Live /\ ~op.entry.ext_entry
  <2>1. op.cur \in Tables /\ op.cur # NO_TABLE
    BY <1>1, LiveTables DEF Call
  <2>2. op.cur \in Live
    BY <1>1, <1>3, <2>1, WalkIsLive DEF Prefix
  <2> QED BY <2>2, SingleTypes DEF LinksInv, CallLinks
<1>5. RuleRange(key, L) \subseteq Slots(op.cur) /\ TablesOK(tbl)
  <2>1. op.cur \in Tables /\ (op.cur = TBL24_IND <=> L = ADD_FIRST_BYTE)
    BY <1>1, <1>3, <1>4, LiveTables, WalkIsLive DEF Prefix
  <2> QED BY <1>1, <1>3, <2>1, RangeInSlots, TablesShaped
<1>6. tbl' = WriteRule(op.cur, RuleRange(key, L),
                       {j \in RuleRange(key, L) : tbl[op.cur][j] \in H},
                       key.depth, op.entry)
  <2>1. op.cur \in Tables
    BY <1>4, LiveTables
  <2>2. \A j \in RuleRange(key, L) : tbl[op.cur][j] \in Entry
    BY <1>5, <2>1 DEF TablesOK
  <2>3. {j \in RuleRange(key, L) : tbl[op.cur][j] \in H}
        = {j \in RuleRange(key, L) : BelongsTo(tbl[op.cur][j], key.depth)}
    BY <2>2
  <2> HIDE DEF H
  <2> QED BY <2>3 DEF DeleteClear
<1>7. \A e \in H : ~e.ext_entry
  BY DEF H, BelongsTo
<1>8. Inserted = DOMAIN rules /\ Inserted' = DOMAIN rules
  BY <1>1, <1>2 DEF Inserted
<1>9. ASSUME NEW ip \in Address PROVE Exact(ip)'
  <2>1. EndIn(tbl, ip) \in Entry
    BY <1>5, EndExists
  <2>2. H \in SUBSET Entry
    OBVIOUS
  <2>3. EndIn(tbl, ip) \in H <=> BelongsTo(EndIn(tbl, ip), key.depth)
    BY <2>1
  <2> HIDE DEF H
  <2>4. /\ Under(ip, key.depth) # key => EndIn(tbl', ip) = EndIn(tbl, ip)
        /\ Under(ip, key.depth) = key =>
             /\ BelongsTo(EndIn(tbl, ip), key.depth) /\ Yields(EndIn(tbl, ip), key.depth) =>
                  EndIn(tbl', ip) = op.entry
             /\ ~BelongsTo(EndIn(tbl, ip), key.depth) /\ ~Yields(EndIn(tbl, ip), key.depth) =>
                  EndIn(tbl', ip) = EndIn(tbl, ip)
    <3>1. Rewritten(tbl', key, op.cur, H, op.entry)
      BY <1>1, <1>3, <1>4, <1>6, <1>7, <2>2 DEF Rewritten
    <3> HIDE DEF key
    <3> QED BY <1>1, <2>3, <3>1, WriteRuleEnds
  <2>5. CASE Longest(ip)
    <3>1. BelongsTo(EndIn(tbl, ip), key.depth) /\ Yields(EndIn(tbl, ip), key.depth)
      <4>1. EndIn(tbl, ip).depth = key.depth /\ key.depth \in Nat
            /\ ~EndIn(tbl, ip).ext_entry
        BY <1>1, <1>3, <2>5, Constants DEF BelongsTo
      <4> QED BY <1>3, <2>5, <4>1 DEF Yields
    <3>2. EndIn(tbl', ip) = op.entry
      BY <2>4, <2>5, <3>1 DEF Longest
    <3>3. Under(ip, key.depth) = key /\ \A d \in DepthsOf(DOMAIN rules, ip) : d < key.depth
      <4>1. Under(ip, key.depth) = key /\ \A d \in DepthsOf(DOMAIN rules, ip) : d <= key.depth
        BY <1>8, <2>5 DEF Longest
      <4>2. \A d \in DepthsOf(DOMAIN rules, ip) : d # key.depth
        BY <1>3, <4>1 DEF DepthsOf
      <4>3. DepthsOf(DOMAIN rules, ip) \subseteq Nat /\ key.depth \in Nat
        BY <1>1, Constants DEF DepthsOf
      <4> QED BY <4>1, <4>2, <4>3
    <3>4. Expands(op.entry, rules, DOMAIN rules, ip)
      BY <1>1, <1>3, <3>3, ReplacementOfMatch
    <3> QED BY <1>2, <1>8, <3>2, <3>4 DEF Exact
  <2>6. CASE ~Longest(ip)
    <3>1. Expands(EndIn(tbl, ip), rules, Inserted, ip)
      BY <1>3, <2>6 DEF Exact
    <3>2. EndIn(tbl', ip) = EndIn(tbl, ip)
      <4>1. CASE Under(ip, key.depth) # key
        BY <2>4, <4>1
      <4>2. CASE Under(ip, key.depth) = key
        <5>1. \E d \in DepthsOf(Inserted, ip) : ~(d <= key.depth)
          BY <2>6, <4>2 DEF Longest
        <5>2. DepthsOf(Inserted, ip) \subseteq Nat /\ key.depth \in Nat
          BY <1>1, Constants DEF DepthsOf
        <5>3. \E d \in DepthsOf(Inserted, ip) : d > key.depth
          BY <5>1, <5>2
        <5>4. ~Yields(EndIn(tbl, ip), key.depth) /\ ~BelongsTo(EndIn(tbl, ip), key.depth)
          BY <1>1, <3>1, <5>3, ExpandedEntry
        <5> QED BY <2>4, <4>2, <5>4
      <4> QED BY <4>1, <4>2
    <3> QED BY <1>2, <1>8, <3>1, <3>2 DEF Exact
  <2> QED BY <2>5, <2>6
<1>10. KeysMasked' /\ Rested'
  BY <1>2, <1>9 DEF ExpandInv, KeysMasked, Rested
<1> QED BY <1>2, <1>10 DEF ExpandInv, Adding, Deleting, Unlinking

\* Addresses under one prefix have the same indexes above the level where the
\* prefix ends.
LEMMA SameRuleSameIndexes ==
  ASSUME NEW ip \in Address, NEW jp \in Address, NEW d \in Depth,
         ip6_mask_addr(ip, d) = ip6_mask_addr(jp, d)
  PROVE  \A m \in ADD_FIRST_BYTE..(LevelOf(d) - 1) :
           get_bitshift(ip, m) = get_bitshift(jp, m)
<1> DEFINE key == Under(jp, d)
           L == LevelOf(d)
<1>1. d \in 0..MAX_DEPTH /\ d <= d
  BY Constants DEF Depth
<1>2. key \in Prefix /\ key.depth = d /\ key.ip = ip6_mask_addr(jp, d)
  BY <1>1, MaskAddress DEF Under, Prefix
<1>3. ip6_mask_addr(key.ip, key.depth) = key.ip
  BY <1>1, <1>2, MaskOfMask
<1> HIDE DEF key
<1>4. L = LevelOf(key.depth)
  BY <1>2
<1> HIDE DEF L
<1>5. \A m \in ADD_FIRST_BYTE..(L - 1) : get_bitshift(ip, m) = get_bitshift(key.ip, m)
  BY <1>2, <1>3, <1>4, RangeIsMatch
<1>6. \A m \in ADD_FIRST_BYTE..(L - 1) : get_bitshift(jp, m) = get_bitshift(key.ip, m)
  BY <1>2, <1>3, <1>4, RangeIsMatch
<1> QED BY <1>5, <1>6 DEF L

\* No rule that is left matches an address below a table that rules have left.
LEMMA NoRuleBelowCut ==
  ASSUME IndInv, NEW G,
         \A k \in DOMAIN rules : \A n \in Levels :
           n <= LevelOf(k.depth) => Walk(k.ip)[n] \notin G,
         NEW ip \in Address, NEW n \in Levels, Walk(ip)[n] \in G,
         NEW d \in Depth, Under(ip, d) \in DOMAIN rules
  PROVE  LevelOf(d) < n
<1> DEFINE k == Under(ip, d)
           L == LevelOf(d)
<1>1. d \in 0..MAX_DEPTH /\ d <= d /\ L \in Levels
  BY Constants, LevelOfIs DEF Depth
<1>2. k.ip = ip6_mask_addr(ip, d) /\ k.depth = d /\ k.ip \in Address
  BY <1>1, MaskAddress DEF Under
<1>3. ip6_mask_addr(k.ip, d) = ip6_mask_addr(ip, d)
  BY <1>1, <1>2, MaskOfMask
<1> SUFFICES ASSUME n <= L PROVE FALSE
  BY <1>1, LevelRange
<1>4. \A m \in ADD_FIRST_BYTE..(L - 1) : get_bitshift(k.ip, m) = get_bitshift(ip, m)
  BY <1>2, <1>3, SameRuleSameIndexes
<1>5. \A m \in ADD_FIRST_BYTE..(n - 1) : m \in ADD_FIRST_BYTE..(L - 1)
  BY <1>1, LevelRange
<1> HIDE DEF k, L
<1>6. Walk(k.ip)[n] = Walk(ip)[n]
  BY <1>2, <1>4, <1>5, SameNodeSameTable
<1>7. k \in DOMAIN rules /\ n <= LevelOf(k.depth)
  BY <1>2 DEF k, L
<1> QED BY <1>6, <1>7

\* What is in the chain is on the way to the deleted rule.
LEMMA ChainStands ==
  ASSUME SingleInv, op.pc = "unref"
  PROVE  \A g \in Leaving : \E n \in Levels :
           n <= LevelOf(op.key.depth) /\ g = Walk(op.key.ip)[n]
<1> DEFINE ip == op.key.ip
           L == LevelOf(op.key.depth)
<1>1. op.chain \in Seq(Groups) /\ ip \in Address /\ L \in Levels
  BY SingleTypes, AddingTypes DEF Call
<1> HIDE DEF ip, L
<1>2. PICK k \in Levels :
        /\ op.cur = Walk(ip)[k]
        /\ \A i \in DOMAIN op.chain : k + i \in Levels /\ op.chain[i] = Walk(ip)[k + i]
  BY SingleTypes DEF LinksInv, CallLinks, ChainOnWalk, ip
<1>3. PICK m \in Levels : op.cur = Walk(ip)[m] /\ m + Len(op.chain) = L
                          /\ op.cur \in Taken
  BY UnrefStands DEF ip, L
<1>4. m = k
  <2>1. IndInv /\ LinksKept
    BY SingleTypes
  <2>2. Walk(ip)[m] \in Live /\ Walk(ip)[m] = Walk(ip)[k]
    BY <1>2, <1>3 DEF Live
  <2> QED BY <1>1, <2>1, <2>2, WalkMeetsOnce
<1>5. ASSUME NEW i \in DOMAIN op.chain
      PROVE  \E n \in Levels : n <= L /\ op.chain[i] = Walk(ip)[n]
  <2>1. k + i \in Levels /\ op.chain[i] = Walk(ip)[k + i]
    BY <1>2
  <2>2. k + i <= L
    BY <1>1, <1>3, <1>4, LevelRange
  <2> DEFINE n == k + i
  <2> HIDE DEF n
  <2>3. n \in Levels /\ op.chain[i] = Walk(ip)[n] /\ n <= L
    BY <2>1, <2>2 DEF n
  <2> QED BY <2>3
<1> QED BY <1>5 DEF Leaving, ip, L

\* When the groups on the lowest part of the way to the deleted rule are left
\* by all other rules, the less specific rule is right for all below them.
LEMMA UnlinkingStarts ==
  ASSUME SingleInv, ExpandInv, op.pc = "unref", NEW G \in SUBSET Taken,
         Walk(op.key.ip)[LevelOf(op.key.depth)] \in G,
         \A g \in G : \E n \in Levels :
           n <= LevelOf(op.key.depth) /\ g = Walk(op.key.ip)[n],
         \A k \in DOMAIN rules : \A n \in Levels :
           n <= LevelOf(k.depth) => Walk(k.ip)[n] \notin G,
         NEW ip \in Address
  PROVE  /\ ~IsLink(EndIn(tbl, ip))
         /\ IF \E n \in Levels : Walk(ip)[n] \in G
            THEN Expands(op.entry, rules, DOMAIN rules, ip)
            ELSE Exact(ip)
<1> DEFINE key == op.key
           L == LevelOf(op.key.depth)
<1>1. /\ key \in Prefix /\ key.ip \in Address /\ key.depth \in Depth /\ L \in Levels
      /\ IndInv /\ LinksKept /\ Inserted = DOMAIN rules
  BY SingleTypes, AddingTypes DEF SingleInv, SingleCall, Inserted
<1>2. /\ ip6_mask_addr(key.ip, key.depth) = key.ip
      /\ Replaces(op.entry, rules, DOMAIN rules, key)
      /\ IF Longest(ip)
         THEN EndIn(tbl, ip).valid /\ BelongsTo(EndIn(tbl, ip), key.depth)
         ELSE Exact(ip)
  BY DEF ExpandInv, Deleting
<1>3. ~IsLink(EndIn(tbl, ip))
  <2>1. CASE Longest(ip)
    BY <1>2, <2>1 DEF BelongsTo, IsLink
  <2>2. CASE ~Longest(ip)
    BY <1>1, <1>2, <2>2, ExpandedEntry DEF Exact
  <2> QED BY <2>1, <2>2
<1> HIDE DEF key, L
<1>4. ASSUME NEW n \in Levels, Walk(ip)[n] \in G
      PROVE  Expands(op.entry, rules, DOMAIN rules, ip)
  <2>1. PICK m \in Levels : m <= L /\ Walk(ip)[n] = Walk(key.ip)[m]
    BY <1>4 DEF L, key
  <2>2. Walk(ip)[n] \in Live /\ Walk(ip)[n] # TBL24_IND
    BY <1>4, LiveTables DEF Live
  <2>3. m = n /\ \A l \in ADD_FIRST_BYTE..(n - 1) : get_bitshift(ip, l) = get_bitshift(key.ip, l)
    BY <1>1, <2>1, <2>2, SameTableSameNode
  <2>4. n # ADD_FIRST_BYTE
    BY <1>1, <2>2, WalkIsLive
  <2> DEFINE o == n - 1
  <2>5. o \in Levels /\ o < L /\ o < n
    BY <1>1, <2>1, <2>3, <2>4, LevelRange
  <2>6. \A l \in ADD_FIRST_BYTE..o : get_bitshift(ip, l) = get_bitshift(key.ip, l)
    BY <2>3
  <2>7. Walk(key.ip)[n] \in G
    BY <1>4, <2>1, <2>3
  <2>8. key.depth > BitsCovered(o)
    BY <1>1, <2>5, DeeperIsAbove DEF L, key
  <2>9. ASSUME NEW d \in Depth, LevelOf(d) < n
        PROVE  d < key.depth /\ Under(ip, d) = Under(key.ip, d)
    <3>1. LevelOf(d) \in Levels /\ ~(o < LevelOf(d))
      BY <2>9, LevelOfIs, LevelRange
    <3> HIDE DEF o
    <3>2. ~(d > BitsCovered(o))
      BY <2>5, <3>1, DeeperIsAbove
    <3>3. BitsCovered(o) \in Nat /\ d \in 0..MAX_DEPTH /\ d \in Nat /\ key.depth \in Nat
      BY <1>1, <2>5, BitsCoveredRange, Constants DEF Depth
    <3>4. d <= BitsCovered(o) /\ d < key.depth
      BY <2>8, <3>2, <3>3
    <3>5. ip6_mask_addr(ip, d) = ip6_mask_addr(key.ip, d)
      BY <1>1, <2>5, <2>6, <3>3, <3>4, SameBitsSameRules
    <3> QED BY <3>4, <3>5 DEF Under
  <2> HIDE DEF o
  <2>10. \A d \in DepthsOf(DOMAIN rules, ip) :
           d < key.depth /\ Under(ip, d) = Under(key.ip, d)
    <3> TAKE d \in DepthsOf(DOMAIN rules, ip)
    <3>1. d \in Depth /\ Under(ip, d) \in DOMAIN rules
      BY DEF DepthsOf
    <3>2. LevelOf(d) < n
      BY <1>1, <1>4, <3>1, NoRuleBelowCut
    <3> QED BY <2>9, <3>1, <3>2
  <2>11. \A d \in DepthsBelow(DOMAIN rules, key) : Under(ip, d) = Under(key.ip, d)
    <3> TAKE d \in DepthsBelow(DOMAIN rules, key)
    <3>1. d \in 1..(key.depth - 1) /\ Under(key.ip, d) \in DOMAIN rules
      BY DEF DepthsBelow
    <3>2. d \in Depth
      BY <1>1, <3>1, Constants DEF Depth
    <3>3. LevelOf(d) < n
      BY <1>1, <2>7, <3>1, <3>2, NoRuleBelowCut
    <3> QED BY <2>9, <3>2, <3>3
  <2> QED BY <1>1, <1>2, <2>10, <2>11, ReplacementExpands
<1>5. ASSUME \A n \in Levels : Walk(ip)[n] \notin G
      PROVE  Exact(ip)
  <2> SUFFICES ASSUME Longest(ip) PROVE FALSE
    BY <1>2
  <2>1. ip6_mask_addr(ip, key.depth) = key.ip
    BY DEF Longest, Under, key
  <2>2. Walk(key.ip)[L] \in G /\ Walk(key.ip)[L] \in Live
    BY DEF Live, L, key
  <2>3. Walk(ip)[L] = Walk(key.ip)[L]
    BY <1>1, <1>2, <2>1, <2>2, RangeIsReached DEF L, key
  <2> QED BY <1>1, <1>5, <2>2, <2>3
<1> QED BY <1>3, <1>4, <1>5

LEMMA DeleteUnrefKeepsExpanded ==
  ASSUME SingleInv, Uncut', ExpandInv, DeleteUnref
  PROVE  ExpandInv'
<1> DEFINE ip == op.key.ip
           L == LevelOf(op.key.depth)
           cur == op.cur
           count == (tbl8_hdrs[cur].ref_cnt - 1) % REF_MOD
           owner == Owner(cur)
<1>1. /\ op.pc = "unref" /\ rules' = rules /\ tbl' = tbl
      /\ op \in Call /\ op.chain \in Seq(Groups)
      /\ ip \in Address /\ L \in Levels
  BY SingleTypes, AddingTypes DEF DeleteUnref, Call
<1>2. PICK c \in Levels :
        /\ cur = Walk(ip)[c] /\ c + Len(op.chain) = L
        /\ cur \in Taken \ Leaving /\ Leaving \subseteq Taken
        /\ \A n \in Levels : c < n /\ n <= L => Walk(ip)[n] \in Leaving
  BY <1>1, UnrefStands
<1>3. \/ /\ ~LastReference(count)
         /\ op' = [op EXCEPT !.pc = IF op.chain = <<>> THEN "clear" ELSE "unlink"]
      \/ /\ LastReference(count)
         /\ op' = [op EXCEPT !.chain = <<cur>> \o op.chain,
                             !.pc = IF owner = TBL24_IND THEN "unlink" ELSE "unref",
                             !.cur = owner]
  BY DEF DeleteUnref, Owner
<1>4. \A g \in Leaving : \E n \in Levels : n <= L /\ g = Walk(ip)[n]
  BY <1>1, ChainStands
<1> HIDE DEF ip, L, cur, owner, count
<1>5. /\ op'.key = op.key /\ op'.entry = op.entry /\ op'.todo = op.todo
      /\ op'.level = op.level /\ op'.pc \in {"clear", "unlink", "unref"}
  BY <1>1, <1>3 DEF Call
<1>6. /\ op.key \notin DOMAIN rules
      /\ ip6_mask_addr(op.key.ip, op.key.depth) = op.key.ip
      /\ Replaces(op.entry, rules, DOMAIN rules, op.key)
      /\ op.level = L
      /\ \A a \in Address :
           IF Longest(a)
           THEN EndIn(tbl, a).valid /\ BelongsTo(EndIn(tbl, a), op.key.depth)
           ELSE Exact(a)
  BY <1>1 DEF ExpandInv, Deleting, L
<1>7. /\ Inserted' = Inserted /\ (DOMAIN rules)' = DOMAIN rules
      /\ \A a : Walk(a)' = Walk(a)
      /\ \A a : (Exact(a)' <=> Exact(a)) /\ (Longest(a)' <=> Longest(a))
  BY <1>1, <1>5 DEF Inserted, Walk, Exact, Longest
<1>8. KeysMasked'
  BY <1>1 DEF ExpandInv, KeysMasked
<1>9. ASSUME op'.pc # "unlink",
             op'.pc = "clear" => op'.cur = Walk(ip)[L]
      PROVE  ExpandInv'
  <2>1. op'.pc = "clear" => (op.cur = Walk(op.key.ip)[op.level])'
    <3>1. op'.pc = "clear" => op'.cur = WalkIn(tbl', op'.key.ip)[op'.level]
      BY <1>1, <1>5, <1>6, <1>9 DEF Walk, ip
    <3> QED BY <3>1 DEF Walk
  <2>2. /\ op'.key \notin DOMAIN rules'
        /\ ip6_mask_addr(op'.key.ip, op'.key.depth) = op'.key.ip
        /\ Replaces(op'.entry, rules', DOMAIN rules', op'.key)
        /\ op'.level = LevelOf(op'.key.depth)
    BY <1>1, <1>5, <1>6 DEF L
  <2>3. \A a \in Address :
          IF Longest(a)'
          THEN EndIn(tbl', a).valid /\ BelongsTo(EndIn(tbl', a), op'.key.depth)
          ELSE Exact(a)'
    BY <1>1, <1>5, <1>6, <1>7
  <2>4. Deleting'
    BY <2>1, <2>2, <2>3 DEF Deleting
  <2> QED BY <1>5, <1>8, <1>9, <2>4 DEF ExpandInv, Rested, Adding, Unlinking
<1>10. ASSUME op'.pc = "unlink", NEW G, G = Leaving', G \in SUBSET Taken, Walk(ip)[L] \in G,
              \A g \in G : \E n \in Levels : n <= L /\ g = Walk(ip)[n]
       PROVE  ExpandInv'
  <2>1. Settled' = DOMAIN rules
    BY <1>1, <1>10 DEF Settled
  <2>2. \A k \in DOMAIN rules : \A n \in Levels :
          n <= LevelOf(k.depth) => Walk(k.ip)[n] \notin G
    BY <1>7, <1>10, <2>1 DEF Uncut
  <2>3. ASSUME NEW a \in Address
        PROVE  /\ ~IsLink(EndIn(tbl, a))
               /\ IF \E n \in Levels : Walk(a)[n] \in G
                  THEN Expands(op.entry, rules, DOMAIN rules, a)
                  ELSE Exact(a)
    BY <1>1, <1>10, <2>2, UnlinkingStarts DEF ip, L
  <2>4. Unlinking'
    <3>1. ASSUME NEW a \in Address
          PROVE  /\ ~IsLink(EndIn(tbl', a))
                 /\ IF \E n \in Levels : Walk(a)'[n] \in Leaving'
                    THEN Expands(op'.entry, rules', DOMAIN rules', a)
                    ELSE Exact(a)'
      <4>1. /\ EndIn(tbl', a) = EndIn(tbl, a) /\ Walk(a)' = Walk(a) /\ Leaving' = G
            /\ op'.entry = op.entry /\ rules' = rules /\ (Exact(a)' <=> Exact(a))
        BY <1>1, <1>5, <1>7, <1>10
      <4> QED BY <2>3, <4>1
    <3> QED BY <3>1 DEF Unlinking
  <2> QED BY <1>5, <1>8, <1>10, <2>4 DEF ExpandInv, Rested, Adding, Deleting
<1>11. CASE /\ ~LastReference(count)
            /\ op' = [op EXCEPT !.pc = IF op.chain = <<>> THEN "clear" ELSE "unlink"]
  <2>1. op'.pc = (IF op.chain = <<>> THEN "clear" ELSE "unlink") /\ op'.chain = op.chain
        /\ op'.cur = op.cur
    BY <1>1, <1>11 DEF Call
  <2>2. CASE op.chain = <<>>
    <3>1. c = L
      BY <1>1, <1>2, <2>2, LevelRange
    <3>2. op'.cur = Walk(ip)[L]
      BY <1>2, <2>1, <3>1 DEF cur
    <3> QED BY <1>9, <2>1, <2>2, <3>2
  <2>3. CASE op.chain # <<>>
    <3>1. Leaving' = Leaving
      BY <2>1 DEF Leaving
    <3>2. c < L /\ L <= L
      BY <1>1, <1>2, <2>3, LevelRange
    <3>3. Walk(ip)[L] \in Leaving
      BY <1>1, <1>2, <3>2
    <3> QED BY <1>2, <1>4, <1>10, <2>1, <2>3, <3>1, <3>3
  <2> QED BY <2>2, <2>3
<1>12. CASE /\ LastReference(count)
            /\ op' = [op EXCEPT !.chain = <<cur>> \o op.chain,
                                !.pc = IF owner = TBL24_IND THEN "unlink" ELSE "unref",
                                !.cur = owner]
  <2> DEFINE longer == <<cur>> \o op.chain
  <2>1. /\ op'.pc = (IF owner = TBL24_IND THEN "unlink" ELSE "unref")
        /\ op'.chain = longer
    BY <1>1, <1>12 DEF Call
  <2>2. Leaving' = Leaving \cup {cur}
    <3>1. \A i \in DOMAIN longer :
            \/ i = 1 /\ longer[i] = cur
            \/ i - 1 \in DOMAIN op.chain /\ longer[i] = op.chain[i - 1]
      BY <1>1
    <3>2. \A i \in DOMAIN op.chain : i + 1 \in DOMAIN longer /\ longer[i + 1] = op.chain[i]
      BY <1>1
    <3>3. 1 \in DOMAIN longer /\ longer[1] = cur
      BY <1>1
    <3> HIDE DEF longer
    <3>4. Leaving' = {longer[i] : i \in DOMAIN longer}
      BY <2>1 DEF Leaving
    <3>5. ASSUME NEW g \in Leaving' PROVE g \in Leaving \cup {cur}
      BY <3>1, <3>4, <3>5 DEF Leaving
    <3>6. cur \in Leaving'
      BY <3>3, <3>4
    <3>7. ASSUME NEW g \in Leaving PROVE g \in Leaving'
      BY <3>2, <3>4, <3>7 DEF Leaving
    <3> QED BY <3>5, <3>6, <3>7
  <2> HIDE DEF longer
  <2>3. CASE owner # TBL24_IND
    BY <1>9, <2>1, <2>3
  <2>4. CASE owner = TBL24_IND
    <3>1. c <= L /\ L <= L
      BY <1>1, <1>2, LevelRange
    <3>2. Walk(ip)[L] \in Leaving'
      <4>1. CASE c = L
        BY <1>2, <2>2, <4>1
      <4>2. CASE c < L
        BY <1>1, <1>2, <2>2, <3>1, <4>2
      <4> QED BY <1>1, <1>2, <3>1, <4>1, <4>2, LevelRange
    <3>3. \A g \in Leaving' : \E n \in Levels : n <= L /\ g = Walk(ip)[n]
      BY <1>2, <1>4, <2>2, <3>1
    <3> QED BY <1>2, <1>10, <2>1, <2>2, <2>4, <3>2, <3>3
  <2> QED BY <2>3, <2>4
<1> QED BY <1>3, <1>11, <1>12

\* What unlinking a group does to lookups.
LEMMA UnlinkEnds ==
  ASSUME SingleInv, IndInv', DeleteUnlink, NEW g, g = Head(op.chain),
         NEW ip \in Address, ~IsLink(EndIn(tbl, ip))
  PROVE  /\ (\E n \in Levels : Walk(ip)[n] = g) => EndIn(tbl', ip) = op.entry
         /\ (\A n \in Levels : Walk(ip)[n] # g) =>
              /\ EndIn(tbl', ip) = EndIn(tbl, ip)
              /\ \A n \in Levels : WalkIn(tbl', ip)[n] = Walk(ip)[n]
<1> DEFINE t == Owner(g)
           j == OwnerEntry(g)
           e == tbl[t][j]
           w == WalkIn(tbl, ip)
<1>1. /\ op.pc = "unlink" /\ IndInv /\ LinksKept /\ TablesOK(tbl) /\ TablesOK(tbl')
      /\ op.entry \in Entry /\ ~op.entry.ext_entry /\ ChainLinked
  BY SingleTypes, TablesShaped
  DEF DeleteUnlink, LinksInv, IndInv, TypeOK, TablesOK, Call, CallLinks
<1>2. /\ g = op.chain[1] /\ 1 \in DOMAIN op.chain /\ g \in Taken /\ t \in Tables
      /\ \A u \in Tables : \A i \in Slots(u) :
           tbl'[u][i] = IF u = t /\ i = j THEN op.entry ELSE tbl[u][i]
  BY SingleTypes, UnlinkEffect
<1>3. e.next_hop = g /\ e.ext_entry
  BY <1>1, <1>2 DEF SingleInv, Named, ChainLinked
<1>4. w = Walk(ip) /\ ~IsLink(op.entry)
  BY <1>1, LinkEntry DEF Walk
<1>5. \A m \in Levels : w[m] # NO_TABLE =>
        /\ w[m] \in Live /\ w[m] \in Tables /\ get_bitshift(ip, m) \in Slots(w[m])
        /\ (w[m] = TBL24_IND <=> m = ADD_FIRST_BYTE)
  BY <1>1, <1>4, WalkIsLive, LiveTables, SlotOfAddress
<1>6. \A m \in Levels : w[m] # NO_TABLE =>
        tbl'[w[m]][get_bitshift(ip, m)] = IF w[m] = t /\ get_bitshift(ip, m) = j
                                          THEN op.entry ELSE tbl[w[m]][get_bitshift(ip, m)]
  BY <1>2, <1>5
<1>7. \A m, n \in Levels : m <= n /\ w[n] # NO_TABLE => w[m] # NO_TABLE
  BY <1>1, WalkStops
<1> HIDE DEF t, j, w
<1>8. ASSUME NEW n \in Levels, w[n] = g
      PROVE  EndIn(tbl', ip) = op.entry
  <2> DEFINE o == n - 1
  <2>1. /\ o \in Levels /\ w[o] = t /\ get_bitshift(ip, o) = j /\ w[o] \in Live
    BY <1>1, <1>2, <1>4, <1>8, LinkOnWalk, WalkIsLive DEF t, j
  <2> HIDE DEF o
  <2>2. w[o] # NO_TABLE
    BY <2>1, LiveTables
  <2>3. tbl'[w[o]][get_bitshift(ip, o)] = op.entry
    BY <1>6, <2>1, <2>2
  <2>4. ASSUME NEW m \in Levels, m < o
        PROVE  tbl'[w[m]][get_bitshift(ip, m)] = tbl[w[m]][get_bitshift(ip, m)]
    <3>1. m # o /\ m <= o
      BY <2>1, <2>4, LevelRange
    <3>2. w[m] # w[o]
      BY <1>1, <1>4, <2>1, <3>1, WalkMeetsOnce
    <3> QED BY <1>6, <1>7, <2>1, <2>2, <3>1, <3>2
  <2> QED BY <1>1, <1>4, <2>1, <2>2, <2>3, <2>4, EndStays DEF w
<1>9. ASSUME \A n \in Levels : w[n] # g
      PROVE  /\ EndIn(tbl', ip) = EndIn(tbl, ip)
             /\ \A n \in Levels : WalkIn(tbl', ip)[n] = w[n]
  <2>1. PICK n \in Levels : /\ EndsAt(tbl, ip, n)
                            /\ EndIn(tbl, ip) = tbl[w[n]][get_bitshift(ip, n)]
    BY <1>1, EndExists DEF w
  <2>2. w[n] # NO_TABLE /\ (n # IPV6_ADDR_SIZE => w[n + 1] = NO_TABLE)
    BY <2>1 DEF EndsAt, w
  <2>3. ASSUME NEW m \in Levels, m <= n
        PROVE  tbl'[w[m]][get_bitshift(ip, m)] = tbl[w[m]][get_bitshift(ip, m)]
    <3>1. w[m] # NO_TABLE
      BY <1>7, <2>2, <2>3
    <3> SUFFICES ASSUME w[m] = t, get_bitshift(ip, m) = j PROVE FALSE
      BY <1>6, <3>1
    <3>2. IsLink(tbl[w[m]][get_bitshift(ip, m)])
      <4>1. tbl[w[m]][get_bitshift(ip, m)] \in Entry
        BY <1>1, <1>5, <3>1 DEF TablesOK
      <4> QED BY <1>3, <4>1, LinkEntry
    <3>3. CASE m = n
      BY <2>1, <3>2, <3>3
    <3>4. CASE m # n
      <4> DEFINE o == m + 1
      <4>1. o \in Levels \ {ADD_FIRST_BYTE} /\ o - 1 = m
        BY <2>3, <3>4, LevelRange
      <4>2. w[o] = BelowIn(tbl, w[o - 1], ip, o)
        BY <1>1, <4>1, WalkInUnfolds DEF w
      <4> HIDE DEF o
      <4>3. w[o] = g
        BY <1>3, <3>1, <3>2, <4>1, <4>2 DEF BelowIn
      <4> QED BY <1>9, <4>1, <4>3
    <3> QED BY <3>3, <3>4
  <2>4. n <= n /\ \A m \in Levels : m < n => m <= n
    BY LevelRange
  <2>5. tbl'[w[n]][get_bitshift(ip, n)] = EndIn(tbl, ip)
    BY <2>1, <2>3, <2>4
  <2>6. \A m \in Levels : m < n =>
          tbl'[w[m]][get_bitshift(ip, m)] = tbl[w[m]][get_bitshift(ip, m)]
    BY <2>3, <2>4
  <2>7. /\ \A m \in Levels : m <= n => WalkIn(tbl', ip)[m] = w[m]
        /\ \A m \in Levels : n < m => WalkIn(tbl', ip)[m] = NO_TABLE
        /\ EndIn(tbl', ip) = EndIn(tbl, ip)
    BY <1>1, <2>2, <2>5, <2>6, EndStays DEF w
  <2>8. \A m \in Levels : n < m => w[m] = NO_TABLE
    <3> TAKE m \in Levels
    <3> HAVE n < m
    <3>1. n # IPV6_ADDR_SIZE /\ n + 1 \in Levels /\ n + 1 <= m
      BY LevelRange
    <3> QED BY <1>7, <2>2, <3>1
  <2>9. \A m \in Levels : m <= n \/ n < m
    BY LevelRange
  <2> QED BY <2>7, <2>8, <2>9
<1> QED BY <1>4, <1>8, <1>9

LEMMA DeleteUnlinkKeepsExpanded ==
  ASSUME SingleInv, IndInv', ExpandInv, DeleteUnlink
  PROVE  ExpandInv'
<1> DEFINE g == Head(op.chain)
           rest == Tail(op.chain)
<1>1. /\ op.pc = "unlink" /\ rules' = rules /\ op \in Call /\ op.todo = {}
      /\ op.chain \in Seq(Groups) /\ op.chain # <<>>
      /\ op.entry \in Entry /\ ~op.entry.ext_entry /\ ChainLinked
  BY SingleTypes
  DEF DeleteUnlink, SingleInv, SingleCall, LinksInv, IndInv, TypeOK, CallOK, Call, CallLinks
<1>2. g = op.chain[1] /\ 1 \in DOMAIN op.chain
  BY <1>1
<1>3. /\ op'.pc \in {"idle", "unlink"} /\ op'.todo = {} /\ op'.chain = rest
      /\ op'.pc = "unlink" => op'.entry = op.entry
      /\ op'.pc = "idle" => rest = <<>>
  <2>1. CASE rest = <<>>
    <3>1. op' = Idle
      BY <2>1 DEF DeleteUnlink
    <3> HIDE DEF rest
    <3> QED BY <2>1, <3>1 DEF Idle
  <2>2. CASE rest # <<>>
    BY <1>1, <2>2 DEF DeleteUnlink, Call
  <2> QED BY <2>1, <2>2
<1>4. /\ \A i \in DOMAIN rest :
           i + 1 \in DOMAIN op.chain /\ i + 1 # 1 /\ rest[i] = op.chain[i + 1]
      /\ \A i \in DOMAIN op.chain :
           i = 1 \/ (i - 1 \in DOMAIN rest /\ rest[i - 1] = op.chain[i])
  BY <1>1
<1> HIDE DEF g, rest
<1>5. g \in Leaving /\ Leaving' = Leaving \ {g}
  <2>1. \A i \in DOMAIN op.chain : i # 1 => op.chain[i] # g
    BY <1>1, <1>2 DEF ChainLinked
  <2>2. Leaving' = {rest[i] : i \in DOMAIN rest}
    BY <1>3 DEF Leaving
  <2>3. g \in Leaving
    BY <1>2 DEF Leaving
  <2>4. ASSUME NEW a \in Leaving' PROVE a \in Leaving \ {g}
    <3>1. PICK i \in DOMAIN rest : a = rest[i]
      BY <2>2
    <3>2. i + 1 \in DOMAIN op.chain /\ i + 1 # 1 /\ a = op.chain[i + 1]
      BY <1>4, <3>1
    <3> QED BY <2>1, <3>2 DEF Leaving
  <2>5. \A a \in Leaving \ {g} : a \in Leaving'
    BY <1>2, <1>4, <2>2 DEF Leaving
  <2> QED BY <2>3, <2>4, <2>5
<1>6. Inserted = DOMAIN rules /\ Inserted' = DOMAIN rules
  BY <1>1, <1>3 DEF Inserted
<1>7. ASSUME NEW ip \in Address
      PROVE  /\ ~IsLink(EndIn(tbl', ip))
             /\ IF \E n \in Levels : WalkIn(tbl', ip)[n] \in Leaving'
                THEN Expands(op.entry, rules, DOMAIN rules, ip)
                ELSE Expands(EndIn(tbl', ip), rules, DOMAIN rules, ip)
  <2>1. /\ ~IsLink(EndIn(tbl, ip))
        /\ IF \E n \in Levels : Walk(ip)[n] \in Leaving
           THEN Expands(op.entry, rules, DOMAIN rules, ip)
           ELSE Expands(EndIn(tbl, ip), rules, DOMAIN rules, ip)
    BY <1>1, <1>6 DEF ExpandInv, Unlinking, Exact
  <2>2. /\ (\E n \in Levels : Walk(ip)[n] = g) => EndIn(tbl', ip) = op.entry
        /\ (\A n \in Levels : Walk(ip)[n] # g) =>
             /\ EndIn(tbl', ip) = EndIn(tbl, ip)
             /\ \A n \in Levels : WalkIn(tbl', ip)[n] = Walk(ip)[n]
    BY <2>1, UnlinkEnds DEF g
  <2>3. CASE \E n \in Levels : Walk(ip)[n] = g
    <3>1. EndIn(tbl', ip) = op.entry /\ Expands(op.entry, rules, DOMAIN rules, ip)
      BY <1>5, <2>1, <2>2, <2>3
    <3>2. ~IsLink(op.entry)
      BY <1>1 DEF IsLink
    <3> QED BY <3>1, <3>2
  <2>4. CASE \A n \in Levels : Walk(ip)[n] # g
    <3>1. (\E n \in Levels : WalkIn(tbl', ip)[n] \in Leaving')
          <=> (\E n \in Levels : Walk(ip)[n] \in Leaving)
      BY <1>5, <2>2, <2>4
    <3> QED BY <2>1, <2>2, <2>4, <3>1
  <2> QED BY <2>3, <2>4
<1>8. KeysMasked'
  BY <1>1 DEF ExpandInv, KeysMasked
<1>9. CASE op'.pc = "idle"
  <2>1. Leaving' = {}
    BY <1>3, <1>9 DEF Leaving
  <2>2. \A ip \in Address : Exact(ip)'
    BY <1>1, <1>6, <1>7, <2>1 DEF Exact
  <2> QED BY <1>8, <1>9, <2>2 DEF ExpandInv, Rested, Adding, Deleting, Unlinking
<1>10. CASE op'.pc = "unlink"
  <2>1. ASSUME NEW ip \in Address
        PROVE  /\ ~IsLink(EndIn(tbl', ip))
               /\ IF \E n \in Levels : Walk(ip)'[n] \in Leaving'
                  THEN Expands(op'.entry, rules', DOMAIN rules', ip)
                  ELSE Exact(ip)'
    <3>1. op'.entry = op.entry /\ rules' = rules /\ Walk(ip)' = WalkIn(tbl', ip)
      BY <1>1, <1>3, <1>10 DEF Walk
    <3>2. Exact(ip)' <=> Expands(EndIn(tbl', ip), rules, DOMAIN rules, ip)
      BY <1>1, <1>6 DEF Exact
    <3> QED BY <1>7, <3>1, <3>2
  <2>2. Unlinking'
    BY <2>1 DEF Unlinking
  <2> QED BY <1>8, <1>10, <2>2 DEF ExpandInv, Rested, Adding, Deleting
<1> QED BY <1>3, <1>9, <1>10

-----------------------------------------------------------------------------
(* Every step *)

LEMMA InsertionsKeepExpanded ==
  ASSUME GroupsFit, AdmitInv, IndInv', ExpandInv,
         Update \/ AddStep \/ Bulk \/ Lookups \/ UNCHANGED vars
  PROVE  ExpandInv'
<1>1. IndInv
  BY DEF AdmitInv, LinksInv
<1>2. CASE Update
  <2>1. ASSUME NEW r \in Routes, RejectDepth(r) \/ AddThrows(r) \/ AddNoSpace(r)
        PROVE  ExpandInv'
    <3>1. UNCHANGED <<rules, tables, op>>
      BY <2>1 DEF RejectDepth, AddThrows, AddNoSpace, Reject
    <3> QED BY <3>1, QuietKeepsExpanded
  <2>2. ASSUME NEW r \in Routes, NEW hop \in NextHops, Add(r, hop) PROVE ExpandInv'
    BY <1>1, <2>2, AddKeepsExpanded
  <2>3. CASE DeleteAll
    BY <1>1, <2>3, DeleteManyKeepsExpanded
  <2> QED BY <1>2, <2>1, <2>2, <2>3 DEF Update
<1>3. CASE AddStep
  BY <1>1, <1>3, AddStepNewTableKeepsExpanded, AddStepDescendKeepsExpanded,
     AddStepLastKeepsExpanded
  DEF AddStep
<1>4. CASE Bulk
  <2>1. ASSUME NEW keys, DeleteBulk(keys) PROVE ExpandInv'
    BY <1>1, <2>1, DeleteManyKeepsExpanded
  <2>2. ASSUME NEW key, Rebuild(key) PROVE ExpandInv'
    BY <1>1, <2>2, RebuildKeepsExpanded
  <2> QED BY <1>4, <2>1, <2>2 DEF Bulk
<1>5. CASE Lookups \/ UNCHANGED vars
  <2>1. UNCHANGED <<rules, tables, op>>
    BY <1>5 DEF Lookups, Lookup, vars, tables
  <2> QED BY <2>1, QuietKeepsExpanded
<1> QED BY <1>2, <1>3, <1>4, <1>5

LEMMA SingleKeepsExpanded ==
  ASSUME GroupsFit, CountsFit
  PROVE  SingleInv /\ ExpandInv /\ [Next]_vars => ExpandInv'
<1> SUFFICES ASSUME SingleInv, ExpandInv, [Next]_vars PROVE ExpandInv'
  OBVIOUS
<1>1. SingleInv' /\ IndInv' /\ Uncut' /\ IndInv /\ AdmitInv
  BY StepKeepsSingle DEF SingleInv, AdmitInv, LinksInv
<1>2. CASE Remove
  <2>1. ASSUME NEW r \in Routes, DeleteAbsent(r) PROVE ExpandInv'
    <3>1. UNCHANGED <<rules, tables, op>>
      BY <2>1 DEF DeleteAbsent, Reject
    <3> QED BY <3>1, QuietKeepsExpanded
  <2>2. ASSUME NEW r \in Routes, Delete(r) PROVE ExpandInv'
    BY <1>1, <2>2, DeleteKeepsExpanded
  <2> QED BY <1>2, <2>1, <2>2 DEF Remove
<1>3. CASE DeleteStep
  BY <1>1, <1>3, DeleteUnrefKeepsExpanded, DeleteUnlinkKeepsExpanded,
     DeleteClearKeepsExpanded
  DEF DeleteStep
<1>4. CASE Update \/ AddStep \/ Lookups \/ UNCHANGED vars
  BY <1>1, <1>4, InsertionsKeepExpanded
<1> QED BY <1>2, <1>3, <1>4 DEF Next

LEMMA BulkKeepsExpanded ==
  ASSUME GroupsFit
  PROVE  BulkInv /\ ExpandInv /\ [BulkNext]_vars => ExpandInv'
<1> SUFFICES ASSUME BulkInv, ExpandInv, [BulkNext]_vars PROVE ExpandInv'
  OBVIOUS
<1>1. AdmitInv /\ IndInv'
  BY StepKeepsBulk DEF BulkInv, AdmitInv, LinksInv
<1> QED BY <1>1, InsertionsKeepExpanded DEF BulkNext

LEMMA EitherKeepsExpanded ==
  ASSUME GroupsFit, CountsFit
  PROVE  EitherInv /\ ExpandInv /\ [EitherNext]_<<vars, deletion>> => ExpandInv'
<1> SUFFICES ASSUME EitherInv, ExpandInv, [EitherNext]_<<vars, deletion>> PROVE ExpandInv'
  OBVIOUS
<1>1. CASE deletion = "single"
  <2>1. SingleInv /\ [Next]_vars
    BY <1>1 DEF EitherInv, EitherNext
  <2> QED BY <2>1, SingleKeepsExpanded
<1>2. CASE deletion = "bulk"
  <2>1. BulkInv /\ [BulkNext]_vars
    BY <1>2 DEF EitherInv, EitherNext
  <2> QED BY <2>1, BulkKeepsExpanded
<1> QED BY <1>1, <1>2 DEF EitherInv

-----------------------------------------------------------------------------
(* What lookups answer *)

\* Next hops that fit the bit-field are stored whole.
HopsFit == NextHops \subseteq 0..(2 ^ NEXT_HOP_BITS - 1)

HopOf(e) == IF e.valid THEN e.next_hop ELSE MISS

LEMMA HopOfEnd == \A T, ip : HopIn(T, ip) = HopOf(EndIn(T, ip))
BY DEF HopIn, HopOf, EndIn

\* An entry that is what the rules make of an address answers as they do.
LEMMA ExpandedHop ==
  ASSUME HopsFit, NEW R, R \in [DOMAIN R -> NextHops], DOMAIN R \subseteq Prefix,
         NEW ip \in Address, NEW e, Expands(e, R, DOMAIN R, ip)
  PROVE  HopOf(e) = LongestMatch(R, ip)
<1> DEFINE D == DepthsOf(DOMAIN R, ip)
           M == Matching(R, ip)
<1>1. ASSUME NEW p \in M
      PROVE  p = Under(ip, p.depth) /\ p.depth \in D
  <2>1. p \in DOMAIN R /\ p \in Prefix /\ ip6_mask_addr(ip, p.depth) = p.ip
    BY DEF Matching
  <2>2. p = Under(ip, p.depth) /\ p.depth \in Depth
    BY <2>1 DEF Prefix, Under
  <2> QED BY <2>1, <2>2 DEF DepthsOf
<1>2. ASSUME NEW d \in D
      PROVE  Under(ip, d) \in M /\ Under(ip, d).depth = d /\ d \in Nat
  <2>1. d \in Depth /\ Under(ip, d) \in DOMAIN R
    BY DEF DepthsOf
  <2> QED BY <2>1, Constants DEF Matching, Under
<1>3. CASE D = {}
  <2>1. M = {} /\ e = Invalid
    BY <1>1, <1>3 DEF Expands
  <2> QED BY <2>1 DEF LongestMatch, HopOf, Invalid
<1>4. CASE D # {}
  <2>1. PICK d \in D : (\A c \in D : c <= d) /\ e = Leaf(R[Under(ip, d)], d)
    BY <1>4 DEF Expands
  <2> HIDE DEF D, M
  <2>2. Under(ip, d) \in M /\ Under(ip, d).depth = d /\ d \in Nat
    BY <1>2
  <2> DEFINE Best(p) == \A q \in M : q.depth <= p.depth
  <2>3. Best(Under(ip, d))
    BY <1>1, <2>1, <2>2
  <2>4. ASSUME NEW p \in M, Best(p) PROVE p = Under(ip, d)
    <3>1. d <= p.depth /\ p.depth <= d
      BY <1>1, <2>1, <2>2, <2>4
    <3>2. p.depth = d
      BY <1>1, <1>2, <2>2, <3>1
    <3> QED BY <1>1, <3>2
  <2>5. (CHOOSE p \in M : Best(p)) = Under(ip, d)
    <3> HIDE DEF Best
    <3> QED BY <2>2, <2>3, <2>4
  <2>6. LongestMatch(R, ip) = R[Under(ip, d)]
    BY <2>2, <2>5 DEF LongestMatch, M
  <2>7. R[Under(ip, d)] \in NextHops
    BY <2>2 DEF M, Matching
  <2>8. R[Under(ip, d)] % 2 ^ NEXT_HOP_BITS = R[Under(ip, d)]
    <3> DEFINE hop == R[Under(ip, d)]
               N == 2 ^ NEXT_HOP_BITS
    <3>1. hop \in 0..(N - 1) /\ N \in Nat \ {0}
      BY <2>7, Constants DEF HopsFit
    <3>2. hop \in Nat /\ hop < N
      BY <3>1
    <3> HIDE DEF hop, N
    <3>3. hop % N = hop
      BY <3>1, <3>2, SmallModulus
    <3> QED BY <3>3 DEF hop, N
  <2> QED BY <2>1, <2>6, <2>8 DEF HopOf, Leaf
<1> QED BY <1>3, <1>4

\* Between calls lookups answer what the rules say.
LEMMA ExpandedAnswers ==
  ASSUME HopsFit, IndInv, ExpandInv, op.pc = "idle", NEW ip \in Address
  PROVE  HopIn(tbl, ip) = LongestMatch(rules, ip)
<1>1. rules \in [DOMAIN rules -> NextHops] /\ DOMAIN rules \subseteq Prefix
  BY DEF IndInv, TypeOK
<1>2. Expands(EndIn(tbl, ip), rules, DOMAIN rules, ip)
  BY IdleIsAllInserted DEF ExpandInv, Rested, Exact
<1> QED BY <1>1, <1>2, HopOfEnd, ExpandedHop

\* multibit_rte_lpm6_lookup answers with the next hop of the longest rule that
\* matches, whatever was inserted and deleted before and in whatever order, as
\* long as callers do not mix single and bulk deletions.
THEOREM LookupsAreLongestMatch ==
  ASSUME GroupsFit, CountsFit, HopsFit
  PROVE  EitherSpec => []LookupIsLongestMatch
<1>1. Create /\ deletion \in {"single", "bulk"} => EitherInv /\ ExpandInv
  BY EitherInvIsKept, CreateExpands
<1>2. EitherInv /\ ExpandInv /\ [EitherNext]_<<vars, deletion>> => EitherInv' /\ ExpandInv'
  BY EitherInvIsKept, EitherKeepsExpanded
<1>3. EitherInv /\ ExpandInv => LookupIsLongestMatch
  <2> SUFFICES ASSUME EitherInv, ExpandInv, op.pc = "idle", NEW ip \in Address
               PROVE  HopIn(tbl, ip) = LongestMatch(rules, ip)
    BY DEF LookupIsLongestMatch, Quiet, LookupHop
  <2>1. IndInv
    BY DEF EitherInv, SingleInv, BulkInv, AdmitInv, LinksInv
  <2> QED BY <2>1, ExpandedAnswers
<1> QED BY <1>1, <1>2, <1>3, PTL DEF EitherSpec

\* With their tables, groups and counters the operations are those of a
\* dictionary of rules: every call, lookups included, is one of Lpm's.
THEOREM MultibitImplementsLpm ==
  ASSUME GroupsFit, CountsFit, HopsFit
  PROVE  EitherSpec => ImplementsLpm
<1>1. EitherSpec => []LookupIsLongestMatch
  BY LookupsAreLongestMatch
<1>2. [EitherNext]_<<vars, deletion>> => [AnyNext]_vars
  BY DEF EitherNext, AnyNext, BulkNext, Next, vars
<1>3. EitherSpec => AnySpec
  BY <1>2, PTL DEF EitherSpec, AnySpec
<1> QED BY <1>1, <1>3, LookupsCompletePromise, PTL

LEMMA StepAnswers ==
  ASSUME GroupsFit, CountsFit, HopsFit, SingleInv, ExpandInv, [Next]_vars,
         tbl' # tbl, NEW ip \in Address
  PROVE  HopIn(tbl', ip) \in {HopIn(tbl, ip), LongestMatch(rules', ip)}
<1>1. SingleInv' /\ ExpandInv' /\ IndInv' /\ IndInv /\ AdmitInv /\ LinksInv /\ AddOnWalk
  BY StepKeepsSingle, SingleKeepsExpanded DEF SingleInv, AdmitInv, LinksInv
<1>2. HopIn(tbl, ip) = HopOf(EndIn(tbl, ip)) /\ HopIn(tbl', ip) = HopOf(EndIn(tbl', ip))
  BY HopOfEnd
\* a step at which the call returns
<1>3. ASSUME op'.pc = "idle" PROVE HopIn(tbl', ip) = LongestMatch(rules', ip)
  <2>1. rules' \in [DOMAIN rules' -> NextHops] /\ DOMAIN rules' \subseteq Prefix
    BY <1>1 DEF IndInv, TypeOK
  <2>2. (op.todo = {} /\ Inserted = DOMAIN rules)'
    BY <1>1, <1>3 DEF SingleInv, SingleCall, Inserted
  <2>3. Expands(EndIn(tbl', ip), rules', DOMAIN rules', ip)
    BY <1>1, <1>3, <2>2 DEF ExpandInv, Rested, Exact
  <2> QED BY <1>2, <2>1, <2>3, ExpandedHop
<1>4. CASE AddStepNewTable
  <2>1. EndIn(tbl', ip) = PushedDown(EndIn(tbl, ip)) \/ EndIn(tbl', ip) = EndIn(tbl, ip)
    BY <1>1, <1>4, NewTableEnds
  <2>2. HopOf(PushedDown(EndIn(tbl, ip))) = HopOf(EndIn(tbl, ip))
    BY DEF HopOf, PushedDown, Invalid
  <2> QED BY <1>2, <2>1, <2>2
<1>5. CASE AddStepLast
  <2>1. op' = Idle
    BY <1>5 DEF AddStepLast, SingleInv, SingleCall
  <2> QED BY <1>3, <2>1 DEF Idle
<1>6. CASE DeleteClear
  BY <1>3, <1>6 DEF DeleteClear, Idle
<1>7. CASE DeleteAll
  BY <1>3, <1>7 DEF DeleteAll
<1>8. CASE DeleteUnlink
  <2> DEFINE g == Head(op.chain)
  <2>1. op.pc = "unlink" /\ rules' = rules
    BY <1>8 DEF DeleteUnlink
  <2>2. /\ ~IsLink(EndIn(tbl, ip))
        /\ (\E n \in Levels : Walk(ip)[n] \in Leaving) =>
             Expands(op.entry, rules, DOMAIN rules, ip)
    BY <2>1 DEF ExpandInv, Unlinking
  <2>3. g \in Leaving
    BY <1>1, <1>8, UnlinkEffect DEF Leaving
  <2> HIDE DEF g
  <2>4. /\ (\E n \in Levels : Walk(ip)[n] = g) => EndIn(tbl', ip) = op.entry
        /\ (\A n \in Levels : Walk(ip)[n] # g) => EndIn(tbl', ip) = EndIn(tbl, ip)
    BY <1>1, <1>8, <2>2, UnlinkEnds DEF g
  <2>5. CASE \E n \in Levels : Walk(ip)[n] = g
    <3>1. EndIn(tbl', ip) = op.entry /\ Expands(op.entry, rules', DOMAIN rules', ip)
      BY <2>1, <2>2, <2>3, <2>4, <2>5
    <3>2. rules' \in [DOMAIN rules' -> NextHops] /\ DOMAIN rules' \subseteq Prefix
      BY <1>1 DEF IndInv, TypeOK
    <3> QED BY <1>2, <3>1, <3>2, ExpandedHop
  <2>6. CASE \A n \in Levels : Walk(ip)[n] # g
    BY <1>2, <2>4, <2>6
  <2> QED BY <2>5, <2>6
<1>9. \/ AddStepNewTable \/ AddStepLast \/ DeleteClear \/ DeleteAll \/ DeleteUnlink
  BY DEF Next, Update, Remove, AddStep, DeleteStep, Lookups, RejectDepth, AddThrows,
         AddNoSpace, Add, Reject, DeleteAbsent, Delete, AddStepDescend, DeleteUnref,
         Lookup, tables, vars
<1> QED BY <1>4, <1>5, <1>6, <1>7, <1>8, <1>9

\* A lookup made between two steps of an insertion, a deletion of one rule or
\* of all rules gets the answer it would have had before the step, or the one
\* that the rules now call for: no half-made table ever answers.
THEOREM AnswersAreOldOrNew ==
  ASSUME GroupsFit, CountsFit, HopsFit
  PROVE  Spec => OnlyOldOrNewAnswers
<1>1. Create => SingleInv /\ ExpandInv
  BY CreateEstablishesSingle, CreateExpands
<1>2. SingleInv /\ ExpandInv /\ [Next]_vars => SingleInv' /\ ExpandInv'
  BY StepKeepsSingle, SingleKeepsExpanded
<1>3. SingleInv /\ ExpandInv /\ [Next]_vars =>
        [\A ip \in Address :
           HopIn(tbl', ip) \in {HopIn(tbl, ip), LongestMatch(rules', ip)}]_tbl
  BY StepAnswers
<1> QED BY <1>1, <1>2, <1>3, PTL DEF Spec, OnlyOldOrNewAnswers
=============================================================================
