----------------------------- MODULE MultibitLpm -----------------------------
(***************************************************************************)
(* The multibit trie of tries/multibit_dpdk.c: a rule table, a top-level   *)
(* table tbl24 indexed by the first ADD_FIRST_BYTE bytes of an address,    *)
(* and NUMBER_TBL8S groups tbl8 indexed by one further byte each, handed   *)
(* out by a stack of free indexes and counted by references.               *)
(*                                                                         *)
(* An entry is a next hop (a leaf), a link to a group one level down, or   *)
(* invalid.  A rule is expanded over all the entries its prefix covers and *)
(* no longer rule occupies, down to the groups below them, so that a       *)
(* lookup only follows links until it meets an entry that is none.         *)
(*                                                                         *)
(* A call of the C API is one action that checks the arguments and updates *)
(* the rule table, followed by one action per step of its loop over the    *)
(* levels; `op' holds the locals of the running call.                      *)
(***************************************************************************)
EXTENDS IPv6Prefix, Sequences, FiniteSets

CONSTANTS
  ADD_FIRST_BYTE,   \* bytes that index the top table: 1 here, 3 in the lpm6 variant
  MAX_RULES,        \* config->max_rules
  NUMBER_TBL8S,     \* config->number_tbl8s
  NEXT_HOP_BITS,    \* width of the next_hop / group index bit-field: 21
  REF_MOD,          \* 2^32, the modulus of ref_cnt
  NextHops,         \* next hops the callers route to
  Routes,           \* [ip, depth] pairs the callers pass, not masked
  Probes,           \* addresses the callers look up
  MAX_BULK          \* bound: rules named by one bulk deletion

ASSUME CreateAssumption ==
  /\ ADD_FIRST_BYTE \in 1..IPV6_ADDR_SIZE
  /\ MAX_RULES \in Nat \ {0}
  /\ NUMBER_TBL8S \in Nat
  /\ NEXT_HOP_BITS \in Nat
  /\ 2 ^ NEXT_HOP_BITS \in Nat \ {0}
  /\ NUMBER_TBL8S <= 2 * 2 ^ NEXT_HOP_BITS
  /\ REF_MOD \in Nat \ {0}
  /\ NextHops \subseteq Nat
  /\ Routes \subseteq [ip : Address, depth : 0..(MAX_DEPTH + 1)]
  /\ Probes \subseteq Address
  /\ MAX_BULK \in Nat

VARIABLES
  rules,            \* lpm->rules_tbl, a function from prefixes to next hops
  used_rules,       \* lpm->used_rules
  tbl,              \* tbl[TBL24_IND] is lpm->tbl24, tbl[g] the g-th group of lpm->tbl8
  tbl8_pool,        \* lpm->tbl8_pool: stack of the indexes of free groups
  tbl8_pool_pos,    \* lpm->tbl8_pool_pos: groups handed out so far
  tbl8_hdrs,        \* lpm->tbl8_hdrs: owner and reference counter of a group
  op,               \* the running call and its locals
  ret               \* the answer to the last call

tables == <<tbl, tbl8_pool, tbl8_pool_pos, tbl8_hdrs>>
vars == <<rules, used_rules, tbl, tbl8_pool, tbl8_pool_pos, tbl8_hdrs, op, ret>>

-----------------------------------------------------------------------------
(* Tables and entries *)

TBL24_IND == -1     \* UINT32_MAX in the code
NO_TABLE  == -2

Groups == 0..(NUMBER_TBL8S - 1)
Tables == Groups \cup {TBL24_IND}

\* A table's level is the number of bytes consumed once its index is taken.
Levels == ADD_FIRST_BYTE..IPV6_ADDR_SIZE
BitsCovered(level) == level * BYTE_SIZE
StepBits(level) ==
  IF level = ADD_FIRST_BYTE THEN BitsCovered(level) ELSE BYTE_SIZE
LevelOf(depth) ==
  CHOOSE n \in Levels : /\ depth <= BitsCovered(n)
                        /\ n = ADD_FIRST_BYTE \/ depth > BitsCovered(n - 1)

Slots(t) ==
  0..(2 ^ StepBits(IF t = TBL24_IND THEN ADD_FIRST_BYTE ELSE ADD_FIRST_BYTE + 1) - 1)

\* Index of an address in a table of that level.
get_bitshift(ip, level) ==
  (ip \div 2 ^ (MAX_DEPTH - BitsCovered(level))) % 2 ^ StepBits(level)

\* The entries a rule occupies in the table where it ends.
RuleRange(key, level) ==
  LET first == get_bitshift(key.ip, level)
  IN  first..(first + 2 ^ (BitsCovered(level) - key.depth) - 1)

\* Both uses of the next_hop field keep NEXT_HOP_BITS bits of what is stored.
Leaf(hop, depth) ==
  [next_hop |-> hop % 2 ^ NEXT_HOP_BITS, depth |-> depth,
   valid |-> TRUE, ext_entry |-> FALSE]
Link(g) ==
  [next_hop |-> g % 2 ^ NEXT_HOP_BITS, depth |-> 0,
   valid |-> TRUE, ext_entry |-> TRUE]
Invalid == [next_hop |-> 0, depth |-> 0, valid |-> FALSE, ext_entry |-> FALSE]

IsLink(e) == e.valid /\ e.ext_entry

\* Every table zeroed, by create and by the deletions of everything.
ZeroTables == [t \in Tables |-> [j \in Slots(t) |-> Invalid]]
FullPool   == [i \in Groups |-> i]

-----------------------------------------------------------------------------
(* Walking the tables *)

\* The table an address reaches at each level, following links from tbl24.
WalkIn(T, ip) ==
  LET t[n \in Levels] ==
        IF n = ADD_FIRST_BYTE
        THEN TBL24_IND
        ELSE LET above == t[n - 1]
                 e == T[above][get_bitshift(ip, n - 1)]
             IN  IF above # NO_TABLE /\ IsLink(e) THEN e.next_hop ELSE NO_TABLE
  IN  t

Walk(ip) == WalkIn(tbl, ip)

\* The last level at or above n whose table exists.
LastLevel(walk, n) ==
  CHOOSE m \in ADD_FIRST_BYTE..n :
    /\ walk[m] # NO_TABLE
    /\ m = n \/ walk[m + 1] = NO_TABLE

HopIn(T, ip) ==
  LET walk == WalkIn(T, ip)
      last == LastLevel(walk, IPV6_ADDR_SIZE)
      e    == T[walk[last]][get_bitshift(ip, last)]
  IN  IF e.valid THEN e.next_hop ELSE MISS

LookupHop(ip) == HopIn(tbl, ip)

\* Mutant of simulate_add: no group for the last, incomplete byte.
simulate_add_whole_bytes(key) ==
  LET last == LastLevel(Walk(key.ip), LevelOf(key.depth))
      rest == key.depth - BitsCovered(last)
  IN  IF rest <= 0 THEN 0 ELSE rest \div BYTE_SIZE

\* Groups that adding the rule would take from the pool: one for each byte,
\* or part of one, below the last table on its way.
simulate_add(key) ==
  LET last == LastLevel(Walk(key.ip), LevelOf(key.depth))
      rest == key.depth - BitsCovered(last)
  IN  IF rest <= 0 THEN 0
      ELSE rest \div BYTE_SIZE + (IF rest % BYTE_SIZE > 0 THEN 1 ELSE 0)

tbl8_available == NUMBER_TBL8S - tbl8_pool_pos

\* The rule of the greatest smaller depth on the same path, as the entry that
\* takes the place of a deleted rule's entries.
rule_find_less_specific(key) ==
  LET Shorter(d) == [ip |-> ip6_mask_addr(key.ip, d), depth |-> d]
      found == {d \in 1..(key.depth - 1) : Shorter(d) \in DOMAIN rules}
      best  == CHOOSE d \in found : \A c \in found : c <= d
  IN  IF found = {} THEN Invalid ELSE Leaf(rules[Shorter(best)], best)

-----------------------------------------------------------------------------
(* Writing the tables *)

LinkedFrom(t, cells) == {tbl[t][j].next_hop : j \in {c \in cells : IsLink(tbl[t][c])}}

\* The groups expand_rule visits when it starts from these.
Subtree(groups) ==
  LET s[n \in 0..IPV6_ADDR_SIZE] ==
        IF n = 0 THEN groups
        ELSE LET above == s[n - 1]
             IN  above \cup UNION {LinkedFrom(g, Slots(g)) : g \in above}
  IN  s[IPV6_ADDR_SIZE]

\* An entry gives way to a rule that is at least as specific; one a deleted
\* rule had written is its own.
\* Mutant of Yields: an entry of the same depth, the rule's own, stays.
YieldsStrictly(e, depth) == ~e.valid \/ (~e.ext_entry /\ e.depth < depth)
Yields(e, depth) == ~e.valid \/ (~e.ext_entry /\ e.depth <= depth)

\* Mutant of BelongsTo: entries of more specific rules count as well.
BelongsOrDeeper(e, depth) == ~e.ext_entry /\ e.depth >= depth
BelongsTo(e, depth) == ~e.ext_entry /\ e.depth = depth

\* Write `new' over the hit ones of the cells of t and, in the groups linked
\* from those cells, over every entry that yields to the depth (expand_rule).
WriteRule(t, cells, hit, depth, new) ==
  LET below == Subtree(LinkedFrom(t, cells))
  IN  [u \in Tables |-> [j \in Slots(u) |->
        IF \/ u = t /\ j \in hit
           \/ u \in below /\ Yields(tbl[u][j], depth)
        THEN new
        ELSE tbl[u][j]]]

-----------------------------------------------------------------------------
(* The pool, the headers and the counters *)

\* The group tbl8_get takes from the pool, which then moves up by one.
tbl8_get == tbl8_pool[tbl8_pool_pos]

\* Mutant of tbl8_put: the index is stored before the position moves.
tbl8_put_above(g) ==
  IF tbl8_pool_pos = 0
  THEN UNCHANGED <<tbl8_pool, tbl8_pool_pos>>
  ELSE /\ tbl8_pool_pos' = tbl8_pool_pos - 1
       /\ tbl8_pool' = [tbl8_pool EXCEPT ![tbl8_pool_pos] = g]

tbl8_put(g) ==
  IF tbl8_pool_pos = 0
  THEN UNCHANGED <<tbl8_pool, tbl8_pool_pos>>
  ELSE /\ tbl8_pool_pos' = tbl8_pool_pos - 1
       /\ tbl8_pool' = [tbl8_pool EXCEPT ![tbl8_pool_pos - 1] = g]

\* Mutants of init_tbl8_header: every group owned by the top table, and every
\* group linked from the first entry of its owner.
init_tbl8_header_top(t, j) ==
  [owner_tbl_ind |-> TBL24_IND, owner_entry_ind |-> j, ref_cnt |-> 0]
init_tbl8_header_first(t, j) ==
  [owner_tbl_ind |-> t, owner_entry_ind |-> 0, ref_cnt |-> 0]

init_tbl8_header(t, j) ==
  [owner_tbl_ind |-> t, owner_entry_ind |-> j, ref_cnt |-> 0]

\* Mutant of Referenced: nothing is counted.
Unreferenced(hdrs, t) == hdrs

\* A reference more, to the table that holds a new rule or a new link; tbl24
\* has no header.
Referenced(hdrs, t) ==
  IF t = TBL24_IND THEN hdrs
  ELSE [hdrs EXCEPT ![t].ref_cnt = (@ + 1) % REF_MOD]

\* Mutant of LastReference: a table goes with its last but one reference.
FewReferences(count) == count <= 1

\* --ref_cnt == 0
LastReference(count) == count = 0

\* Mutant of HasRoom: no limit.
AlwaysRoom(key) == TRUE

\* rule_add refuses a new rule in a full table.
HasRoom(key) == key \in DOMAIN rules \/ used_rules # MAX_RULES

\* Mutant of CountWith: an overwritten rule is counted again.
CountWithAgain(key) == used_rules + 1

\* used_rules once rule_add has added the rule.
CountWith(key) == IF key \in DOMAIN rules THEN used_rules ELSE used_rules + 1

\* used_rules once rule_delete has removed the rules it finds.
CountWithout(keys) == used_rules - Cardinality(DOMAIN rules \cap keys)

-----------------------------------------------------------------------------
(* Calls *)

Answer(status) == [status |-> status, hop |-> MISS]

Idle ==
  [pc |-> "idle", key |-> [ip |-> 0, depth |-> 1], entry |-> Invalid,
   fresh |-> FALSE, cur |-> TBL24_IND, level |-> ADD_FIRST_BYTE,
   chain |-> <<>>, todo |-> {}]

Reject(status) ==
  ret' = Answer(status) /\ UNCHANGED <<rules, used_rules, tables, op>>

\* The writer is about to walk down from tbl24 with the rule's entry; `fresh'
\* is is_new_rule, `todo' the rules a bulk deletion still has to insert again.
StartAdd(key, hop, fresh, todo) ==
  op' = [Idle EXCEPT !.pc = "add", !.key = key, !.entry = Leaf(hop, key.depth),
                     !.fresh = fresh, !.todo = todo]

Create ==
  /\ rules = NoRules
  /\ used_rules = 0
  /\ tbl = ZeroTables
  /\ tbl8_pool = FullPool
  /\ tbl8_pool_pos = 0
  \* uninitialised in the code, set before they are first read
  /\ tbl8_hdrs = [g \in Groups |-> [owner_tbl_ind |-> TBL24_IND,
                                    owner_entry_ind |-> 0, ref_cnt |-> 0]]
  /\ op = Idle
  /\ ret = Answer("ok")

RejectDepth(r) ==
  /\ op.pc = "idle"
  /\ r.depth \notin Depth
  /\ Reject("EINVAL")

\* simulate_add finds too few free groups and throws.
AddThrows(r) ==
  /\ op.pc = "idle"
  /\ r.depth \in Depth
  /\ tbl8_available < simulate_add(Masked(r))
  /\ Reject("exception")

\* rule_add finds the rule table full.
AddNoSpace(r) ==
  /\ op.pc = "idle"
  /\ r.depth \in Depth
  /\ tbl8_available >= simulate_add(Masked(r))
  /\ ~HasRoom(Masked(r))
  /\ Reject("ENOSPC")

Add(r, hop) ==
  LET key == Masked(r)
  IN  /\ op.pc = "idle"
      /\ r.depth \in Depth
      /\ tbl8_available >= simulate_add(key)
      /\ HasRoom(key)
      /\ rules' = WithRule(rules, key, hop)
      /\ used_rules' = CountWith(key)
      /\ StartAdd(key, hop, key \notin DOMAIN rules, {})
      /\ ret' = Answer("pending")
      /\ UNCHANGED tables

-----------------------------------------------------------------------------
(* The steps of an insertion: one add_step per level *)

AddSlot  == get_bitshift(op.key.ip, op.level)
AddEntry == tbl[op.cur][AddSlot]
Deeper   == op.key.depth > BitsCovered(op.level)

\* Mutant of Descend: the loop goes on with the table and the level it has.
StayHere(g) == op' = op

Descend(g) == op' = [op EXCEPT !.cur = g, !.level = @ + 1]

\* Mutant of PushedDown: the new group starts out empty.
NotPushedDown(e) == Invalid

\* What a new group is filled with: the leaf whose entry becomes its link.
PushedDown(e) == IF e.valid THEN e ELSE Invalid

RuleCounted == IF op.fresh THEN Referenced(tbl8_hdrs, op.cur) ELSE tbl8_hdrs

\* The rule goes deeper and the entry is no link: take a group, fill it, link
\* it.  An empty pool has no action: the code would throw out of the middle
\* of the insertion, and AdmittedAddNeverRunsDry says that it never does.
AddStepNewTable ==
  LET g == tbl8_get
      header == init_tbl8_header(op.cur, AddSlot)
      filled == [tbl EXCEPT ![g] = [j \in Slots(g) |-> PushedDown(AddEntry)]]
  IN  /\ op.pc = "add"
      /\ Deeper
      /\ ~IsLink(AddEntry)
      /\ tbl8_pool_pos # NUMBER_TBL8S
      /\ tbl8_pool_pos' = tbl8_pool_pos + 1
      /\ tbl' = [filled EXCEPT ![op.cur][AddSlot] = Link(g)]
      /\ tbl8_hdrs' = Referenced([tbl8_hdrs EXCEPT ![g] = header], op.cur)
      /\ Descend(Link(g).next_hop)
      /\ UNCHANGED <<rules, used_rules, tbl8_pool, ret>>

\* The group below exists already.
AddStepDescend ==
  /\ op.pc = "add"
  /\ Deeper
  /\ IsLink(AddEntry)
  /\ Descend(AddEntry.next_hop)
  /\ UNCHANGED <<rules, used_rules, tables, ret>>

\* The rule ends in this table: expand it, count it, return.
AddStepLast ==
  /\ op.pc = "add"
  /\ ~Deeper
  /\ LET cells == RuleRange(op.key, op.level)
         hit   == {j \in cells : Yields(tbl[op.cur][j], op.key.depth)}
     IN  tbl' = WriteRule(op.cur, cells, hit, op.key.depth, op.entry)
  /\ tbl8_hdrs' = RuleCounted
  /\ IF op.todo = {}
     THEN op' = Idle /\ ret' = Answer("ok")
     ELSE op' = [Idle EXCEPT !.pc = "rebuild", !.todo = op.todo] /\ UNCHANGED ret
  /\ UNCHANGED <<rules, used_rules, tbl8_pool, tbl8_pool_pos>>

-----------------------------------------------------------------------------
(* Deletion of one rule *)

DeleteAbsent(r) ==
  /\ op.pc = "idle"
  /\ r.depth \in Depth
  /\ Masked(r) \notin DOMAIN rules
  /\ Reject("ENOENT")

\* rule_delete, rule_find_range and rule_find_less_specific.  The range is
\* only found, and the assertions on the way only hold, if links lead from
\* tbl24 to the table where the rule ends.
Delete(r) ==
  LET key   == Masked(r)
      level == LevelOf(key.depth)
  IN  /\ op.pc = "idle"
      /\ r.depth \in Depth
      /\ key \in DOMAIN rules
      /\ rules' = WithoutRules(rules, {key})
      /\ used_rules' = CountWithout({key})
      /\ \E t \in Tables :
           /\ t = Walk(key.ip)[level]
           /\ op' = [Idle EXCEPT !.pc = IF t = TBL24_IND THEN "clear" ELSE "unref",
                                 !.key = key, !.cur = t, !.level = level,
                                 !.entry = rule_find_less_specific(key)]
      /\ ret' = Answer("pending")
      /\ UNCHANGED tables

\* --ref_cnt of the rule's table, then of its owner as long as it reaches
\* zero: `chain' lists the tables to remove, the outermost first, which is
\* the order in which the recursion of remove_tbl unlinks them.
DeleteUnref ==
  LET count == (tbl8_hdrs[op.cur].ref_cnt - 1) % REF_MOD
      owner == tbl8_hdrs[op.cur].owner_tbl_ind
  IN  /\ op.pc = "unref"
      /\ tbl8_hdrs' = [tbl8_hdrs EXCEPT ![op.cur].ref_cnt = count]
      /\ \/ /\ ~LastReference(count)
            /\ op' = [op EXCEPT !.pc = IF op.chain = <<>> THEN "clear" ELSE "unlink"]
         \/ /\ LastReference(count)
            /\ op' = [op EXCEPT !.chain = <<op.cur>> \o @,
                                !.pc = IF owner = TBL24_IND THEN "unlink" ELSE "unref",
                                !.cur = owner]
      /\ UNCHANGED <<rules, used_rules, tbl, tbl8_pool, tbl8_pool_pos, ret>>

\* remove_tbl: overwrite the link with the less specific rule and put the
\* group back into the pool.
DeleteUnlink ==
  LET g == Head(op.chain)
      header == tbl8_hdrs[g]
  IN  /\ op.pc = "unlink"
      /\ tbl[header.owner_tbl_ind][header.owner_entry_ind].ext_entry
      /\ tbl' = [tbl EXCEPT ![header.owner_tbl_ind][header.owner_entry_ind] = op.entry]
      /\ tbl8_put(g)
      /\ IF Tail(op.chain) = <<>>
         THEN op' = Idle /\ ret' = Answer("ok")
         ELSE op' = [op EXCEPT !.chain = Tail(@)] /\ UNCHANGED ret
      /\ UNCHANGED <<rules, used_rules, tbl8_hdrs>>

\* The table stays: hand the rule's entries to the less specific rule.
DeleteClear ==
  /\ op.pc = "clear"
  /\ LET cells == RuleRange(op.key, op.level)
         hit   == {j \in cells : BelongsTo(tbl[op.cur][j], op.key.depth)}
     IN  tbl' = WriteRule(op.cur, cells, hit, op.key.depth, op.entry)
  /\ op' = Idle
  /\ ret' = Answer("ok")
  /\ UNCHANGED <<rules, used_rules, tbl8_pool, tbl8_pool_pos, tbl8_hdrs>>

-----------------------------------------------------------------------------
(* Deletion of many rules *)

\* Mutant of ResetTables: the pool is not reset.
ZeroOnly ==
  /\ tbl' = ZeroTables
  /\ UNCHANGED <<tbl8_pool, tbl8_pool_pos, tbl8_hdrs>>

ResetTables ==
  /\ tbl' = ZeroTables
  /\ tbl8_pool' = FullPool
  /\ tbl8_pool_pos' = 0
  /\ UNCHANGED tbl8_hdrs

DeleteAll ==
  /\ op.pc = "idle"
  /\ rules' = NoRules
  /\ used_rules' = 0
  /\ ResetTables
  /\ ret' = Answer("ok")
  /\ UNCHANGED op

\* Drop the rules from the rule table, zero the tables, and insert the rules
\* that are left again, in the order of the hash table.
DeleteBulk(keys) ==
  LET left == DOMAIN rules \ keys
  IN  /\ op.pc = "idle"
      /\ rules' = WithoutRules(rules, keys)
      /\ used_rules' = CountWithout(keys)
      /\ ResetTables
      /\ IF left = {}
         THEN UNCHANGED op /\ ret' = Answer("ok")
         ELSE /\ op' = [Idle EXCEPT !.pc = "rebuild", !.todo = left]
              /\ ret' = Answer("pending")

\* rebuild_lpm: a rule that is in the rule table is added to it again, so it
\* is never a new one.
Rebuild(key) ==
  /\ op.pc = "rebuild"
  /\ key \in op.todo
  /\ tbl8_available >= simulate_add(key)
  /\ StartAdd(key, rules[key], FALSE, op.todo \ {key})
  /\ UNCHANGED <<rules, used_rules, tables, ret>>

-----------------------------------------------------------------------------
(* Lookup, and the specifications *)

Lookup(ip) ==
  /\ op.pc = "idle"
  /\ ret' = [status |-> IF LookupHop(ip) = MISS THEN "ENOENT" ELSE "ok",
             hop |-> LookupHop(ip)]
  /\ UNCHANGED <<rules, used_rules, tables, op>>

Update ==
  \/ \E r \in Routes :
       \/ RejectDepth(r)
       \/ AddThrows(r)
       \/ AddNoSpace(r)
       \/ \E hop \in NextHops : Add(r, hop)
  \/ DeleteAll

Remove == \E r \in Routes : DeleteAbsent(r) \/ Delete(r)

AddStep == AddStepNewTable \/ AddStepDescend \/ AddStepLast
DeleteStep == DeleteUnref \/ DeleteUnlink \/ DeleteClear

BulkKeys == {Masked(r) : r \in {q \in Routes : q.depth \in Depth}}
Bulk ==
  \/ \E keys \in SUBSET BulkKeys : Cardinality(keys) <= MAX_BULK /\ DeleteBulk(keys)
  \/ \E key \in BulkKeys : Rebuild(key)

Lookups == \E ip \in Probes : Lookup(ip)

\* Callers that insert, delete one rule or all of them, and look up.
Next == Update \/ Remove \/ AddStep \/ DeleteStep \/ Lookups
Spec == Create /\ [][Next]_vars

\* A call runs on the caller's thread and nothing in it waits.
FairSpec == Spec /\ WF_vars(AddStep) /\ WF_vars(DeleteStep)

\* Callers that delete rules only in bulk, and callers that do everything.
BulkNext == Update \/ AddStep \/ Bulk \/ Lookups
BulkSpec == Create /\ [][BulkNext]_vars

AnyNext == Next \/ Bulk
AnySpec == Create /\ [][AnyNext]_vars

-----------------------------------------------------------------------------
(* Properties *)

Quiet == op.pc = "idle"

\* What the operations keep of the shapes their variables have.  In an entry
\* the flag ext_entry says which of its two meanings the next_hop field has.
Entry ==
  {e \in [next_hop : Nat, depth : 0..MAX_DEPTH, valid : BOOLEAN, ext_entry : BOOLEAN] :
     e.ext_entry => e.valid /\ e.next_hop \in Groups}

Header == [owner_tbl_ind : Tables, owner_entry_ind : Nat, ref_cnt : 0..(REF_MOD - 1)]

Call ==
  [pc : {"idle", "add", "unref", "unlink", "clear", "rebuild"},
   key : Prefix, entry : Entry, fresh : BOOLEAN, cur : Tables, level : Levels,
   chain : Seq(Groups), todo : SUBSET Prefix]

Status == {"ok", "pending", "EINVAL", "ENOSPC", "ENOENT", "exception"}

\* Every variable keeps its type; the counters of rules and of groups stay
\* within the capacities given to create.
TypeOK ==
  /\ DOMAIN rules \subseteq Prefix
  /\ rules \in [DOMAIN rules -> NextHops]
  /\ used_rules \in 0..MAX_RULES
  /\ DOMAIN tbl = Tables
  /\ \A t \in Tables : tbl[t] \in [Slots(t) -> Entry]
  /\ tbl8_pool \in [Groups -> Groups]
  /\ tbl8_pool_pos \in 0..NUMBER_TBL8S
  /\ tbl8_hdrs \in [Groups -> Header]
  /\ op \in Call
  /\ ret.status \in Status

\* The locals of a call fit its progress: tbl24 is where an insertion starts
\* and no other level's table; references are only counted in a group's
\* header; the rules to insert again are still in the rule table; and a call
\* that has returned leaves nothing behind.
CallOK ==
  /\ op.pc = "idle" => op = Idle
  /\ op.pc = "add" => (op.cur = TBL24_IND <=> op.level = ADD_FIRST_BYTE)
  /\ op.pc = "unref" => op.cur \in Groups
  /\ op.pc = "unlink" => op.chain # <<>>
  /\ op.todo \subseteq DOMAIN rules

\* used_rules, which rule_add compares with max_rules, counts the rules.
RulesCounted ==
  /\ IsFiniteSet(DOMAIN rules)
  /\ used_rules = Cardinality(DOMAIN rules)

\* multibit_rte_lpm6_lookup answers, for every address, the next hop of the
\* most specific rule in the rule table, and a miss if there is none: the
\* expanded tables and the rule table say the same whenever no call runs.
LookupIsLongestMatch ==
  Quiet => \A ip \in Address : LookupHop(ip) = LongestMatch(rules, ip)

\* No step of an update gives any address an answer that is not the one it
\* had or the one the new rules call for: links are set after the group they
\* lead to is filled, and cleared without disturbing other prefixes.
OnlyOldOrNewAnswers ==
  [][\A ip \in Address :
       HopIn(tbl', ip) \in {HopIn(tbl, ip), LongestMatch(rules', ip)}]_tbl

Reachable == Subtree(LinkedFrom(TBL24_IND, Slots(TBL24_IND)))
Free      == {tbl8_pool[i] : i \in tbl8_pool_pos..(NUMBER_TBL8S - 1)}

\* The stack of free groups holds each free group once, and a group is free
\* exactly if no link leads to it: nothing is leaked, nothing that lookups
\* may still walk is handed out again (tbl8_get, tbl8_put).
PoolIsWhatIsUnlinked ==
  op.pc # "unlink" =>
    /\ Cardinality(Free) = NUMBER_TBL8S - tbl8_pool_pos
    /\ Free = Groups \ Reachable

\* A group's ref_cnt is the number of rules that end in it plus the number of
\* groups linked from it, and is never zero while the group is linked; that
\* is what makes "--ref_cnt == 0" the right moment to remove a group.
RefCountsExact ==
  Quiet => \A g \in Reachable :
    LET rules_in == {k \in DOMAIN rules : Walk(k.ip)[LevelOf(k.depth)] = g}
        links_in == {j \in Slots(g) : IsLink(tbl[g][j])}
    IN  /\ tbl8_hdrs[g].ref_cnt = Cardinality(rules_in) + Cardinality(links_in)
        /\ tbl8_hdrs[g].ref_cnt # 0

\* The header of a linked group names the one entry that links it, which is
\* where remove_tbl will write.
OwnersExact ==
  op.pc # "unlink" =>
    \A t \in Reachable \cup {TBL24_IND} : \A j \in Slots(t) :
      IsLink(tbl[t][j]) =>
        /\ tbl8_hdrs[tbl[t][j].next_hop].owner_tbl_ind = t
        /\ tbl8_hdrs[tbl[t][j].next_hop].owner_entry_ind = j

\* The assertions of the deletion hold: links lead to the table of every rule
\* that could be deleted (rule_find_range), and the entry a group is unlinked
\* from is still a link, with room in the pool (remove_tbl).
RuleTablesLinked ==
  Quiet => \A k \in DOMAIN rules : Walk(k.ip)[LevelOf(k.depth)] # NO_TABLE

UnlinkFindsLink ==
  op.pc = "unlink" =>
    LET header == tbl8_hdrs[Head(op.chain)]
    IN  /\ tbl[header.owner_tbl_ind][header.owner_entry_ind].ext_entry
        /\ tbl8_pool_pos # 0

\* simulate_add counts what add_step takes: an insertion that was admitted
\* never finds the pool empty half way, when the rule is already in the table.
AdmittedAddNeverRunsDry ==
  op.pc = "add" /\ Deeper /\ ~IsLink(AddEntry) => tbl8_pool_pos # NUMBER_TBL8S

\* rebuild_lpm finds room for every rule that is left.
RebuildAlwaysFits ==
  op.pc = "rebuild" => \A key \in op.todo : tbl8_available >= simulate_add(key)

\* The tables implement the dictionary of rules that module Lpm promises.
Promise == INSTANCE Lpm
ImplementsLpm == Promise!Spec

\* Every call returns: each step goes down a level, or up to an owner.
CallsReturn == (op.pc # "idle") ~> (op.pc = "idle")
=============================================================================
