-------------------------------- MODULE Lpm6 --------------------------------
(***************************************************************************)
(* The LPM object of tries/OMAR_dpdk_lpm6.c, with lookups beside the       *)
(* updates.  Its tables are those of multibit_dpdk.c with a top table      *)
(* tbl24 indexed by ADD_FIRST_BYTE = 3 bytes.                              *)
(*                                                                         *)
(* One thread updates the object: an insertion is an action for its checks *)
(* and the rule table, and one for each group it fills, each link it sets  *)
(* and each cell it expands.  Another thread looks up an array of          *)
(* addresses, one entry of a table to an action.                           *)
(*                                                                         *)
(* There is no lock in the code.  Entries are assigned as a whole, which   *)
(* lets lookups run beside insertions; a deletion puts groups back, or     *)
(* zeroes all of them, so the callers here delete only while nothing is    *)
(* looked up, and those that delete in bulk look nothing up at all.        *)
(***************************************************************************)
EXTENDS IPv6Prefix, Sequences, FiniteSets

CONSTANTS
  ADD_FIRST_BYTE,   \* bytes that index tbl24: 3
  MAX_RULES,        \* config->max_rules
  NUMBER_TBL8S,     \* config->number_tbl8s
  NEXT_HOP_BITS,    \* width of next_hop and lpm6_tbl8_gindex: 21
  REF_MOD,          \* 2^32, the modulus of ref_cnt
  NextHops,         \* next hops the callers route to
  Routes,           \* [ip, depth] pairs the callers pass, not masked
  Arrays            \* sequences of addresses they look up at once, not empty

ASSUME Lpm6Assumption ==
  /\ ADD_FIRST_BYTE \in 1..IPV6_ADDR_SIZE
  /\ MAX_RULES \in Nat \ {0}
  /\ NEXT_HOP_BITS \in Nat
  /\ 2 ^ NEXT_HOP_BITS \in Nat \ {0}
  /\ NUMBER_TBL8S \in 0..2 ^ NEXT_HOP_BITS
  /\ REF_MOD \in Nat \ {0}
  /\ NextHops \subseteq Nat
  /\ Routes \subseteq [ip : Address, depth : 0..(MAX_DEPTH + 1)]
  /\ Arrays \subseteq Seq(Address) \ {<<>>}

VARIABLES
  rules,           \* lpm->rules_tbl, a function from prefixes to next hops
  used_rules,      \* lpm->used_rules
  tbl,             \* tbl[TBL24_IND] is lpm->tbl24, tbl[g] the g-th group of lpm->tbl8
  tbl8_pool,       \* lpm->tbl8_pool: stack of the indexes of free groups
  tbl8_pool_pos,   \* lpm->tbl8_pool_pos: groups handed out so far
  tbl8_hdrs,       \* lpm->tbl8_hdrs: owner and reference counter of a group
  op,              \* the running update and its locals
  ret,             \* the answer to the last update
  reader,          \* the running lookup and its locals
  before,          \* the rules before the running update (not in the code)
  deletes          \* how the callers delete rules: "one" by one or in "bulk"

pool == <<tbl8_pool, tbl8_pool_pos>>
tables == <<tbl, pool, tbl8_hdrs>>
vars == <<rules, used_rules, tables, op, ret, reader, before, deletes>>

-----------------------------------------------------------------------------
(* Tables *)

TBL24_IND == -1
NO_TABLE == -2
Groups == 0..(NUMBER_TBL8S - 1)
Tables == Groups \cup {TBL24_IND}

\* A table's level is the number of bytes consumed once its index is taken.
Levels == ADD_FIRST_BYTE..IPV6_ADDR_SIZE
BitsCovered(level) == level * BYTE_SIZE
StepBits(level) ==
  IF level = ADD_FIRST_BYTE THEN BitsCovered(level) ELSE BYTE_SIZE
LevelOf(depth) ==
  CHOOSE n \in Levels : /\ depth <= BitsCovered(n)
                        /\ n = ADD_FIRST_BYTE \/ depth > BitsCovered(n - 1)

Slots(t) ==
  0..(2 ^ StepBits(IF t = TBL24_IND THEN ADD_FIRST_BYTE ELSE ADD_FIRST_BYTE + 1) - 1)
Places == UNION {{t} \X Slots(t) : t \in Tables}

get_bitshift(ip, level) ==
  (ip \div 2 ^ (MAX_DEPTH - BitsCovered(level))) % 2 ^ StepBits(level)

Leaf(hop, depth) ==
  [next_hop |-> hop % 2 ^ NEXT_HOP_BITS, depth |-> depth,
   valid |-> TRUE, ext_entry |-> FALSE]
Link(g) ==
  [next_hop |-> g % 2 ^ NEXT_HOP_BITS, depth |-> 0,
   valid |-> TRUE, ext_entry |-> TRUE]
Invalid == [next_hop |-> 0, depth |-> 0, valid |-> FALSE, ext_entry |-> FALSE]

IsLink(e) == e.valid /\ e.ext_entry
HopOf(e)  == IF e.valid THEN e.next_hop ELSE MISS

\* The tables the links lead through, from tbl24 on, by level.
Path(ip) ==
  LET t[n \in Levels] ==
        IF n = ADD_FIRST_BYTE
        THEN TBL24_IND
        ELSE LET above == t[n - 1]
                 e == tbl[above][get_bitshift(ip, n - 1)]
             IN  IF above # NO_TABLE /\ IsLink(e) THEN e.next_hop ELSE NO_TABLE
  IN  t

\* The level of the last table on the way to an address, no deeper than n.
LastLevel(path, n) ==
  CHOOSE m \in ADD_FIRST_BYTE..n :
    /\ path[m] # NO_TABLE
    /\ m = n \/ path[m + 1] = NO_TABLE

TableHop(ip) ==
  LET last == LastLevel(Path(ip), IPV6_ADDR_SIZE)
  IN  HopOf(tbl[Path(ip)[last]][get_bitshift(ip, last)])

LinkedFrom(t, cells) == {tbl[t][j].next_hop : j \in {c \in cells : IsLink(tbl[t][c])}}

\* The groups that expand_rule visits when it starts from these.
Subtree(groups) ==
  LET s[n \in 0..IPV6_ADDR_SIZE] ==
        IF n = 0 THEN groups
        ELSE LET above == s[n - 1]
             IN  above \cup UNION {LinkedFrom(g, Slots(g)) : g \in above}
  IN  s[IPV6_ADDR_SIZE]

\* Mutant of Yields: the entries of shorter rules are not overwritten.
YieldsInvalid(e, depth) == ~e.valid
Yields(e, depth) == ~e.valid \/ (~e.ext_entry /\ e.depth <= depth)

\* An entry a deleted rule had written is its own.
BelongsTo(e, depth) == ~e.ext_entry /\ e.depth = depth

\* A group that is put back is the next to be taken; a full pool takes none.
tbl8_put(g) ==
  IF tbl8_pool_pos = 0
  THEN UNCHANGED pool
  ELSE /\ tbl8_pool_pos' = tbl8_pool_pos - 1
       /\ tbl8_pool' = [tbl8_pool EXCEPT ![tbl8_pool_pos - 1] = g]

\* A reference more, to a group that holds a new rule or a new link.
Referenced(hdrs, t) ==
  IF t = TBL24_IND THEN hdrs
  ELSE [hdrs EXCEPT ![t].ref_cnt = (@ + 1) % REF_MOD]

ZeroTables == [t \in Tables |-> [j \in Slots(t) |-> Invalid]]
FullPool   == [i \in Groups |-> i]

ResetTables ==
  /\ tbl' = ZeroTables
  /\ tbl8_pool' = FullPool
  /\ tbl8_pool_pos' = 0
  /\ UNCHANGED tbl8_hdrs

-----------------------------------------------------------------------------
(* The updates *)

Idle ==
  [pc |-> "idle", call |-> "none", key |-> [ip |-> 0, depth |-> 1],
   entry |-> Invalid, fresh |-> FALSE, cur |-> TBL24_IND,
   level |-> ADD_FIRST_BYTE, i |-> 0, group |-> NO_TABLE, chain |-> <<>>,
   todo |-> {}]

NoLookup == [pc |-> "idle", ips |-> <<>>, i |-> 0, place |-> <<TBL24_IND, 0>>,
             level |-> ADD_FIRST_BYTE, held |-> {}]

rte_lpm6_create ==
  /\ rules = NoRules
  /\ used_rules = 0
  /\ tbl = ZeroTables
  /\ tbl8_pool = FullPool
  /\ tbl8_pool_pos = 0
  \* uninitialised in the code, set before they are first read
  /\ tbl8_hdrs = [g \in Groups |-> [owner_tbl_ind |-> TBL24_IND,
                                    owner_entry_ind |-> 0, ref_cnt |-> 0]]
  /\ op = Idle
  /\ ret = "ok"
  /\ reader = NoLookup
  /\ before = NoRules
  /\ deletes \in {"one", "bulk"}

\* -EINVAL, -ENOSPC, -ENOENT or an exception: the call does nothing.
Refuse(status) ==
  ret' = status /\ UNCHANGED <<rules, used_rules, tables, op, reader, before, deletes>>

\* The call is over, and a lookup that starts now sees only its rules.
Return ==
  op' = Idle /\ ret' = "ok" /\ before' = rules

RejectDepth(r) ==
  /\ op.pc = "idle"
  /\ r.depth \notin Depth
  /\ Refuse("EINVAL")

\* simulate_add: a group for each byte, or part of one, below the last table
\* on the way.
simulate_add(key) ==
  LET last == LastLevel(Path(key.ip), LevelOf(key.depth))
      rest == key.depth - BitsCovered(last)
  IN  IF rest <= 0 THEN 0
      ELSE rest \div BYTE_SIZE + (IF rest % BYTE_SIZE > 0 THEN 1 ELSE 0)

Fits(key) == NUMBER_TBL8S - tbl8_pool_pos >= simulate_add(key)

\* Mutant of HasRoom: the table never fills up.
AlwaysRoom(key) == TRUE
\* rule_add refuses a new rule in a full table.
HasRoom(key) == key \in DOMAIN rules \/ used_rules # MAX_RULES

\* simulate_add finds too few free groups and throws.
AddThrows(r) ==
  /\ op.pc = "idle"
  /\ r.depth \in Depth
  /\ ~Fits(Masked(r))
  /\ Refuse("exception")

\* rule_add finds the rule table full.
AddNoSpace(r) ==
  /\ op.pc = "idle"
  /\ r.depth \in Depth
  /\ Fits(Masked(r))
  /\ ~HasRoom(Masked(r))
  /\ Refuse("ENOSPC")

\* The locals of an insertion when it starts with tbl24.
AddFrom(call, key, hop, fresh, todo) ==
  [Idle EXCEPT !.pc = "add", !.call = call, !.key = key,
               !.entry = Leaf(hop, key.depth), !.fresh = fresh,
               !.i = get_bitshift(key.ip, ADD_FIRST_BYTE), !.todo = todo]

\* What the address that is being looked up may be answered from now on.
Promised(R) ==
  IF reader.pc = "idle" THEN reader
  ELSE [reader EXCEPT !.held = @ \cup {LongestMatch(R, reader.ips[reader.i])}]

rte_lpm6_add(r, hop) ==
  LET key == Masked(r)
  IN  /\ op.pc = "idle"
      /\ r.depth \in Depth
      /\ Fits(key)
      /\ HasRoom(key)
      /\ rules' = WithRule(rules, key, hop)
      /\ used_rules' = used_rules + (IF key \in DOMAIN rules THEN 0 ELSE 1)
      /\ op' = AddFrom("add", key, hop, key \notin DOMAIN rules, {})
      /\ ret' = "pending"
      /\ reader' = Promised(rules')
      /\ UNCHANGED <<tables, before, deletes>>

-----------------------------------------------------------------------------
(* add_step: a level of an insertion *)

CellEntry == tbl[op.cur][op.i]
Deeper    == op.key.depth > BitsCovered(op.level)

\* The cells the rule occupies in the table where it ends.
FirstCell == get_bitshift(op.key.ip, op.level)
LastCell  == FirstCell + 2 ^ (BitsCovered(op.level) - op.key.depth) - 1

Rest == <<rules, used_rules, reader, deletes>>

EnterTable(t) ==
  op' = [op EXCEPT !.pc = "add", !.cur = t, !.level = @ + 1,
                   !.i = get_bitshift(op.key.ip, op.level + 1), !.group = NO_TABLE]

\* Mutant of PushedDown: the new group starts out empty.
PushedDownNothing(e) == Invalid
\* What a new group is filled with: the leaf whose entry becomes its link.
PushedDown(e) == IF e.valid THEN e ELSE Invalid

\* The rule goes deeper and there is no table yet: take and fill a group.
FillGroup ==
  LET g == tbl8_pool[tbl8_pool_pos]
      header == [owner_tbl_ind |-> op.cur, owner_entry_ind |-> op.i, ref_cnt |-> 0]
  IN  /\ op.pc = "add"
      /\ Deeper
      /\ ~IsLink(CellEntry)
      /\ tbl8_pool_pos # NUMBER_TBL8S
      /\ tbl8_pool_pos' = tbl8_pool_pos + 1
      /\ tbl' = [tbl EXCEPT ![g] = [j \in Slots(g) |-> PushedDown(CellEntry)]]
      /\ tbl8_hdrs' = [tbl8_hdrs EXCEPT ![g] = header]
      /\ op' = [op EXCEPT !.pc = "link", !.group = g]
      /\ UNCHANGED <<Rest, tbl8_pool, ret, before>>

\* The cell with the flag and the index of the group set in one go.
Linked == [tbl EXCEPT ![op.cur][op.i] = Link(op.group)]

LinkGroup ==
  /\ op.pc = "link"
  /\ tbl' = Linked
  /\ tbl8_hdrs' = Referenced(tbl8_hdrs, op.cur)
  /\ EnterTable(op.group)
  /\ UNCHANGED <<Rest, pool, ret, before>>

Descend ==
  /\ op.pc = "add"
  /\ Deeper
  /\ IsLink(CellEntry)
  /\ EnterTable(CellEntry.next_hop)
  /\ UNCHANGED <<Rest, tables, ret, before>>

\* Mutant of Counted: a rule is counted each time it is written.
CountedAlways == Referenced(tbl8_hdrs, op.cur)
\* A new rule is a reference to its table.
Counted == IF op.fresh THEN Referenced(tbl8_hdrs, op.cur) ELSE tbl8_hdrs

\* What gives way in the cells of the rule, and in the groups behind them.
Hits(e) == IF op.pc = "clear" THEN BelongsTo(e, op.key.depth)
                              ELSE Yields(e, op.key.depth)

\* Cells of the running update, and the groups linked from them (expand_rule).
WriteCells(cells) ==
  LET below == Subtree(LinkedFrom(op.cur, cells))
      hit   == {j \in cells : Hits(tbl[op.cur][j])}
  IN  [u \in Tables |-> [j \in Slots(u) |->
        IF \/ u = op.cur /\ j \in hit
           \/ u \in below /\ Yields(tbl[u][j], op.key.depth)
        THEN op.entry
        ELSE tbl[u][j]]]

Rebuilding(todo) == [Idle EXCEPT !.pc = "rebuild", !.call = "bulk", !.todo = todo]

\* The rule ends in this table: its cells, one after another.
ExpandCell ==
  /\ op.pc = "add"
  /\ ~Deeper
  /\ tbl' = WriteCells({op.i})
  /\ \/ /\ op.i < LastCell
        /\ op' = [op EXCEPT !.i = @ + 1]
        /\ UNCHANGED <<tbl8_hdrs, ret, before>>
     \/ /\ op.i = LastCell
        /\ tbl8_hdrs' = Counted
        /\ IF op.todo = {} THEN Return
           ELSE op' = Rebuilding(op.todo) /\ UNCHANGED <<ret, before>>
  /\ UNCHANGED <<Rest, pool>>

-----------------------------------------------------------------------------
(* rte_lpm6_delete *)

CanDelete(how) == op.pc = "idle" /\ reader.pc = "idle" /\ deletes = how

DeleteAbsent(r) ==
  /\ CanDelete("one")
  /\ r.depth \in Depth
  /\ Masked(r) \notin DOMAIN rules
  /\ Refuse("ENOENT")

\* The rule with the greatest smaller depth on the same path, as the entry
\* that takes the place of a deleted rule's.
rule_find_less_specific(key) ==
  LET Shorter(d) == [ip |-> ip6_mask_addr(key.ip, d), depth |-> d]
      found == {d \in 1..(key.depth - 1) : Shorter(d) \in DOMAIN rules}
      best  == CHOOSE d \in found : \A c \in found : c <= d
  IN  IF found = {} THEN Invalid ELSE Leaf(rules[Shorter(best)], best)

\* rule_find_range asserts that links lead to the table where the rule ends.
rte_lpm6_delete(r) ==
  LET key   == Masked(r)
      level == LevelOf(key.depth)
      table == Path(key.ip)[level]
  IN  /\ CanDelete("one")
      /\ r.depth \in Depth
      /\ key \in DOMAIN rules
      /\ table # NO_TABLE
      /\ rules' = WithoutRules(rules, {key})
      /\ used_rules' = used_rules - 1
      /\ op' = [Idle EXCEPT !.pc = IF table = TBL24_IND THEN "clear" ELSE "unref",
                            !.call = "delete", !.key = key, !.cur = table,
                            !.level = level, !.i = get_bitshift(key.ip, level),
                            !.entry = rule_find_less_specific(key)]
      /\ ret' = "pending"
      /\ UNCHANGED <<tables, reader, before, deletes>>

\* --ref_cnt of the rule's group, then of its owner as long as it reaches
\* zero.  The outermost of the groups to remove is unlinked first.
Unref ==
  LET count == (tbl8_hdrs[op.cur].ref_cnt - 1) % REF_MOD
      above == tbl8_hdrs[op.cur].owner_tbl_ind
  IN  /\ op.pc = "unref"
      /\ tbl8_hdrs' = [tbl8_hdrs EXCEPT ![op.cur].ref_cnt = count]
      /\ \/ /\ count # 0
            /\ op' = [op EXCEPT !.pc = IF op.chain = <<>> THEN "clear" ELSE "unlink"]
         \/ /\ count = 0
            /\ op' = [op EXCEPT !.chain = <<op.cur>> \o @, !.cur = above,
                                !.pc = IF above = TBL24_IND THEN "unlink" ELSE "unref"]
      /\ UNCHANGED <<Rest, tbl, pool, ret, before>>

\* remove_tbl
Unlink ==
  LET g == Head(op.chain)
      header == tbl8_hdrs[g]
  IN  /\ op.pc = "unlink"
      /\ tbl[header.owner_tbl_ind][header.owner_entry_ind].ext_entry
      /\ tbl' = [tbl EXCEPT ![header.owner_tbl_ind][header.owner_entry_ind] = op.entry]
      /\ tbl8_put(g)
      /\ IF Tail(op.chain) = <<>> THEN Return
         ELSE op' = [op EXCEPT !.chain = Tail(@)] /\ UNCHANGED <<ret, before>>
      /\ UNCHANGED <<Rest, tbl8_hdrs>>

\* The table stays: its cells go to the less specific rule.
ClearCell ==
  /\ op.pc = "clear"
  /\ tbl' = WriteCells({op.i})
  /\ \/ op.i < LastCell /\ op' = [op EXCEPT !.i = @ + 1] /\ UNCHANGED <<ret, before>>
     \/ op.i = LastCell /\ Return
  /\ UNCHANGED <<Rest, pool, tbl8_hdrs>>

-----------------------------------------------------------------------------
(* Deletions of many rules *)

rte_lpm6_delete_all ==
  /\ CanDelete(deletes)
  /\ rules' = NoRules
  /\ used_rules' = 0
  /\ ResetTables
  /\ ret' = "ok"
  /\ before' = NoRules
  /\ UNCHANGED <<op, reader, deletes>>

\* The rules that are left are inserted again, in the order of a hash table.
rte_lpm6_delete_bulk(keys) ==
  LET left == DOMAIN rules \ keys
  IN  /\ CanDelete("bulk")
      /\ rules' = WithoutRules(rules, keys)
      /\ used_rules' = used_rules - Cardinality(DOMAIN rules \cap keys)
      /\ ResetTables
      /\ \/ /\ left = {}
            /\ ret' = "ok"
            /\ before' = NoRules
            /\ UNCHANGED op
         \/ /\ left # {}
            /\ op' = Rebuilding(left)
            /\ ret' = "pending"
            /\ UNCHANGED before
      /\ UNCHANGED <<reader, deletes>>

\* A rule that is in the rule table is added to it again: it is not new.
rebuild_lpm(key) ==
  /\ op.pc = "rebuild"
  /\ key \in op.todo
  /\ Fits(key)
  /\ op' = AddFrom("bulk", key, rules[key], FALSE, op.todo \ {key})
  /\ UNCHANGED <<Rest, tables, ret, before>>

-----------------------------------------------------------------------------
(* Lookups on another thread: an array, one element for rte_lpm6_lookup *)

\* The locals when the walk for an address starts, with the answers that its
\* rules and those before the running insertion give it.
AtTop(ips, i) ==
  [pc |-> "read", ips |-> ips, i |-> i,
   place |-> <<TBL24_IND, get_bitshift(ips[i], ADD_FIRST_BYTE)>>,
   level |-> ADD_FIRST_BYTE,
   held |-> {LongestMatch(R, ips[i]) : R \in {rules, before}}]

rte_lpm6_lookup_bulk(ips) ==
  /\ reader.pc = "idle"
  /\ deletes = "one"
  /\ op.call \in {"none", "add"}
  /\ reader' = AtTop(ips, 1)
  /\ UNCHANGED <<rules, used_rules, tables, op, ret, before, deletes>>

\* An entry is read: it leads to a group, or its hop is the answer, and the
\* next address follows, or the call returns.
lookup_step ==
  LET e    == tbl[reader.place[1]][reader.place[2]]
      slot == get_bitshift(reader.ips[reader.i], reader.level + 1)
  IN  /\ reader.pc = "read"
      /\ \/ /\ IsLink(e)
            /\ reader' = [reader EXCEPT !.place = <<e.next_hop, slot>>, !.level = @ + 1]
         \/ /\ ~IsLink(e)
            /\ reader' = IF reader.i < Len(reader.ips)
                         THEN AtTop(reader.ips, reader.i + 1) ELSE NoLookup
      /\ UNCHANGED <<rules, used_rules, tables, op, ret, before, deletes>>

-----------------------------------------------------------------------------
(* The specification *)

Keys == {Masked(r) : r \in {q \in Routes : q.depth \in Depth}}

Call ==
  \/ \E r \in Routes : \/ RejectDepth(r)
                       \/ AddThrows(r)
                       \/ AddNoSpace(r)
                       \/ \E hop \in NextHops : rte_lpm6_add(r, hop)
                       \/ DeleteAbsent(r)
                       \/ rte_lpm6_delete(r)
  \/ rte_lpm6_delete_all
  \/ \E keys \in SUBSET Keys : rte_lpm6_delete_bulk(keys)

Step ==
  \/ FillGroup
  \/ LinkGroup
  \/ Descend
  \/ ExpandCell
  \/ Unref
  \/ Unlink
  \/ ClearCell
  \/ \E key \in Keys : rebuild_lpm(key)

Lookups ==
  \/ \E ips \in Arrays : rte_lpm6_lookup_bulk(ips)
  \/ lookup_step

Next == Call \/ Step \/ Lookups
Spec == rte_lpm6_create /\ [][Next]_vars

-----------------------------------------------------------------------------
(* Properties *)

Entry ==
  {e \in [next_hop : Nat, depth : 0..MAX_DEPTH, valid : BOOLEAN, ext_entry : BOOLEAN] :
     e.ext_entry => e.valid /\ e.next_hop \in Groups}

\* Every variable has its type, and both threads stay within the tables and
\* within the bytes of an address: neither walk has a bound of its own
\* (lookup_step, add_step).
TypeOK ==
  /\ DOMAIN rules \subseteq Prefix
  /\ \A k \in DOMAIN rules : rules[k] \in NextHops
  /\ used_rules = Cardinality(DOMAIN rules) /\ used_rules <= MAX_RULES
  /\ DOMAIN tbl = Tables
  /\ \A t \in Tables : tbl[t] \in [Slots(t) -> Entry]
  /\ tbl8_pool \in [Groups -> Groups] /\ tbl8_pool_pos \in 0..NUMBER_TBL8S
  /\ \A g \in Groups :
       /\ tbl8_hdrs[g].owner_tbl_ind \in Tables
       /\ tbl8_hdrs[g].ref_cnt \in 0..(REF_MOD - 1)
  /\ op.level \in Levels /\ op.entry \in Entry
  /\ op.pc \in {"add", "link", "clear"} => <<op.cur, op.i>> \in Places
  /\ reader.level \in Levels /\ reader.place \in Places
  /\ IsLink(tbl[reader.place[1]][reader.place[2]]) /\ reader.pc = "read" =>
       reader.level < IPV6_ADDR_SIZE

\* A lookup beside insertions answers each address with the next hop of the
\* most specific rule at some moment while that address was looked up,
\* whatever entry its walk ends at: groups are filled before they are linked,
\* with the answer their link replaces, and no entry on the way is ever in
\* between (rte_lpm6_lookup, add_step: "assign whole structure in one go").
AnswersHeld ==
  reader.pc = "read" =>
    LET e == tbl[reader.place[1]][reader.place[2]] IN ~IsLink(e) => HopOf(e) \in reader.held

\* After every history of insertions and of single, bulk and complete
\* deletions, the tables answer each address with the next hop of the most
\* specific rule in the rule table.
LookupIsLongestMatch ==
  op.pc = "idle" => \A ip \in Address : TableHop(ip) = LongestMatch(rules, ip)

Linking == {p \in Places : IsLink(tbl[p[1]][p[2]])}
Target(p) == tbl[p[1]][p[2]].next_hop

\* Between calls each group is either free, once, or linked by the one entry
\* its header names, and then it is needed: where rules are deleted one by
\* one, its counter is the number of rules and links in it, and not zero.
GroupsCounted ==
  op.pc = "idle" =>
    /\ \A i, j \in tbl8_pool_pos..(NUMBER_TBL8S - 1) : tbl8_pool[i] = tbl8_pool[j] => i = j
    /\ {tbl8_pool[i] : i \in tbl8_pool_pos..(NUMBER_TBL8S - 1)}
         = Groups \ {Target(p) : p \in Linking}
    /\ \A p \in Linking :
         LET header == tbl8_hdrs[Target(p)]
         IN  p = <<header.owner_tbl_ind, header.owner_entry_ind>>
    /\ deletes = "one" =>
         \A p \in Linking :
           LET g == Target(p)
               rules_in == {k \in DOMAIN rules : Path(k.ip)[LevelOf(k.depth)] = g}
               links_in == {j \in Slots(g) : IsLink(tbl[g][j])}
           IN  /\ tbl8_hdrs[g].ref_cnt = Cardinality(rules_in) + Cardinality(links_in)
               /\ tbl8_hdrs[g].ref_cnt # 0

=============================================================================
