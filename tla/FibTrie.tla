------------------------------- MODULE FibTrie ------------------------------
(***************************************************************************)
(* An IPv6 fib: OMAR_dpdk_fib6.c with its two data planes, the dummy one,  *)
(* which answers from the RIB, and trie.c: a table tbl24 indexed by the    *)
(* first TBL24_BYTES bytes of an address, and groups indexed by one byte   *)
(* each.  An entry of either is a next hop or a link to a group.           *)
(*                                                                         *)
(* An update writes a next hop over the gaps that the nearest longer       *)
(* routes leave in the network of its route.  The first and the last       *)
(* address of a gap share some bytes: the tables along these are built,    *)
(* then the left edge is written table by table, the entries between the   *)
(* edges, and the right edge.  Groups that have become uniform are folded  *)
(* back into the entry that links them.                                    *)
(*                                                                         *)
(* A call is one action for its checks and the RIB, one per table on the   *)
(* way of a gap, and one to return; `op' holds its locals.                 *)
(***************************************************************************)
EXTENDS Rib, SequencesExt

CONSTANTS
  TBL24_BYTES,   \* bytes that index tbl24: 3
  NH_BITS,       \* bits of an entry besides its flag: 15, 31 or 63
  number_tbl8s,  \* conf->trie.num_tbl8
  RSVD_MOD,      \* 2^32, the modulus of rsvd_tbl8s
  Types,         \* data planes the callers ask for: "DUMMY", "TRIE"
  Routes,        \* [ip, depth] pairs the callers pass, not masked
  NextHops,      \* next hops they route to
  Probes         \* addresses they look up

\* get_max_nh
MAX_NH == 2 ^ NH_BITS - 1

\* What trie_create checks.
ASSUME FibTrieAssumption ==
  /\ MAX_ROUTES \in Nat
  /\ TBL24_BYTES \in 1..(IPV6_ADDR_SIZE - 1)
  /\ NH_BITS \in Nat \ {0}
  /\ MAX_NH \in Nat
  /\ number_tbl8s \in 1..MAX_NH
  /\ DEF_NH \in 0..MAX_NH
  /\ RSVD_MOD \in Nat \ {0}
  /\ Types \subseteq {"DUMMY", "TRIE"}
  /\ Routes \subseteq [ip : Address, depth : 0..(MAX_DEPTH + 1)]
  /\ NextHops \subseteq Nat
  /\ Probes \subseteq Address

VARIABLES
  type,         \* fib->type
  rib,          \* fib->rib, a function from networks to next hops
  entries,      \* dp->tbl24 and dp->tbl8, by table and index
  free,         \* dp->tbl8_pool from dp->tbl8_pool_pos on
  rsvd_tbl8s,   \* dp->rsvd_tbl8s
  op,           \* the running call and its locals
  ret,          \* the answer to the last call
  intact        \* no update has been lost or cut short so far (not in the code)

tables == <<entries, free>>
vars == <<type, rib, tables, rsvd_tbl8s, op, ret, intact>>

-----------------------------------------------------------------------------
(* Tables *)

tbl24 == -1
Groups == 0..(number_tbl8s - 1)
Slots == 0..(2 ^ BYTE_SIZE - 1)
Hops == 0..MAX_NH

\* An entry's place: its table and its index there.
Places == ({tbl24} \X (0..(2 ^ (BYTE_SIZE * TBL24_BYTES) - 1))) \cup (Groups \X Slots)

Leaf(hop) == [ext |-> FALSE, val |-> hop]
Link(g)   == [ext |-> TRUE, val |-> g]

Byte(ip, i) ==
  (ip \div 2 ^ (BYTE_SIZE * (IPV6_ADDR_SIZE - 1 - i))) % 2 ^ BYTE_SIZE

\* The tables a lookup walks through have the numbers 1, 2 and so on.  The
\* first is indexed by TBL24_BYTES bytes, the others by one byte each.
get_idx(ip, n) ==
  IF n = 1 THEN ip \div 2 ^ (BYTE_SIZE * (IPV6_ADDR_SIZE - TBL24_BYTES))
           ELSE Byte(ip, TBL24_BYTES + n - 2)

Depths == 1..(IPV6_ADDR_SIZE - TBL24_BYTES + 1)

\* What the scalar lookups read: the entry in table n, or the leaf above it.
Walk(ip) ==
  LET entry[n \in Depths] ==
        IF n = 1 THEN entries[<<tbl24, get_idx(ip, 1)>>]
        ELSE LET above == entry[n - 1]
             IN  IF above.ext THEN entries[<<above.val, get_idx(ip, n)>>] ELSE above
  IN  entry

TableHop(ip) == Walk(ip)[IPV6_ADDR_SIZE - TBL24_BYTES + 1].val

LookupHop(ip) == IF type = "DUMMY" THEN RibHop(rib, ip) ELSE TableHop(ip)

Written(places, e) == [p \in Places |-> IF p \in places THEN e ELSE entries[p]]

\* Mutants of tbl8_put: a group is put back twice, or not at all.
tbl8_put_twice(g) == <<g, g>> \o free
tbl8_put_nothing(g) == free
tbl8_put(g) == <<g>> \o free

-----------------------------------------------------------------------------
(* Calls *)

Answer(status) == [status |-> status, ip |-> MISS, hop |-> MISS]

\* `val', while write_edge has not stored it yet, is an entry.
NoVal == [ext |-> FALSE, val |-> MISS]

Idle ==
  [pc |-> "idle", call |-> "none", key |-> [ip |-> 0, depth |-> 0], hop |-> 0,
   diff |-> 0, ledge |-> 0, redge |-> 0, todo |-> {}, last |-> FALSE,
   path |-> <<tbl24>>, up |-> FALSE, val |-> NoVal]

Return(status) == ret' = Answer(status) /\ UNCHANGED <<type, tables, op, intact>>

\* modify_dp starts at the left end of the network.  `hop' is what it
\* writes, `todo' the longer routes it has still to step over.
modify_dp(call, key, hop, diff) ==
  /\ op' = [Idle EXCEPT !.pc = "gap", !.call = call, !.key = key, !.hop = hop,
                        !.diff = diff, !.ledge = key.ip, !.todo = Nearest(rib, key)]
  /\ ret' = Answer("pending")
  /\ UNCHANGED <<type, tables, rsvd_tbl8s, intact>>

trie_create ==
  /\ entries = [p \in Places |-> Leaf(IF p[1] = tbl24 THEN DEF_NH ELSE 0)]
  /\ free = [i \in 1..number_tbl8s |-> i - 1]
  /\ rsvd_tbl8s = 0

rte_fib6_create ==
  /\ type \in Types
  /\ rib = NoRules
  /\ trie_create
  /\ op = Idle
  /\ ret = Answer("ok")
  /\ intact = TRUE

\* The first check, by rte_fib6_add and rte_fib6_delete.
RejectDepth(r) ==
  /\ op.pc = "idle"
  /\ r.depth > MAX_DEPTH
  /\ Return("EINVAL")
  /\ UNCHANGED <<rib, rsvd_tbl8s>>

Called(data_plane, r) == op.pc = "idle" /\ type = data_plane /\ r.depth <= MAX_DEPTH

\* rte_rib6_insert finds no node for a new route.
NoNode(r) ==
  /\ Masked(r) \notin DOMAIN rib
  /\ RibFull(rib, Masked(r))
  /\ Return("ENOMEM")
  /\ UNCHANGED <<rib, rsvd_tbl8s>>

dummy_add(r, hop) ==
  /\ Called("DUMMY", r)
  /\ \/ NoNode(r)
     \/ /\ Masked(r) \in DOMAIN rib \/ ~RibFull(rib, Masked(r))
        /\ rib' = WithRule(rib, Masked(r), hop)
        /\ Return("ok")
        /\ UNCHANGED rsvd_tbl8s

dummy_delete(r) ==
  /\ Called("DUMMY", r)
  /\ \/ Masked(r) \notin DOMAIN rib /\ Return("ENOENT")
     \/ Masked(r) \in DOMAIN rib /\ Return("ok")
  /\ rib' = WithoutRules(rib, {Masked(r)})
  /\ UNCHANGED rsvd_tbl8s

-----------------------------------------------------------------------------
(* trie_modify *)

AlignFloor(depth) == (depth \div BYTE_SIZE) * BYTE_SIZE
AlignCeil(depth) == AlignFloor(depth + BYTE_SIZE - 1)
Tbl24Depth == BYTE_SIZE * TBL24_BYTES

\* The groups counted for a route: those below the longest route that holds
\* its address, provided that there is none next to it in the last group.
\* The address is looked up unmasked.
depth_diff(r) ==
  LET around == [ip |-> ip6_mask_addr(r.ip, AlignFloor(r.depth)),
                 depth |-> AlignFloor(r.depth)]
      parent_depth == Max({p.depth : p \in Matching(rib, r.ip)} \cup {Tbl24Depth})
  IN  IF r.depth <= Tbl24Depth \/ Longer(rib, around) # {} THEN 0
      ELSE (AlignCeil(r.depth) - AlignCeil(parent_depth)) \div BYTE_SIZE

\* Adding a route that is there with the same next hop, and, without effect
\* but with the same answer, with a next hop that is too large.
AddSame(r, hop) ==
  /\ Called("TRIE", r)
  /\ Masked(r) \in DOMAIN rib
  /\ \/ rib[Masked(r)] = hop
     \/ rib[Masked(r)] # hop /\ hop > MAX_NH
  /\ ret' = Answer("ok")
  /\ intact' = (intact /\ rib[Masked(r)] = hop)
  /\ UNCHANGED <<type, rib, tables, rsvd_tbl8s, op>>

Change(r, hop) ==
  /\ Called("TRIE", r)
  /\ Masked(r) \in DOMAIN rib
  /\ rib[Masked(r)] # hop
  /\ hop <= MAX_NH
  /\ modify_dp("change", Masked(r), hop, 0)
  /\ UNCHANGED rib

\* One group always stays unreserved.  The difference is unsigned.
Admitted(r) ==
  r.depth > Tbl24Depth => rsvd_tbl8s < (number_tbl8s - depth_diff(r)) % RSVD_MOD

\* The parent has the same next hop, so that the tables are right already.
SameAsAround(key, hop) == HasParent(rib, key) /\ ParentHop(rib, key) = hop

\* A new route that is refused for lack of groups or of nodes, or, after it
\* has been in the RIB, for its next hop.
AddRefused(r, hop) ==
  /\ Called("TRIE", r)
  /\ Masked(r) \notin DOMAIN rib
  /\ \/ ~Admitted(r) /\ Return("ENOSPC") /\ UNCHANGED <<rib, rsvd_tbl8s>>
     \/ Admitted(r) /\ NoNode(r)
     \/ /\ Admitted(r)
        /\ ~RibFull(rib, Masked(r))
        /\ hop > MAX_NH
        /\ Return("EINVAL")
        /\ UNCHANGED <<rib, rsvd_tbl8s>>

\* The groups of a route are not counted if its parent has the same next hop.
Add(r, hop) ==
  /\ Called("TRIE", r)
  /\ Masked(r) \notin DOMAIN rib
  /\ Admitted(r)
  /\ ~RibFull(rib, Masked(r))
  /\ hop <= MAX_NH
  /\ rib' = WithRule(rib, Masked(r), hop)
  /\ \/ SameAsAround(Masked(r), hop) /\ Return("ok") /\ UNCHANGED rsvd_tbl8s
     \/ ~SameAsAround(Masked(r), hop) /\ modify_dp("add", Masked(r), hop, depth_diff(r))

Removed(key, diff) ==
  /\ rib' = WithoutRules(rib, {key})
  /\ rsvd_tbl8s' = (rsvd_tbl8s - diff) % RSVD_MOD

DeleteAbsent(r) ==
  /\ Called("TRIE", r)
  /\ Masked(r) \notin DOMAIN rib
  /\ Return("ENOENT")
  /\ UNCHANGED <<rib, rsvd_tbl8s>>

\* The next hop of the parent, or the default one, takes over.
Delete(r) ==
  LET key == Masked(r)
  IN  /\ Called("TRIE", r)
      /\ key \in DOMAIN rib
      /\ \/ SameAsAround(key, rib[key]) /\ Return("ok") /\ Removed(key, depth_diff(r))
         \/ /\ ~SameAsAround(key, rib[key])
            /\ modify_dp("delete", key, ParentHop(rib, key), depth_diff(r))
            /\ UNCHANGED rib

-----------------------------------------------------------------------------
(* modify_dp: the gaps *)

Local == <<type, rib, rsvd_tbl8s, ret>>

\* Mutants of get_nxt_net: the end of the address space does not wrap, and the
\* carry stops at the byte it starts from.
get_nxt_net_wide(q) == q.ip + 2 ^ (MAX_DEPTH - q.depth)
get_nxt_net_without_carry(q) ==
  LET size == 2 ^ (BYTE_SIZE * (IPV6_ADDR_SIZE - (q.depth - 1) \div BYTE_SIZE))
  IN  IF q.depth = 0 THEN q.ip ELSE (q.ip \div size) * size + (End(q) % size)
get_nxt_net(q) == End(q)

\* The last address of a gap, and the leading bytes it shares with the first;
\* the last byte of an address is never counted.
LastIn(redge) == (redge - 1) % 2 ^ MAX_DEPTH

common_bytes(ip, last) ==
  Max({n \in 0..(IPV6_ADDR_SIZE - 1) : \A i \in 0..(n - 1) : Byte(ip, i) = Byte(last, i)})

\* The number of the table where the two edges part.
RootTable(ledge, redge) ==
  LET common == common_bytes(ledge, LastIn(redge))
  IN  IF common < TBL24_BYTES THEN 1 ELSE common - TBL24_BYTES + 2

\* install_to_dp
Install(ledge, redge, last) ==
  [op EXCEPT !.pc = IF RootTable(ledge, redge) = 1 THEN "ledge" ELSE "root",
             !.redge = redge, !.last = last]

\* Mutant of After: the enumeration of the longer routes starts over.
StartOver(q) == op.todo
After(q) == op.todo \ {q}

\* The gap before the next longer route, if it is not empty, is installed;
\* `ledge' is moved behind that route once it is.
NextGap ==
  /\ op.pc = "gap"
  /\ ~op.last
  /\ op.todo # {}
  /\ LET q == First(op.todo)
     IN  op' = IF op.ledge = q.ip
               THEN [op EXCEPT !.ledge = get_nxt_net(q), !.todo = After(q)]
               ELSE Install(op.ledge, q.ip, FALSE)
  /\ UNCHANGED <<Local, tables, intact>>

\* The gap up to the end of the network is the last one.
LastGap ==
  LET end == get_nxt_net(op.key)
  IN  /\ op.pc = "gap"
      /\ ~op.last
      /\ op.todo = {}
      /\ op' = IF op.ledge = end THEN [op EXCEPT !.last = TRUE]
                                 ELSE Install(op.ledge, end, TRUE)
      /\ UNCHANGED <<Local, tables, intact>>

-----------------------------------------------------------------------------
(* install_to_dp: the tables of a gap *)

Root == RootTable(op.ledge, op.redge)

\* The edge that is written, and the byte value that leaves the groups of the
\* rest of its address to the entry above.
Edge == IF op.pc = "redge" THEN LastIn(op.redge) ELSE op.ledge
Filler == IF op.pc = "redge" THEN 2 ^ BYTE_SIZE - 1 ELSE 0

\* The number of the last table of an edge.  Below tbl24 there is at least
\* one, even if it will be uniform.
BottomTable ==
  LET first == Max({common_bytes(op.ledge, LastIn(op.redge)), TBL24_BYTES})
      used  == {i \in (first + 1)..(IPV6_ADDR_SIZE - 1) : Byte(Edge, i) # Filler}
  IN  Max(used \cup {first}) - TBL24_BYTES + 2

Level == Len(op.path)
Place(n) == <<op.path[n], get_idx(Edge, n)>>
Here == Place(Level)

Descending ==
  \/ op.pc = "root"
  \/ op.pc \in {"ledge", "redge"} /\ ~op.up /\ Level < BottomTable

\* The group behind the entry, or a new one filled with the entry.
Enter(g) ==
  LET path == Append(op.path, g)
  IN  op' = [op EXCEPT !.path = path,
                       !.pc = IF @ = "root" /\ Len(path) = Root THEN "ledge" ELSE @]

Follow ==
  /\ Descending
  /\ entries[Here].ext
  /\ Enter(entries[Here].val)
  /\ UNCHANGED <<Local, tables, intact>>

\* Mutant of Initial: a new group starts out with the default next hop.
InitialDefault(e) == Leaf(DEF_NH)
Initial(e) == e

\* The root is linked at once, an edge when it has been written.
tbl8_alloc ==
  /\ Descending
  /\ ~entries[Here].ext
  /\ free # <<>>
  /\ LET g == Head(free)
         filled == Written({g} \X Slots, Initial(entries[Here]))
     IN  /\ entries' = IF op.pc = "root" THEN [filled EXCEPT ![Here] = Link(g)] ELSE filled
         /\ free' = Tail(free)
         /\ Enter(g)
  /\ UNCHANGED <<Local, intact>>

\* -ENOSPC: what has been linked stays, what has only been taken is lost.
OutOfGroups ==
  /\ Descending
  /\ ~entries[Here].ext
  /\ free = <<>>
  /\ op' = [op EXCEPT !.pc = "failed"]
  /\ intact' = FALSE
  /\ UNCHANGED <<Local, tables>>

\* An edge's entry is stored: on in the table that holds it or, when that is
\* the root table, to what follows the edge.
Ascend ==
  op' = [op EXCEPT !.val = NoVal, !.up = Level > Root,
                   !.pc = IF Level > Root THEN @
                          ELSE IF @ = "ledge" THEN "between" ELSE "recycle"]

WriteBottom ==
  /\ op.pc \in {"ledge", "redge"}
  /\ ~op.up
  /\ Level = BottomTable
  /\ entries' = Written({Here}, Leaf(op.hop))
  /\ Ascend
  /\ UNCHANGED <<Local, free, intact>>

\* Mutant of Beside: the entry next to the edge is left out.
BesideAlmost ==
  IF op.pc = "ledge" THEN (get_idx(Edge, Level) + 2)..(2 ^ BYTE_SIZE - 1)
                     ELSE 0..(get_idx(Edge, Level) - 1)
Beside ==
  IF op.pc = "ledge" THEN (get_idx(Edge, Level) + 1)..(2 ^ BYTE_SIZE - 1)
                     ELSE 0..(get_idx(Edge, Level) - 1)

\* A group that holds one next hop only.
Uniform(table, g) ==
  ~table[<<g, 0>>].ext /\ \A s \in Slots : table[<<g, s>>] = table[<<g, 0>>]

\* Mutant of Recyclable: groups stay.
RecyclableNever(table, g) == FALSE
Recyclable(table, g) == Uniform(table, g)

\* tbl8_recycle empties the group, ...
Emptied(table, g) == [p \in Places |-> IF p[1] = g THEN Leaf(0) ELSE table[p]]

\* ... and before that, if it is asked to, writes its next hop to the entry.
Folded(table, place, g) ==
  [p \in Places |-> IF p = place THEN table[<<g, 0>>]
                    ELSE IF p[1] = g THEN Leaf(0) ELSE table[p]]

\* write_edge comes back to a group, fills the rest of it and folds it if it
\* can: its next hop moves to `val', and it is emptied and put back although
\* the entry above may link it.
WriteRest ==
  LET g      == op.path[Level]
      filled == Written({g} \X Beside, Leaf(op.hop))
      val    == IF Recyclable(filled, g) THEN filled[<<g, 0>>] ELSE Link(g)
  IN  /\ op.pc \in {"ledge", "redge"}
      /\ op.up
      /\ op.val = NoVal
      /\ IF Recyclable(filled, g)
         THEN entries' = Emptied(filled, g) /\ free' = tbl8_put(g)
         ELSE entries' = filled /\ UNCHANGED free
      /\ op' = [op EXCEPT !.path = Front(@), !.val = val]
      /\ UNCHANGED <<Local, intact>>

\* The last store of write_edge: the entry above gets the group or the hop.
StoreEntry ==
  /\ op.val # NoVal
  /\ entries' = Written({Here}, op.val)
  /\ Ascend
  /\ UNCHANGED <<Local, free, intact>>

\* The entries of the root table between the edges.
WriteBetween ==
  LET left  == get_idx(op.ledge, Level)
      right == get_idx(LastIn(op.redge), Level)
  IN  /\ op.pc = "between"
      /\ entries' = Written({op.path[Level]} \X ((left + 1)..(right - 1)), Leaf(op.hop))
      /\ op' = [op EXCEPT !.pc = "redge"]
      /\ UNCHANGED <<Local, free, intact>>

\* recycle_root_path: from the root table back to tbl24.
RecycleRoot ==
  LET e == entries[Here]
  IN  /\ op.pc = "recycle"
      /\ IF e.ext /\ Recyclable(entries, e.val)
         THEN entries' = Folded(entries, Here, e.val) /\ free' = tbl8_put(e.val)
         ELSE UNCHANGED tables
      /\ op' = IF Level > 1 THEN [op EXCEPT !.path = Front(@)]
                            ELSE [op EXCEPT !.pc = "gap", !.ledge = op.redge]
      /\ UNCHANGED <<Local, intact>>

-----------------------------------------------------------------------------
(* The rest of trie_modify *)

Succeed ==
  /\ op.pc = "gap"
  /\ op.last
  /\ \/ /\ op.call = "add"
        /\ rsvd_tbl8s' = (rsvd_tbl8s + op.diff) % RSVD_MOD
        /\ UNCHANGED rib
     \/ /\ op.call = "change"
        /\ rib' = WithRule(rib, op.key, op.hop)
        /\ UNCHANGED rsvd_tbl8s
     \/ op.call = "delete" /\ Removed(op.key, op.diff)
  /\ op' = Idle
  /\ ret' = Answer("ok")
  /\ UNCHANGED <<type, tables, intact>>

\* A failed insertion leaves the RIB again; what has been written stays.  A
\* change that failed is answered with 0.
Fail ==
  /\ op.pc = "failed"
  /\ rib' = IF op.call = "add" THEN WithoutRules(rib, {op.key}) ELSE rib
  /\ ret' = Answer(IF op.call = "change" THEN "ok" ELSE "ENOSPC")
  /\ op' = Idle
  /\ UNCHANGED <<type, tables, rsvd_tbl8s, intact>>

rte_fib6_lookup_bulk(ip) ==
  /\ op.pc = "idle"
  /\ ret' = [status |-> "ok", ip |-> ip, hop |-> LookupHop(ip)]
  /\ UNCHANGED <<type, rib, tables, rsvd_tbl8s, op, intact>>

-----------------------------------------------------------------------------
(* The specification *)

rte_fib6_add(r, hop) ==
  \/ dummy_add(r, hop)
  \/ AddSame(r, hop)
  \/ Change(r, hop)
  \/ AddRefused(r, hop)
  \/ Add(r, hop)

rte_fib6_delete(r) == dummy_delete(r) \/ DeleteAbsent(r) \/ Delete(r)

Step ==
  \/ NextGap
  \/ LastGap
  \/ Follow
  \/ tbl8_alloc
  \/ OutOfGroups
  \/ WriteBottom
  \/ WriteRest
  \/ StoreEntry
  \/ WriteBetween
  \/ RecycleRoot
  \/ Succeed
  \/ Fail

Next ==
  \/ \E r \in Routes : \/ RejectDepth(r)
                       \/ \E hop \in NextHops : rte_fib6_add(r, hop)
                       \/ rte_fib6_delete(r)
  \/ \E ip \in Probes : rte_fib6_lookup_bulk(ip)
  \/ Step

Spec == rte_fib6_create /\ [][Next]_vars

\* The thread that runs a call goes on with it.
FairSpec == Spec /\ WF_vars(Step)

-----------------------------------------------------------------------------
(* Properties *)

Call ==
  [pc : {"idle", "gap", "root", "ledge", "between", "redge", "recycle", "failed"},
   call : {"none", "add", "change", "delete"}, key : Network, hop : Hops,
   diff : Int, ledge : Address, redge : Address, todo : SUBSET Network,
   last : BOOLEAN, path : Seq(Groups \cup {tbl24}), up : BOOLEAN,
   val : [ext : BOOLEAN, val : Hops] \cup {NoVal}]

\* Every variable has its type, the pool is never returned more groups than
\* it gave, and the walk of a call stays between tbl24 and the tables of the
\* last byte (install_to_dp, write_edge).
TypeOK ==
  /\ type \in Types
  /\ DOMAIN rib \subseteq Network
  /\ \A p \in DOMAIN rib : rib[p] \in Nat /\ (type = "TRIE" => rib[p] \in Hops)
  /\ entries \in [Places -> [ext : BOOLEAN, val : Hops]]
  /\ \A p \in Places : entries[p].ext => entries[p].val \in Groups
  /\ free \in Seq(Groups) /\ Len(free) <= number_tbl8s
  /\ rsvd_tbl8s \in 0..(RSVD_MOD - 1)
  /\ op \in Call
  /\ op.pc # "idle" => type = "TRIE" /\ op.call # "none"
  /\ op.pc = "idle" <=> op = Idle
  /\ Len(op.path) \in Depths
  /\ op.path[1] = tbl24 /\ \A n \in 2..Len(op.path) : op.path[n] \in Groups
  /\ intact \in BOOLEAN

\* After every history of insertions, changes and deletions, the tables give
\* each address what the RIB answers (trie_modify, install_to_dp).
LookupAgrees ==
  op.pc = "idle" /\ intact => \A ip \in Address : LookupHop(ip) = RibHop(rib, ip)

\* The addresses whose answer an update changes.
Own(ip) == Holds(op.key, ip) /\ \A q \in Longer(rib, op.key) : ~Holds(q, ip)

\* The addresses behind an entry that still links the group just folded.
Blank(ip) ==
  /\ op.val # NoVal /\ ~op.val.ext /\ entries[Here].ext
  /\ \A n \in 1..Level : get_idx(ip, n) = get_idx(Edge, n)

\* While an update is written, a lookup between two of its steps sees an
\* address change at most once: from its answer to the next hop that is
\* written, and only under the route and outside its longer routes; but when
\* write_edge folds a group that is linked, all addresses behind it, which
\* have that next hop by then, read 0 until the entry above is stored.
\* Building and linking groups and folding those on the way to the root
\* change no answer (write_edge, build_common_root, recycle_root_path).
NoStrayWrites ==
  [][intact' => \A ip \in Address :
       TableHop(ip)' # TableHop(ip) =>
         \/ TableHop(ip)' = op.hop /\ (Own(ip) \/ Blank(ip))
         \/ TableHop(ip)' = 0 /\ Blank(ip)' /\ (Own(ip) \/ TableHop(ip) = op.hop)]_vars

\* The tables once write_edge has stored `val'.
Settled == IF op.val = NoVal THEN entries ELSE Written({Here}, op.val)

Linking == LET table == Settled IN {p \in Places : table[p].ext}
OnPath == {op.path[n] : n \in 2..Len(op.path)}

\* A group in use is never in the pool and is linked by one entry only, even
\* after updates that failed half way: nothing hands it out again, if the
\* entry that write_edge is about to store is left aside (tbl8_get, tbl8_put).
LinkedGroupsTaken ==
  /\ \A p, q \in Linking : Settled[p].val = Settled[q].val => p = q
  /\ \A i, j \in 1..Len(free) : free[i] = free[j] => i = j
  /\ \A i \in 1..Len(free) :
       free[i] \notin OnPath /\ \A p \in Linking : Settled[p].val # free[i]

\* No group is lost: each one is in the pool, linked, or held by the edge
\* that is being written.
NoGroupLost ==
  intact => Groups = Range(free) \cup {Settled[p].val : p \in Linking} \cup OnPath

\* The tables the routes need: for each one longer than tbl24 resolves, those
\* of its leading bytes.
TableOf(ip, bytes) ==
  [ip |-> ip6_mask_addr(ip, BYTE_SIZE * bytes), depth |-> BYTE_SIZE * bytes]
Needed ==
  UNION {{TableOf(q.ip, n) : n \in TBL24_BYTES..((q.depth - 1) \div BYTE_SIZE)} :
           q \in DOMAIN rib}

\* A group goes with the last of the longer routes that made it necessary
\* (tbl8_recycle): between calls each table below tbl24 has such a route.
GroupsNeeded ==
  op.pc = "idle" /\ intact =>
    \A ip \in Address, n \in Depths :
      Walk(ip)[n].ext => TableOf(ip, TBL24_BYTES + n - 1) \in Needed

\* An update runs out of groups only if the routes need as many as there are:
\* none is held in vain (tbl8_recycle, recycle_root_path).
RunsDryOnlyWhenFull ==
  [][op.pc # "idle" /\ intact /\ ~intact' => Cardinality(Needed) >= number_tbl8s]_vars

\* An update that is let run returns: the gaps are finitely many, an edge goes
\* down at most to the last byte and comes back up (modify_dp, write_edge).
UpdatesReturn == op.pc # "idle" ~> op.pc = "idle"

\* The calls are those of the abstract fib: an update takes effect when it
\* returns, and the routes seen before that are those without a new one.
Promise == INSTANCE Fib WITH
  routes  <- IF op.call = "add" THEN WithoutRules(rib, {op.key}) ELSE rib,
  pending <- IF op.pc = "idle"
             THEN [call |-> "none", key |-> [ip |-> 0, depth |-> 0], hop |-> MISS]
             ELSE IF op.call = "delete"
             THEN [call |-> "delete", key |-> op.key, hop |-> MISS]
             ELSE [call |-> "add", key |-> op.key, hop |-> op.hop],
  sound   <- intact

ImplementsFib == Promise!Spec

\* "Next hop of the most specific rule found for IP", or "default nexthop
\* value configured for a FIB" (OMAR_dpdk_fib6.h): a lookup in the middle of an
\* update answers from the routes before it or from those after it.
LookupsFollowRules ==
  LET before == IF op.call = "add" THEN WithoutRules(rib, {op.key}) ELSE rib
      after  == IF op.call = "delete" THEN WithoutRules(rib, {op.key})
                                      ELSE WithRule(rib, op.key, op.hop)
  IN  type = "TRIE" /\ op.pc # "idle" /\ intact =>
        \A ip \in Address : TableHop(ip) \in {RibHop(before, ip), RibHop(after, ip)}

\* A deletion gives back what its route reserved: where there are groups for
\* the longest route, none is refused as long as no route needs a group.
\* rsvd_tbl8s is the "Number of reserved tbl8s" (trie.h).
DeletionReleases ==
  ret.status = "ENOSPC" /\ intact /\ number_tbl8s > IPV6_ADDR_SIZE - TBL24_BYTES =>
    Needed # {}

\* "0 on success" (OMAR_dpdk_fib6.h): an addition or a change of a route that
\* is answered with 0, at once or after it has run, has left the route with
\* its next hop in the RIB.
SuccessMeansDone ==
  [][/\ \A r \in Routes, hop \in NextHops :
          rte_fib6_add(r, hop) /\ ret'.status = "ok" => rib'[Masked(r)] = hop
     /\ op.call \in {"add", "change"} /\ op'.pc = "idle" /\ ret'.status = "ok" =>
          rib'[op.key] = op.hop]_vars
=============================================================================
