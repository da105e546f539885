------------------------------- MODULE Dir24_8 ------------------------------
(***************************************************************************)
(* An IPv4 fib: rte_fib.c with its two data planes, the dummy one, which   *)
(* answers from the RIB, and omar_dir24_8.c: a table tbl24 indexed by the  *)
(* first TOP_BITS bits of an address and groups tbl8 indexed by the rest.  *)
(* The entry of tbl24 is a next hop or a link to a group.                  *)
(*                                                                         *)
(* An update writes a next hop over the gaps that the nearest longer       *)
(* routes leave in the network of its route.  A gap has a left edge in     *)
(* the middle of an entry of tbl24, whole entries, and a right edge; an    *)
(* edge needs a group.  A group that has become uniform is folded back     *)
(* into its entry.                                                         *)
(*                                                                         *)
(* A call is one action for its checks and the RIB, then one action per    *)
(* gap and per piece of a gap, and one to return; `op' holds its locals.   *)
(***************************************************************************)
EXTENDS Rib

CONSTANTS
  TOP_BITS,              \* bits that index tbl24: 24
  NH_BITS,               \* bits of an entry besides its flag: 7, 15, 31 or 63
  NUM_TBL8,              \* conf->dir24_8.num_tbl8
  BITMAP_SLAB_BIT_SIZE,  \* groups to a word of the bitmap: 64
  RSVD_MOD,              \* 2^32, the modulus of rsvd_tbl8s
  Types,                 \* data planes the callers ask for: "DUMMY", "DIR24_8"
  Routes,                \* [ip, depth] pairs the callers pass, not masked
  NextHops,              \* next hops they route to
  Probes                 \* addresses they look up

\* get_max_nh
MAX_NH == 2 ^ NH_BITS - 1

number_tbl8s ==
  ((NUM_TBL8 + BITMAP_SLAB_BIT_SIZE - 1) \div BITMAP_SLAB_BIT_SIZE)
    * BITMAP_SLAB_BIT_SIZE

\* What dir24_8_create checks, and the powers of two the provers need.
ASSUME Dir24_8Assumption ==
  /\ MAX_ROUTES \in Nat
  /\ TOP_BITS \in 1..(MAX_DEPTH - 1)
  /\ NH_BITS \in Nat \ {0}
  /\ NUM_TBL8 \in 1..MAX_NH
  /\ BITMAP_SLAB_BIT_SIZE \in Nat \ {0}
  /\ number_tbl8s \in Nat
  /\ number_tbl8s <= MAX_NH + 1
  /\ MAX_NH + 1 \in Nat \ {0}
  /\ DEF_NH \in 0..MAX_NH
  /\ RSVD_MOD \in Nat \ {0}
  /\ Types \subseteq {"DUMMY", "DIR24_8"}
  /\ Routes \subseteq [ip : Address, depth : 0..(MAX_DEPTH + 1)]
  /\ NextHops \subseteq Nat
  /\ Probes \subseteq Address

VARIABLES
  type,         \* fib->type
  rib,          \* fib->rib, a function from networks to next hops
  tbl24,        \* dp->tbl24
  tbl8,         \* dp->tbl8, by group
  tbl8_idxes,   \* dp->tbl8_idxes: the groups whose bit is set
  cur_tbl8s,    \* dp->cur_tbl8s
  rsvd_tbl8s,   \* dp->rsvd_tbl8s
  op,           \* the running call and its locals
  ret,          \* the answer to the last call
  intact        \* no update has run out of groups so far (not in the code)

tables == <<tbl24, tbl8, tbl8_idxes, cur_tbl8s>>
vars == <<type, rib, tables, rsvd_tbl8s, op, ret, intact>>

-----------------------------------------------------------------------------
(* Tables *)

TBL8_BITS == MAX_DEPTH - TOP_BITS
GRP_NUM_ENT == 2 ^ TBL8_BITS

Cells == 0..(2 ^ TOP_BITS - 1)
Slots == 0..(GRP_NUM_ENT - 1)
Groups == 0..(number_tbl8s - 1)
Hops == 0..MAX_NH

get_tbl24_idx(ip) == ip \div GRP_NUM_ENT
SlotOf(ip) == ip % GRP_NUM_ENT

\* Both are stored shifted by one beside the flag, in NH_BITS + 1 bits.
Leaf(hop) == [ext |-> FALSE, val |-> hop % (MAX_NH + 1)]
Link(g)   == [ext |-> TRUE, val |-> g % (MAX_NH + 1)]

Free == Groups \ tbl8_idxes

\* Mutant of tbl8_get_idx: the bitmap is not looked at.
tbl8_get_idx_first == 0
\* The lowest zero bit of the bitmap.
tbl8_get_idx == CHOOSE g \in Free : \A h \in Free : g <= h

\* What the scalar lookups read.
TableHop(ip) ==
  LET e == tbl24[get_tbl24_idx(ip)]
  IN  IF e.ext THEN tbl8[e.val][SlotOf(ip)] ELSE e.val

LookupHop(ip) == IF type = "DUMMY" THEN RibHop(rib, ip) ELSE TableHop(ip)

\* The networks that one entry of tbl24 stands for.
Cell(c) == [ip |-> c * GRP_NUM_ENT, depth |-> TOP_BITS]
CellOf(key) == Cell(get_tbl24_idx(key.ip))

\* Some route is longer than TOP_BITS bits and under the same entry.
SharesGroup(key) == Longer(rib, CellOf(key)) # {}

-----------------------------------------------------------------------------
(* Calls *)

Answer(status) == [status |-> status, ip |-> MISS, hop |-> MISS]

Idle ==
  [pc |-> "idle", call |-> "none", key |-> [ip |-> 0, depth |-> 0], hop |-> 0,
   ledge |-> 0, redge |-> 0, todo |-> {}, last |-> FALSE, reserve |-> FALSE]

\* The call returns at once.
Return(status) == ret' = Answer(status) /\ UNCHANGED <<type, tables, op, intact>>

\* modify_fib starts at the left end of the network.  `hop' is what it
\* writes, `todo' the longer routes it has still to step over.
modify_fib(call, key, hop, reserve) ==
  /\ op' = [Idle EXCEPT !.pc = "gap", !.call = call, !.key = key, !.hop = hop,
                        !.ledge = key.ip, !.todo = Nearest(rib, key),
                        !.reserve = reserve]
  /\ ret' = Answer("pending")
  /\ UNCHANGED <<type, tables, rsvd_tbl8s, intact>>

rte_fib_create ==
  /\ type \in Types
  /\ rib = NoRules
  /\ tbl24 = [c \in Cells |-> Leaf(DEF_NH)]
  /\ tbl8 = [g \in Groups |-> [s \in Slots |-> 0]]
  /\ tbl8_idxes = {}
  /\ cur_tbl8s = 0
  /\ rsvd_tbl8s = 0
  /\ op = Idle
  /\ ret = Answer("ok")
  /\ intact = TRUE

\* The first check, by rte_fib_add and rte_fib_delete for both data planes.
RejectDepth(r) ==
  /\ op.pc = "idle"
  /\ r.depth > MAX_DEPTH
  /\ Return("EINVAL")
  /\ UNCHANGED <<rib, rsvd_tbl8s>>

\* A call with arguments the data plane looks at.
Called(data_plane, r) == op.pc = "idle" /\ type = data_plane /\ r.depth <= MAX_DEPTH

\* rte_rib_insert finds no node for a new route.
NoNode(r) ==
  /\ Masked(r) \notin DOMAIN rib
  /\ RibFull(rib, Masked(r))
  /\ Return("ENOMEM")
  /\ UNCHANGED <<rib, rsvd_tbl8s>>

dummy_add(r, hop) ==
  /\ Called("DUMMY", r)
  /\ \/ NoNode(r)
     \/ /\ Masked(r) \in DOMAIN rib \/ ~RibFull(rib, Masked(r))
        /\ rib' = WithRule(rib, Masked(r), hop)
        /\ Return("ok")
        /\ UNCHANGED rsvd_tbl8s

dummy_delete(r) ==
  /\ Called("DUMMY", r)
  /\ \/ Masked(r) \notin DOMAIN rib /\ Return("ENOENT")
     \/ Masked(r) \in DOMAIN rib /\ Return("ok")
  /\ rib' = WithoutRules(rib, {Masked(r)})
  /\ UNCHANGED rsvd_tbl8s

-----------------------------------------------------------------------------
(* dir24_8_modify *)

RejectHop(r, hop) ==
  /\ Called("DIR24_8", r)
  /\ hop > MAX_NH
  /\ Return("EINVAL")
  /\ UNCHANGED <<rib, rsvd_tbl8s>>

\* RTE_FIB_ADD of a route that is there.
AddSame(r, hop) ==
  /\ Called("DIR24_8", r)
  /\ hop <= MAX_NH
  /\ Masked(r) \in DOMAIN rib
  /\ rib[Masked(r)] = hop
  /\ Return("ok")
  /\ UNCHANGED <<rib, rsvd_tbl8s>>

Change(r, hop) ==
  /\ Called("DIR24_8", r)
  /\ hop <= MAX_NH
  /\ Masked(r) \in DOMAIN rib
  /\ rib[Masked(r)] # hop
  /\ modify_fib("change", Masked(r), hop, FALSE)
  /\ UNCHANGED rib

\* The first route under an entry that is longer than the entry.
NeedsGroup(key) == key.depth > TOP_BITS /\ ~SharesGroup(key)

Admitted(key) == NeedsGroup(key) => rsvd_tbl8s < number_tbl8s

\* RTE_FIB_ADD of a new route: refused for lack of groups or of nodes.
AddRefused(r, hop) ==
  /\ Called("DIR24_8", r)
  /\ hop <= MAX_NH
  /\ Masked(r) \notin DOMAIN rib
  /\ \/ /\ ~Admitted(Masked(r))
        /\ Return("ENOSPC")
        /\ UNCHANGED <<rib, rsvd_tbl8s>>
     \/ Admitted(Masked(r)) /\ NoNode(r)

\* The parent has the same next hop, so that the tables are right already.
SameAsAround(key, hop) == HasParent(rib, key) /\ ParentHop(rib, key) = hop

\* A new route: the call returns before it has counted the group it reserves
\* if the parent has the same next hop.
Add(r, hop) ==
  LET key == Masked(r)
  IN  /\ Called("DIR24_8", r)
      /\ hop <= MAX_NH
      /\ key \notin DOMAIN rib
      /\ Admitted(key)
      /\ ~RibFull(rib, key)
      /\ rib' = WithRule(rib, key, hop)
      /\ \/ SameAsAround(key, hop) /\ Return("ok") /\ UNCHANGED rsvd_tbl8s
         \/ ~SameAsAround(key, hop) /\ modify_fib("add", key, hop, NeedsGroup(key))

\* The route leaves the RIB, and with the last longer one under its entry
\* goes the reservation.
Removed(key) ==
  LET last == key.depth > TOP_BITS /\ Longer(rib, CellOf(key)) = {key}
  IN  /\ rib' = WithoutRules(rib, {key})
      /\ rsvd_tbl8s' = IF last THEN (rsvd_tbl8s - 1) % RSVD_MOD ELSE rsvd_tbl8s

DeleteAbsent(r) ==
  /\ Called("DIR24_8", r)
  /\ Masked(r) \notin DOMAIN rib
  /\ Return("ENOENT")
  /\ UNCHANGED <<rib, rsvd_tbl8s>>

\* RTE_FIB_DEL: the next hop of the parent, or the default one, takes over.
Delete(r) ==
  LET key == Masked(r)
  IN  /\ Called("DIR24_8", r)
      /\ key \in DOMAIN rib
      /\ \/ SameAsAround(key, rib[key]) /\ Return("ok") /\ Removed(key)
         \/ /\ ~SameAsAround(key, rib[key])
            /\ modify_fib("delete", key, ParentHop(rib, key), FALSE)
            /\ UNCHANGED rib

-----------------------------------------------------------------------------
(* modify_fib: the gaps *)

Local == <<type, rib, rsvd_tbl8s, ret>>

\* The pieces of install_to_fib.  Edges under one entry of tbl24 are one
\* piece, unless the gap is the whole address space.
Whole(ledge, redge) == ledge = 0 /\ redge = 0

FirstPiece(ledge, redge) ==
  IF get_tbl24_idx(ledge) # get_tbl24_idx(redge) \/ Whole(ledge, redge)
  THEN IF SlotOf(ledge) # 0 THEN "left" ELSE "middle"
  ELSE IF ledge # redge THEN "inside" ELSE "gap"

\* Mutants of StepOver: to the start of the route rather than its end, and
\* without the wrap at the end of the address space.
StepOverNothing(q) == q.ip
StepOverWide(q) == q.ip + 2 ^ (MAX_DEPTH - q.depth)

StepOver(q) == End(q)

\* The gap before the next longer route, if it is not empty, is installed;
\* `ledge' is moved behind that route once it is.
NextGap ==
  /\ op.pc = "gap"
  /\ ~op.last
  /\ op.todo # {}
  /\ LET q == First(op.todo)
     IN  op' = IF op.ledge = q.ip
               THEN [op EXCEPT !.ledge = StepOver(q), !.todo = @ \ {q}]
               ELSE [op EXCEPT !.pc = FirstPiece(op.ledge, q.ip), !.redge = q.ip]
  /\ UNCHANGED <<Local, tables, intact>>

\* The gap up to the end of the network is the last one.
LastGap ==
  LET end == End(op.key)
  IN  /\ op.pc = "gap"
      /\ ~op.last
      /\ op.todo = {}
      /\ op' = IF op.ledge = end
               THEN [op EXCEPT !.last = TRUE]
               ELSE [op EXCEPT !.pc = FirstPiece(op.ledge, end),
                               !.redge = end, !.last = TRUE]
      /\ UNCHANGED <<Local, tables, intact>>

-----------------------------------------------------------------------------
(* install_to_fib: the pieces *)

\* Mutants of Recyclable: a group goes once its first entry is the new hop, or
\* never.
RecyclableAtOnce(group) == group[0] = op.hop
RecyclableNever(group) == FALSE
Recyclable(group) == \A s \in Slots : group[s] = group[0]

\* Mutant of Initial: a new group starts out with the default next hop.
InitialDefault(e, s) == DEF_NH
\* What tbl8_alloc fills a group with.
Initial(e, s) == e.val

\* Write the next hop over some slots under an entry, in its group or a new
\* one, and fold the group back if that makes it uniform.
WriteSlots(c, slots) ==
  LET e == tbl24[c]
      g == IF e.ext THEN e.val ELSE tbl8_get_idx
      group == [s \in Slots |-> IF s \in slots THEN op.hop
                                ELSE IF e.ext THEN tbl8[g][s] ELSE Initial(e, s)]
      taken == IF e.ext THEN 0 ELSE 1
  IN  IF Recyclable(group)
      THEN /\ tbl24' = [tbl24 EXCEPT ![c] = Leaf(group[0])]
           /\ tbl8' = [tbl8 EXCEPT ![g] = [s \in Slots |-> 0]]
           /\ tbl8_idxes' = tbl8_idxes \ {g}
           /\ cur_tbl8s' = cur_tbl8s + taken - 1
      ELSE /\ tbl24' = [tbl24 EXCEPT ![c] = Link(g)]
           /\ tbl8' = [tbl8 EXCEPT ![g] = group]
           /\ tbl8_idxes' = tbl8_idxes \cup {g}
           /\ cur_tbl8s' = cur_tbl8s + taken

GapDone == [op EXCEPT !.pc = "gap", !.ledge = op.redge]

\* A new group for the left edge is only taken if there is one more for the
\* right edge, whether or not that needs it.
WriteLeft ==
  LET c == get_tbl24_idx(op.ledge)
  IN  /\ op.pc = "left"
      /\ tbl24[c].ext \/ Cardinality(Free) > 1
      /\ WriteSlots(c, SlotOf(op.ledge)..(GRP_NUM_ENT - 1))
      /\ op' = [op EXCEPT !.pc = "middle"]
      /\ UNCHANGED <<Local, intact>>

\* Mutant of MiddleCells: the entry of the right edge is written as well.
MiddleCellsAndRight ==
  (get_tbl24_idx(op.ledge + GRP_NUM_ENT - 1))..get_tbl24_idx(op.redge)

\* From the left edge rounded up to the right edge rounded down, modulo 2^32.
MiddleCells ==
  LET from == get_tbl24_idx(op.ledge + GRP_NUM_ENT - 1) % 2 ^ TOP_BITS
      len  == IF Whole(op.ledge, op.redge) THEN 2 ^ TOP_BITS
              ELSE (get_tbl24_idx(op.redge) - from) % 2 ^ TOP_BITS
  IN  from..(from + len - 1)

WriteMiddle ==
  /\ op.pc = "middle"
  /\ tbl24' = [c \in Cells |-> IF c \in MiddleCells THEN Leaf(op.hop) ELSE tbl24[c]]
  /\ op' = IF SlotOf(op.redge) # 0 THEN [op EXCEPT !.pc = "right"] ELSE GapDone
  /\ UNCHANGED <<Local, tbl8, tbl8_idxes, cur_tbl8s, intact>>

WriteRight ==
  LET c == get_tbl24_idx(op.redge)
  IN  /\ op.pc = "right"
      /\ tbl24[c].ext \/ Free # {}
      /\ WriteSlots(c, 0..(SlotOf(op.redge) - 1))
      /\ op' = GapDone
      /\ UNCHANGED <<Local, intact>>

WriteInside ==
  LET c == get_tbl24_idx(op.ledge)
  IN  /\ op.pc = "inside"
      /\ tbl24[c].ext \/ Free # {}
      /\ WriteSlots(c, SlotOf(op.ledge)..(SlotOf(op.redge) - 1))
      /\ op' = GapDone
      /\ UNCHANGED <<Local, intact>>

\* -ENOSPC.  The one group that was free for a left edge has been filled and
\* counted, and its bit is cleared again; the count stays.
OutOfGroups ==
  LET c == get_tbl24_idx(IF op.pc = "right" THEN op.redge ELSE op.ledge)
  IN  /\ ~tbl24[c].ext
      /\ \/ /\ op.pc \in {"left", "right", "inside"}
            /\ Free = {}
            /\ UNCHANGED tables
         \/ /\ op.pc = "left"
            /\ Cardinality(Free) = 1
            /\ tbl8' = [tbl8 EXCEPT ![tbl8_get_idx] = [s \in Slots |-> tbl24[c].val]]
            /\ cur_tbl8s' = cur_tbl8s + 1
            /\ UNCHANGED <<tbl24, tbl8_idxes>>
      /\ op' = [op EXCEPT !.pc = "failed"]
      /\ intact' = FALSE
      /\ UNCHANGED Local

-----------------------------------------------------------------------------
(* The rest of dir24_8_modify *)

\* A route whose next hop has been changed gets it in the RIB at the end, a
\* deleted one leaves the RIB at the end.
Succeed ==
  /\ op.pc = "gap"
  /\ op.last
  /\ \/ /\ op.call = "add"
        /\ rsvd_tbl8s' = IF op.reserve THEN (rsvd_tbl8s + 1) % RSVD_MOD ELSE rsvd_tbl8s
        /\ UNCHANGED rib
     \/ /\ op.call = "change"
        /\ rib' = WithRule(rib, op.key, op.hop)
        /\ UNCHANGED rsvd_tbl8s
     \/ op.call = "delete" /\ Removed(op.key)
  /\ op' = Idle
  /\ ret' = Answer("ok")
  /\ UNCHANGED <<type, tables, intact>>

\* A failed insertion leaves the RIB again; what has been written stays.  A
\* change that failed is answered with 0.
Fail ==
  /\ op.pc = "failed"
  /\ rib' = IF op.call = "add" THEN WithoutRules(rib, {op.key}) ELSE rib
  /\ ret' = Answer(IF op.call = "change" THEN "ok" ELSE "ENOSPC")
  /\ op' = Idle
  /\ UNCHANGED <<type, tables, rsvd_tbl8s, intact>>

rte_fib_lookup_bulk(ip) ==
  /\ op.pc = "idle"
  /\ ret' = [status |-> "ok", ip |-> ip, hop |-> LookupHop(ip)]
  /\ UNCHANGED <<type, rib, tables, rsvd_tbl8s, op, intact>>

-----------------------------------------------------------------------------
(* The specification *)

rte_fib_add(r, hop) ==
  \/ dummy_add(r, hop)
  \/ RejectHop(r, hop)
  \/ AddSame(r, hop)
  \/ Change(r, hop)
  \/ AddRefused(r, hop)
  \/ Add(r, hop)

rte_fib_delete(r) == dummy_delete(r) \/ DeleteAbsent(r) \/ Delete(r)

Step ==
  \/ NextGap
  \/ LastGap
  \/ WriteLeft
  \/ WriteMiddle
  \/ WriteRight
  \/ WriteInside
  \/ OutOfGroups
  \/ Succeed
  \/ Fail

Next ==
  \/ \E r \in Routes : \/ RejectDepth(r)
                       \/ \E hop \in NextHops : rte_fib_add(r, hop)
                       \/ rte_fib_delete(r)
  \/ \E ip \in Probes : rte_fib_lookup_bulk(ip)
  \/ Step

Spec == rte_fib_create /\ [][Next]_vars

-----------------------------------------------------------------------------
(* Properties *)

Call ==
  [pc : {"idle", "gap", "left", "middle", "right", "inside", "failed"},
   call : {"none", "add", "change", "delete"}, key : Network, hop : Hops,
   ledge : Address, redge : Address, todo : SUBSET Network,
   last : BOOLEAN, reserve : BOOLEAN]

TypeOK ==
  /\ type \in Types
  /\ DOMAIN rib \subseteq Network
  /\ \A p \in DOMAIN rib : rib[p] \in Nat /\ (type = "DIR24_8" => rib[p] \in Hops)
  /\ tbl24 \in [Cells -> [ext : BOOLEAN, val : Hops]]
  /\ \A c \in Cells : tbl24[c].ext => tbl24[c].val \in Groups
  /\ tbl8 \in [Groups -> [Slots -> Hops]]
  /\ tbl8_idxes \subseteq Groups
  /\ cur_tbl8s \in Int
  /\ rsvd_tbl8s \in 0..(RSVD_MOD - 1)
  /\ op \in Call
  /\ op.pc # "idle" => type = "DIR24_8" /\ op.call # "none"
  /\ op.pc = "idle" <=> op = Idle
  /\ intact \in BOOLEAN

\* After every history of insertions, changes and deletions, the incremental
\* writes over gaps have left each address with what the RIB answers
\* (dir24_8_modify, install_to_fib).
LookupAgrees ==
  op.pc = "idle" /\ intact => \A ip \in Address : LookupHop(ip) = RibHop(rib, ip)

\* While an update is written, a lookup on another thread sees an address
\* change at most once: from its answer to the next hop that is written, and
\* only under the route and outside its longer routes.  Taking and folding
\* back groups changes no answer.
NoStrayWrites ==
  [][intact' => \A ip \in Address :
       TableHop(ip)' # TableHop(ip) =>
         /\ TableHop(ip)' = op.hop
         /\ Holds(op.key, ip)
         /\ \A q \in Longer(rib, op.key) : ~Holds(q, ip)]_<<tbl24, tbl8>>

Linked == {c \in Cells : tbl24[c].ext}

\* A linked group is never free, so that no allocation hands it out again, and
\* serves one entry only, even after updates that failed half way.
LinkedGroupsTaken ==
  /\ \A c \in Linked : tbl24[c].val \in tbl8_idxes
  /\ \A c, d \in Linked : tbl24[c].val = tbl24[d].val => c = d

\* No group is lost: the ones in use are those that are linked, and
\* cur_tbl8s, the "Current number of tbl8s", is their number.
NoGroupLost ==
  intact => /\ tbl8_idxes = {tbl24[c].val : c \in Linked}
            /\ cur_tbl8s = Cardinality(tbl8_idxes)

\* A group goes with the last of the longer routes that made it necessary
\* (tbl8_recycle): between calls each one has such a route.
GroupsNeeded ==
  op.pc = "idle" /\ intact => \A c \in Linked : Longer(rib, Cell(c)) # {}

Reserving == {c \in Cells : Longer(rib, Cell(c)) # {}}

\* An update runs out of groups only if, with the one that is held back for a
\* right edge, fewer are left than entries with longer routes need
\* (install_to_fib).
RunsDryOnlyWhenFull ==
  [][intact /\ ~intact' => Cardinality(Reserving) + Cardinality(Free) > number_tbl8s]_vars

\* The RIB is created with two nodes per route (rte_fib_create), which is
\* enough: no route is refused for lack of memory below max_routes.
RoutesUpToMaxFit ==
  ret.status = "ENOMEM" => Cardinality(DOMAIN rib) >= MAX_ROUTES

\* The calls are those of the abstract fib: an update takes effect when it
\* returns, and the routes seen before that are those without a new one.
Promise == INSTANCE Fib WITH
  routes  <- IF op.call = "add" THEN WithoutRules(rib, {op.key}) ELSE rib,
  pending <- IF op.pc = "idle"
             THEN [call |-> "none", key |-> [ip |-> 0, depth |-> 0], hop |-> MISS]
             ELSE IF op.call = "delete"
             THEN [call |-> "delete", key |-> op.key, hop |-> MISS]
             ELSE [call |-> "add", key |-> op.key, hop |-> op.hop],
  sound   <- intact

ImplementsFib == Promise!Spec

\* A new route is refused for lack of groups only if as many entries as
\* there are groups hold longer routes: rsvd_tbl8s is the "Number of reserved
\* tbl8s" (omar_dir24_8.h).
RefusedOnlyWhenReserved ==
  ret.status = "ENOSPC" /\ intact => Cardinality(Reserving) >= number_tbl8s
=============================================================================
