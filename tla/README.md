# Verification of the tries repository

The repository collects routing lookup structures for longest prefix match
(LPM): given rules that map address prefixes to next hops, find the next hop of
the most specific rule that matches an address. Several are derived from DPDK.
This project models them in TLA+, checks the models with TLC on small instances
and proves theorems about them with TLAPS.

## Inventory

| component | source | state | operations |
|---|---|---|---|
| multibit LPM | `tries/multibit_dpdk.c`, `.h` | rule hash table, `used_rules`, top table `tbl24` (one byte), groups `tbl8` of 256 entries, stack of free groups, header (owner, `ref_cnt`) per group | create, add, is_rule_present, delete, delete_bulk, delete_all, lookup, four bulk lookups, find_existing, free |
| lpm6 | `tries/OMAR_dpdk_lpm6.c`, `.h` | the same, with a top table of three bytes | the same |
| fib6 trie | `tries/fib6/trie.c`, `.h` | top table of 2^24 entries, groups, stack of free groups, `rsvd_tbl8s`; the routes are in a RIB | create, modify (add, delete), bulk lookups, free |
| dir24_8 | `tries/fib6/omar_dir24_8.c`, `.h` | top table, groups, bitmap of used groups, `cur_tbl8s`, `rsvd_tbl8s`; the routes are in a RIB | the same, for IPv4 |
| fib, fib6 objects | `tries/fib6/rte_fib.c`, `OMAR_dpdk_fib6.c` | an object with a RIB and a data plane; for IPv4 a list of named objects | create, add, delete, lookup_bulk, select_lookup, find_existing, free |
| vector lookup | `tries/fib6/trie_avx512.c` | none | bulk lookups; not built |
| Btrie | `tries/b_trie_lpm.h` | binary trie with a table of next hops per node | insert, lookup, erase |
| Fx_trie | `tries/fix_stride_trie.h` | trie of 256-entry groups of nodes | insert, lookup |
| Patricia, ART | `tries/patricia_trie.h`, `art_lookup.h` | unfinished | |
| helpers, tests, driver | `helpers/`, `test/`, `main.cpp` | none of interest | conversions, printing, generators, benchmarks |
| second copy of multibit | `diplom_trie.h` | as multibit | nothing includes it |

**Interaction.** Everything is library code: an operation runs to its end on its
caller's thread, and nothing waits, sends messages or calls back. An object is
shared by the thread that updates it and by threads that look up in its tables
without a lock. A fib object calls its RIB (in DPDK, not in the repository) and
its data plane. The RIB is the source of truth from which the data plane computes
the ranges to write. The only locks guard the lists of named objects.

**Hard behaviours.**
* Long histories: tables are updated incrementally by insertions, overwrites and
  deletions in any order, groups are shared by rules and reused, counters say
  when a group may go. An error shows much later, at another prefix.
* Exhaustion: pools of groups and of rules run dry, in principle half way through
  an insertion; admission is decided by a count made beforehand.
* Partial failure: a data plane that fails half way and a RIB that is changed
  before or after it.
* Numeric edges: depths at byte boundaries, bit-fields narrower than the values
  they are given, counters that wrap.
* Order of the writes within an update, which lookups on other threads can see.
* Crash recovery, messages and timeouts do not occur: nothing is persisted.

**What makes a component correct.** A lookup agrees with the rules, after every
history; a failed update leaves the rules as they were; a group is free exactly
if nothing links to it; reservations and reference counts are what they stand
for; and every call returns. `PROJECT.json` lists the hazards line by line.

## Modules

How they build on each other (an arrow is EXTENDS, a dotted one INSTANCE as a
property):

```
IPv6Prefix <- Lpm <.. MultibitLpm <- MultibitCallers, MCMultibit <- MCMultibitCallers
           <- Lpm6 <- MCLpm6
           <- Rib  <- Fib <.. Dir24_8 <- MCDir24_8
                          <.. FibTrie <- FibTrieFolds, MCFibTrie
           <- BulkLookup            FibRegistry <- MCFibRegistry
PrefixLemmas, MultibitCallers <- MultibitLpmProof
Lpm6, PrefixLemmas <- Lpm6Proof ..> MultibitLpmProof
PrefixLemmas, Dir24_8 <- Dir24_8Proof
PrefixLemmas, FibTrieFolds <- FibTrieProof <- FibTrieStepsProof ..> FibTrieProof
BulkLookup <- BulkLookupProof       FibRegistry <- FibRegistryProof
```

`IPv6Prefix` holds the vocabulary: addresses as numbers, prefixes, masking,
longest prefix match over a set of rules (the reference definition of a lookup),
and the rule table as a function from prefixes to next hops. The hash table is
DPDK's; it is taken to be an exact dictionary.

Operators whose comment says "Mutant of" are not part of a model. Each is a
plausible error in the operator it precedes, listed in `PROJECT.json` with the
property that it breaks.

### The LPM objects

`Lpm` is the abstract specification: a bounded dictionary whose lookups answer
with the longest match, whose refused updates change nothing, and whose updates
return at a later step than the one at which they take effect.

`MultibitLpm` models `multibit_dpdk.c`.

| in the module | in the code |
|---|---|
| `rules`, `used_rules` | `rules_tbl`, `used_rules` |
| `tbl[TBL24_IND]`, `tbl[g]` | `tbl24`, the 256 entries of `tbl8` from `g * 256` on |
| `tbl8_pool`, `tbl8_pool_pos` | the same |
| `tbl8_hdrs` | the same; `REF_MOD` stands for 2^32 |
| `op` | the locals of the running call; `pc` is where it is |
| `ret` | what the last call returned |

A call is one action that checks its arguments and updates the rule table, and
then one action for each step that writes tables: `AddStepNewTable`,
`AddStepDescend` and `AddStepLast` are the three branches of `add_step`;
`DeleteUnref`, `DeleteUnlink` (`remove_tbl`) and `DeleteClear` are a deletion's;
`Rebuild` is the loop of `rebuild_lpm`. `RejectDepth`, `AddThrows`, `AddNoSpace`
and `DeleteAbsent` are the error paths. An entry's `next_hop` field is a next hop
or a group index, cut to `NEXT_HOP_BITS` bits when it is stored, like the
bit-field. `DeleteUnref` counts references off in the order of the recursion, and
`DeleteUnlink` removes the outermost table first, as the recursion does when it
returns.

A delete action needs links that lead from the top table to the rule's table; the
code asserts that. `RuleTablesLinked` states it, so that the guard hides nothing.
The same holds for an insertion that would find the pool empty
(`AdmittedAddNeverRunsDry`), a rebuild that would throw (`RebuildAlwaysFits`) and
the assertion in `remove_tbl` (`UnlinkFindsLink`).

`BulkLookup` models the loop of the bulk lookups over their array, with the
one-element cache and the prefetch; what a walk of the tables ends with is a
parameter there, since `MultibitLpm` covers it.

`Lpm6` models `OMAR_dpdk_lpm6.c`. The tables are the same but for the wide top
table, which makes a short rule expand over several of its cells. What is new is
the second thread: a lookup of an array reads one entry of a table per action,
beside an insertion whose actions are single groups filled, single links set and
single cells expanded (`FillGroup`, `LinkGroup`, `ExpandCell`). The code has no
lock. Insertions only publish groups that are filled, so readers may run beside
them. A deletion puts groups back into the pool, and `delete_bulk` zeroes tables,
while a reader may be in them. Nothing in the code prevents it, so the callers in
the model do: they delete only while nothing is looked up, and `deletes` says
whether they delete rule by rule or in bulk (see the first finding). Variables and entries
are those of `MultibitLpm`; `reader` holds the locals of the lookup and, in `held`, the
answers the rules have given its address since its walk began. `before` holds the rules
before the running update. Neither `held` nor `before` is in the code; no step depends on them.

### The fibs

`Rib` is the RIB, which is DPDK's and is modelled from the calls the repository
makes: a dictionary of routes, the parent of a route, and the nearest more specific
routes in the order of their addresses. `RibFull` counts the nodes of its tree,
branch points included.

`Fib` is what a fib promises whatever its data plane: a dictionary of routes whose
updates take effect as they return, refused ones not at all, and lookups that
answer with the longest match or the default next hop. The promise is given up
with `sound`, once an update has run out of groups half way.

| in the modules | `Dir24_8`: `omar_dir24_8.c`, `rte_fib.c` | `FibTrie`: `trie.c`, `OMAR_dpdk_fib6.c` |
|---|---|---|
| tables | `tbl24`, `tbl8[g]` | `entries`, by table and index |
| free groups | `tbl8_idxes`, the bitmap, and `cur_tbl8s` | `free`, the pool from its position on |
| reservation | `rsvd_tbl8s`, modulo `RSVD_MOD` (2^32) | the same |
| `op` | `ledge`, `redge`: the gap; `todo`: the longer routes ahead; `hop`: what is written | the same, and `path`, the tables from the top to where the edge is |
| a call's checks | `RejectDepth` to `Delete`: `dir24_8_modify` down to its calls of `modify_fib` | the same of `trie_modify` and `modify_dp` |
| the gaps | `NextGap`, `LastGap` (`modify_fib`) | the same (`modify_dp`) |
| a gap | `WriteLeft`, `WriteMiddle`, `WriteRight`, `WriteInside` (`install_to_fib`) | `Follow`, `tbl8_alloc` (the common root, down an edge), `WriteBottom`, `WriteRest`, `StoreEntry` (back up), `WriteBetween`, `RecycleRoot` (`install_to_dp`) |
| running dry | `OutOfGroups`, `Fail` | the same |

On the way up, `write_edge` first fills the rest of a group and, if it can be folded, moves
its next hop to the local `val`, empties the group and puts it into the pool (`WriteRest`,
which leaves `val` in `op`); then it stores `val` in the entry above (`StoreEntry`). Where that entry
linked the group already, it does so still between the two. `Settled` is the tables with
that entry stored; the properties about groups take them so.

Both also model the object in front, with the dummy data plane, which answers from
the RIB (`dummy_add`, `dummy_delete`). `intact` is not in the code: it becomes false
where the tables stop being what the RIB says, that is when an update runs out of
groups (and, in `FibTrie`, when one is answered with 0 but ignored, see the
findings).

`FibRegistry` models the list of named objects in `rte_fib.c`: threads create, find
and free objects, step by step. `fib_list` is the tail queue, `writer` and `readers`
are DPDK's lock of tail queues, and `heap` says which of an object's blocks are
allocated. The RIB is created before that lock is taken and freed after it is
released, because DPDK's RIBs are on a list under the same lock, which is not
recursive; `CreateRib`, `ExitRib` and `FreeRib` therefore wait for the lock. Every
allocation may fail and then goes where the code's `goto` goes. `Stored` says what the
64 bytes of the name hold. Callers free an object once, after they got it from create
or find, and not while another call works on it: the code counts no references.

## Runs

| run | instance | what it shows |
|---|---|---|
| `multibit` | `MCMultibitCallers` | Insertions and `delete_all` among single deletions, or among bulk ones, whose rebuild inserts in any order. 4 rules, 3 groups, both limits reached: all the invariants, and `ImplementsLpm`: every step is one of `Lpm` or changes nothing there. |
| `multibit_calls` | `MCMultibit` | `CallsReturn`, and `OnlyOldOrNewAnswers`: a lookup made between two steps of an update gets the answer from before or the one after. At most 3 rules along two paths, 2 groups, since liveness compares whole states. |
| `lpm6` | `MCLpm6` | Lookups of an array beside insertions give only answers that held at some time during the lookup (`AnswersHeld`); tables agree with the rules and groups and counters are exact after single, bulk and complete deletions. |
| `dir24_8` | `MCDir24_8` | Histories of updates with two groups: tables and RIB agree between calls, an update changes an address at most once and only where it should, groups are neither lost nor shared nor kept in vain, and `ImplementsFib`. |
| `fib_trie` | `MCFibTrie` | The same questions with three levels of tables and three groups, and `UpdatesReturn`. `NoStrayWrites` has one exception here, for what the code does in `write_edge`: behind an entry that links a group just folded, addresses read 0 until it is stored. |
| `fib_registry` | `MCFibRegistry` | Two threads, three places for objects, a name that fits and one that is cut to it: names are unique, no block is lost and no call waits for ever. |
| `bulk_then_delete`, `bulk_cache_miss`, `fib_default_route`, `trie_fold_window`, `trie_reservation`, `trie_change_ignored` | | Disagreements with what the headers say, see the findings. |

**Bounds.** *Multibit:* addresses have three bytes of two bits, and the top table is
indexed by one. A group has four entries. That is the smallest instance in which a
rule can end in the top table, in a group and in a group's group, each time at a
byte boundary or within a byte, and in which removing one table makes the recursion
of `remove_tbl` remove another. `NestedRoutes` names prefixes of one address at every
kind of depth, a sibling in the second group, a second path through the same top
entry, an address with bits below its depth, and a depth out of range. *Lpm6* has
four such bytes, two of which index the top table. *Dir24_8* has addresses of five
bits, three for the top table: gaps with two edges and entries between them, edges
in one entry, several longer routes in one entry, and a gap that ends at 2^32.
*FibTrie* has three bytes of two bits and a top table of one: edges that end in the
top table or one or two groups below it, ends that carry into the next byte, two
paths that need two groups each where there are three. *BulkLookup* has all arrays of up to four
addresses of four, and all answers a table can give. *FibRegistry:* two threads
meet in every pair of places; three objects let one be listed while two are made.

`MAX_RULES`, `NUMBER_TBL8S`, `NUM_TBL8`, `number_tbl8s` and `MAX_ROUTES` are parameters
of the code, kept so small that the limits are hit. `MAX_BULK` bounds the rules named
in one bulk deletion, `Routes`, `NextHops`, `Arrays` and `Probes` are what callers pass.
`REF_MOD` and `RSVD_MOD` are larger than any count an instance reaches by counting up, so only
an underflow can wrap, as with 2^32. `NEXT_HOP_BITS` and `NH_BITS` are wide enough for the
groups; next hops that are too large are among those passed to the fibs. The
constraint `Explored` ends a history after the return of an update that ran out of
groups, about which nothing is promised (all that happens within it is explored, and
the proofs below go on after it), and lets the dummy data plane have two routes.

**View.** `multibit`, `bulk_then_delete` and `lpm6` compare states by `LiveState`, which leaves
out contents and headers of the groups in the pool and the pool below its position.
These are dead: a group is filled and its header set when it is taken, before
either is read. The owners named in the chain of a running deletion are kept,
since the assertion of `remove_tbl` reads one that has just been put back. No
action reads anything else that the view drops, so states with equal views have
the same futures under it. `GroupsCounted` of `Lpm6` looks at groups in the pool, too; that those
hold no links is proved (`LinksOwned`, below).

**Fairness.** `multibit_calls` assumes weak fairness of `AddStep` and of
`DeleteStep`, `fib_trie` of `Step`: a call runs on its caller's thread and nothing in
it waits, so it proceeds if the thread is scheduled. Callers need not call
anything. `fib_registry` assumes it of each thread's `Step`. Such a step may have to
wait for the lock, which promises no order: if other threads took it again and again,
weak fairness would not let this one in. `CallsReturn` of `FibRegistry` therefore says
that all calls return once threads begin no more.

## Findings

* After `delete_bulk`, reference counts are too small: `rebuild_lpm` inserts rules
  that are still in the rule table, so that `add_step` does not take them for new
  and does not count them. A later `delete` removes groups that other rules need:
  lookups go wrong (`bulk_then_delete`), and deleting one of those rules fails the
  assertions of `rule_find_range` (`RuleTablesLinked` is violated by the same
  history). `OMAR_dpdk_lpm6.c` has the same code.
* The cached bulk lookup answers a repeated miss with next hop 0, and a `::` before
  any other address with a miss (`bulk_cache_miss`).
* A default route, while an IPv4 fib has no longer one, is taken for an empty range
  and written to no table (`fib_default_route`). `trie.c` compares the ends in the same
  way.
* `write_edge` passes a local variable to `tbl8_recycle`, so that a group that is folded is
  zeroed and given back while the tables still link it. Until the entry above is stored, lookups
  under it answer next hop 0, also for addresses that the update does not concern
  (`trie_fold_window`). `recycle_root_path` passes the entry itself, which is rewritten first.
* Deletions in `trie.c` give back none of the groups their insertions reserved, so
  that an empty fib refuses routes in the end (`trie_reservation`).
* Changing a route to a next hop that does not fit, or for which groups run out, is
  answered with 0 by both data planes; `trie_change_ignored` shows the first.

Observed while modelling, without a run:

* An insertion that lacks free groups throws an exception where the header of
  `multibit_dpdk.c` promises an error code (`AddThrows`).
* `multibit_dpdk.c`'s `create` accepts 2^22 groups, and `add` next hops of 32 bits; an entry has
  21 bits for either.
* The prefetching bulk lookup reads one element past its array (`ReadsStayInside`
  of `BulkLookup` does not hold). No answer depends on it.
* In `omar_dir24_8.c` a route whose parent has the same next hop reserves nothing, but
  gives back a reservation when it is deleted (`RefusedOnlyWhenReserved` of `Dir24_8`
  does not hold).
* In `trie.c` a route that needs more groups than there are passes the unsigned
  comparison of `trie_modify` (`Admitted`); its insertion then runs out half way.
* A name of 64 bytes or more is cut when `rte_fib_create` stores it and compared in full,
  so that it is never found again (`FindsWhatWasCreated` of `FibRegistry` does not hold)
  and can be created twice, which is why `NamesUnique` excepts it.

## Proofs

| module | theorems |
|---|---|
| `MultibitLpmProof` | `TypeCorrect`, `RulesCountedExactly`, `CallsConsistent`; `OwnersStayExact`, `UnlinkAlwaysFindsLink`, `LinkedIsNeverFree`; `AdmittedAddsNeverRunDry`; `CountsStayExact`, `RuleTablesStayLinked`, `PoolStaysExact`, `RebuildsFit`; `LookupsAreLongestMatch`, `AnswersAreOldOrNew`; `UpdatesImplementLpm`, `LookupsCompletePromise`, `MultibitImplementsLpm` |
| `BulkLookupProof` | `CachedIsExactWhereRouted` |
| `Dir24_8Proof` | `TypeCorrect`, `GroupsNeverShared` (`LinkedGroupsTaken`), `RoutesFit`; `LookupsAgree`, `UpdatesStayInTheirGaps`, `NoGroupIsLost`, `GroupsAreNeeded`, `DryOnlyWhenReserved`; `UpdatesImplementFib`, `LookupsCompletePromise`, `TablesImplementFib` |
| `FibTrieProof` (of `FibTrieFolds`) | `NextKeepsInv`, `WalksAreLinked`, and what the next line inherits |
| `FibTrieStepsProof` | `StoresImplementFolds`; `StepsTypeCorrect`, `StoredGroupsNeverShared` (`LinkedGroupsTaken`), `StoredRoutesFit`; `StoredLookupsAgree`, `StoresStayInTheirGaps`, `NoStoredGroupIsLost`, `StoredGroupsAreNeeded`, `StoresRunDryWhenNeeded`; `StoresImplementFib` |
| `Lpm6Proof` | `ImplementsCallers`; `TypeCorrect`, `GroupsStayCounted`; `LookupsBesideInsertions`, `LookupsAreLongestMatch` |
| `FibRegistryProof` | `TypeCorrect`, `NamesStayUnique`, `NoMemoryLost` |
| `PrefixLemmas` | lemmas about masks, networks, routes and the nodes of a RIB |

Every safety property that the passing runs check is proved. Those of
`MultibitLpmProof` are for callers that mix all operations (`AnySpec`, which includes `Spec`),
with these exceptions: `CountsStayExact`, `RuleTablesStayLinked`, `PoolStaysExact`,
`RebuildsFit`, `LookupsAreLongestMatch` and `MultibitImplementsLpm` are, as the run is, for
callers that delete rules either one by one or in bulk (`EitherSpec` of `MultibitCallers`), since with
both, counts get too small (see the findings); `AnswersAreOldOrNew` is for callers that do not
delete in bulk (`Spec`), since a rebuild starts from empty tables.
All hold for every value of the constants that the assumptions allow, and without the
constraint of the runs. `LookupAgrees`, `NoGroupLost` and `GroupsNeeded` speak of tables
that are `intact`; types and `LinkedGroupsTaken` hold also after updates that ran out of
groups.

**`NoDefaultRoute`.** The theorems of the two fibs from `LookupsAgree` and `StoredLookupsAgree`
on are for callers whose routes have a depth of at least one (`Routes` of the
runs are such routes, too). Without that hypothesis they are false: both programs
write a route of depth 0 from address 0 to address 0 and take this for an empty gap,
as `fib_default_route` shows.

**Multibit.** The inductive invariant is `IndInv == TypeOK /\ CallOK /\ RulesCounted`. None
of the three is inductive alone. `TypeOK` needs `RulesCounted` for `used_rules <=
MAX_RULES` and `>= 0` when rules are deleted; it needs `CallOK` because an
insertion may only follow a link if its level is not the last, and may only count a
reference in a group's header. `CallOK` and `RulesCounted` need the types.
`CreateEstablishesInv` and `StepKeepsInv` are the two inductive facts, the latter
with one lemma per action.

**Links of multibit.** `LinksInv` adds to `IndInv` that the pool lists no group twice
(`PoolOnce`), that a link leads to a group outside the pool whose owner is the entry
that holds the link (`LinksKept`), and what a running deletion knows (`CallLinks`):
while references are counted off, its tables lie on the walk of the rule's address
(`ChainOnWalk`), and while it unlinks, the groups still to go are linked, each from a
table of its own (`ChainLinked`). This does not depend on the reference counts: it also holds after `delete_bulk`
has made them too small, when what breaks are the answers. `GroupsFit` is a
hypothesis: if group indexes are wider than the `next_hop` field, a link names another
group than the one that was taken. `Walk` and `Subtree` of the model are recursive
functions over an interval of levels; the lemma `RecursiveFunction` shows by
`LeastNatural` that such a function exists and obeys its equation.

**The pool of multibit.** `AdmitInv` adds to `LinksInv` that an insertion stands on the
walk of its rule (`AddOnWalk`) and that the pool has a group for each level that the walk
still lacks (`RoomLeft`). `SimulatedGroups` shows that `simulate_add` counts these
levels, though it counts bits. A step that links a new group lengthens the rule's walk by
one and shortens no walk (`NewTableWalks`).

For callers that delete in bulk, `BulkInv` adds that links lead to the table of every
rule inserted (`Placed`), that each group in use is on the way to one (`Needed`), and
`NodesFit`, which does not look at the tables: a `Node` is the sequence of indexes that leads
to a group, and the rules of the table have at most as many nodes as there are groups. Groups
in use and nodes of rules correspond to each other (`SameTableSameNode`, `SameNodeSameTable`). So a
rule that was admitted when all others had their tables keeps `NodesFit`
(`AdmittedRulesFit`), deletions keep it, and with it each rule that is still to be inserted again
finds room (`RulesLeftFit`), whatever the order.

**Reference counts of multibit.** For callers that delete rule by rule, `SingleInv` adds to
`AdmitInv` that `ref_cnt` counts references (`Counted`), with allowances for a call half way:
an insertion that has not come to its end counts nothing yet for its rule (`Settled`), the
group whose reference is to be given back next has one too many (`Surplus`), and links to the
groups that a deletion is about to unlink (`Leaving`) count no longer. `Counted` is not inductive
alone. That a group whose count reaches zero may go rests on `Uncut`: links lead to the tables of
the other rules and none of their ways passes a group that is leaving; it does not, since a
group on the way to a rule is referred to, by the rule or by a link (`OnWayIsReferred`). That
nothing is leaked rests on `InUse`: each other group is on the way to a rule, or, while
references are given back, to the one deleted; when the count of a group is not zero, a rule is
left that leads to it (`LinkMeansRule`). `CountsFit` is a hypothesis: as many rules and links as
`ref_cnt` has values (2^32) would wrap it round.

**Lookups of multibit.** `ExpandInv` relates the entry at which a lookup ends (`EndIn`) to the
rules. An entry `Expands` the rules for an address if it is the leaf, next hop and depth, of the
longest rule that matches, or invalid if there is none. Between calls each does (`Rested`). Within
a call (`Adding`, `Deleting`) the addresses of which the call's rule is the longest (`Longest`)
are excepted: there lookups end at an entry that yields to the rule inserted, or at one that
belongs to the rule deleted. All other addresses keep their entries, since writing a rule
stops at entries of longer ones, and those have a greater depth (`ExpandedEntry`). What is written lies exactly on
the ways of the addresses under the rule (`RangeIsReached`, `BelowEntries`, `WriteRuleEnds`); this
is arithmetic on the leading bits of addresses (`RangeIsMatch`). While groups are
unlinked (`Unlinking`), lookups that still pass a group that is leaving will end at the less specific
rule's entry. That entry is right for all of them, not only for those under the deleted rule:
by `Uncut` no rule that is left ends below the first group that leaves, so that all the rules
that match lie above it, where the addresses agree with the deleted rule's (`UnlinkingStarts`).
`SingleInv /\ ExpandInv` and `BulkInv /\ ExpandInv` are inductive.
`HopsFit` is a hypothesis: next hops wider than the bit-field are cut when they are stored.

**Lpm6.** `ImplementsCallers` says that `Lpm6` implements the multibit trie with its careful callers
(`EitherSpec` of `MultibitCallers`), with the first `ADD_FIRST_BYTE` bytes as the top table's index:
the smaller steps of the one are stutters of the other. A state between the steps of an insertion or a
deletion is mapped to the one in which the step is done: `DoneTbl` has the link that is still
missing, or the rule written to all its cells, `DoneHdrs` the reference counted, `DoneOp` the
locals after it. So the action that fills a group and the one that writes a rule's first
cell are steps of the trie, the others are none. That writing cell by cell comes to the same as
writing at once rests on the groups linked from different cells being different, which the inherited
`LinksKept` and `LinksOwned` say: a link is the entry that its group's header names.

The inductive invariant `Inv6` is those of multibit under this mapping (`EitherInv`, `ExpandInv`,
`LinksOwned`), the types of the unmapped variables (`Typed`), and what a running call knows of its
place in the tables (`CallKept`, `PlaceKept`). With `ReaderKept`, `TypeOK` and `GroupsCounted` follow.

`AnswersHeld` has no counterpart in `MultibitLpm`, where a lookup is one step. `Answering` says of the tables as they are,
half filled, half linked or half expanded, that the walk of each address ends, and ends at the answer
of the rules before the insertion or of those after it. Cells not written yet give the
old answer, the others the new one; a group is filled with the entry its link replaces.
Where the insertion has not written a cell yet, all give the old answer. `ReaderKept`
says where a lookup is: on the walk of its address, at its level. Insertions never unlink a
table, so that a walk stays what it was, and a reader in a group reads on where it was; callers that
delete wait for it. With `Answering` in every state, what it reads last is in `held`.
`CountsFit` and `HopsFit` are hypotheses, as for multibit; `GroupsFit` is what the model's
own assumption says.

**Bulk lookups.** The loops without a cache keep nothing from one position to the next, so that
there is nothing to show of them here. With the cache, `CacheOK` says that the cached next hop is
that in the entry of the cached address, unless that address is `::`, as it is at first. Answers
taken from the cache are then right for every routed address but `::` (`RoutedAnswersMatch`);
`bulk_cache_miss` shows what happens to the others. `MaxIps` may be any number.

**Dir24_8.** `TypeOK` and `LinkedGroupsTaken` are inductive together. A group is taken
only if its bit is clear, so it is linked by no entry; folding one back unlinks the only
entry that links it; overwriting entries only drops links. The types need that gaps
end within the address space, which rests on a lemma about ends of networks
(`PrefixLemmas`).

For what the tables say, `AgreeInv` describes an update half way. `ledge` and `redge` are
ends of the gap (`GapOK`), no longer route that is not in `todo` has a part in what is ahead
(`BetweenGaps`), and each address has its new answer if it is under the route, outside
the longer routes and done, and its old one otherwise (`Expected`). The new answer is
the one of the changed RIB (`PrefixLemmas`: a route changes the answers under it and outside longer
ones only). `NoGroupLost` rests on `Varied`: between the parts of a gap no linked group is
uniform. The entries in the middle of a gap are overwritten without a look at them; were one
a link, its group would give all addresses under it the old answer, since no longer
route lies there, so it would be uniform.

For `GroupsNeeded`, `EdgesKnown` adds that the ends of a gap are ends of routes that are still
there. A linked group is not uniform, so some route of the RIB divides it, or the gap
does: that route is longer than the entry. `DryOnlyWhenReserved` uses the same invariant when the group
is missing: the part of the gap just written accounts for the group that is being
split. `RoutesFit` is a statement about trees: a finite set of prefixes has at
most 2n - 1 prefixes that are in it or where two of it branch, by induction on its size:
a prefix more makes at most itself and one branch point more (`NodesAdded`).

**FibTrie.** The invariants are proved of `FibTrieFolds`, in which `write_edge` stores the entry above a
group in the step that fills the group (`FoldRest`), and `FibTrie` is proved to implement that
module (`StoresImplementFolds`): a state is mapped to the one after the store that it has still to do
(`Settled` for the tables, `DoneOp` for the locals), `WriteRest` to `FoldRest`, `StoreEntry` to a
stutter, every other action to itself. This takes the invariant of the coarse module for the mapped
state and, for the state itself, that a call with an entry to store is on its way up an edge
(`Storing`). Between calls nothing is to be stored, so the tables are their own image and
what is proved of the coarse module is inherited.

In `FibTrieFolds`, `LinkedGroupsTaken` (there `LinkedTaken`) is not inductive. An edge works in tables that are
not linked yet, and folds groups back while it climbs; to know that a group put back
is linked nowhere, one must know how the tables on its way are linked. The invariant
`Sound` says that: the walk meets no table twice, and each table it will climb
through is linked, if at all, from the one above it on the walk. The bound of the
pool in `TypeOK` follows: its groups differ from each other, so that they are at most as many as
there are groups.

The second half of `FibTrieProof` carries the arguments of `Dir24_8` to several levels. On the way
down an edge
`write_edge` takes groups that nothing links yet, so that the entries are not what the
tables stand for; `Joined` is the tables as they will be once the way back has linked
them. `AgreeInv` says of `Joined` what it says of the entries in `Dir24_8`, and that
in `Joined` each group is linked once and walks end (`JoinedOK`). What a step does to the answers
then follows from what it does to one entry, or to one table (`FoldsTo`: a uniform group
replaced by its hop changes no answer). `FoldRest` and `RecycleRoot` leave `Joined` as it is or
change one level of it; `FoldBottom` and `WriteBetween` write a part of the gap.
`NoStrayFolds`, its form of `NoStrayWrites`, is about the entries as they are: they differ from `Joined` behind a group
that is not linked yet (`Hidden`), where a lookup still finds the old hop, from the entry
the group was filled with (`SeenOK`). `VariedGroups` says which linked groups may
be uniform for the moment, those on the way of the edge; they are folded on the way
back or by `recycle_root_path`.

`NoStrayWrites` of `FibTrie` itself is not inherited, since it is about what lookups see before the
entry above is stored. `FoldWindow` compares those tables (`Half`) with those before and after
`FoldRest`: for each address they answer as one of the two does, or the walk comes through a group that
has been emptied. Then the answer is 0, it will be the next hop that is written, since the
edge itself leads through the group and the group is uniform, and the address shares the
bytes above the group with the edge (`Blank`). `Window`, an invariant of the state between the two
steps, says which answers `StoreEntry` is going to change.

`StoresRunDryWhenNeeded` is about a moment: an edge asks for a group and the pool is empty. Then
each group is linked or on the way of the edge. Each is put to the network behind the
entry that links it, or will; no two groups have the same one, since they would be one
walk's table at one level; and in each of them lies an end of a route (`EdgesKnown`), which needs
the table. So there are as many `Needed` tables as groups.

**FibRegistry.** `ThreadOK` says what each place in a call knows: whether it holds the
lock, whether its object is on the list, which blocks of it exist, and, between the
search and the insertion, that the name is not on the list. With `OwnObjects` (no two
calls work on one object) and `OnceListed`, `NamesUnique` and `MemoryAccounted` are inductive. The
lemma `OthersKept` carries the argument for interleavings: a step touches one object,
its own, and makes a name present only under the lock, so that what the
other threads know stays true.

**Refinements.** `UpdatesImplementLpm` and `UpdatesImplementFib` say that every step other than a
lookup is one of the abstract specification, or changes nothing there: refused updates
leave the rules alone, accepted ones take effect once. For the fibs, `Seen` maps a running
update to the routes before it, since the RIB changes at its start and the promise
at its end; `UpdateOK` says what a running update remembers of the RIB it found, and
lemmas about dictionaries show that a failed insertion or deletion restores it. For the trie this is said of
`FibTrieFolds`. An insertion into it that is refused because the RIB lacks nodes (`NodesLack`) is excepted:
`Fib` promises room for `max_routes`. `LookupsCompletePromise` states what remains: the whole
refinement follows from `LookupAgrees` and from the RIB having room (`RoutesUpToMaxFit`,
`NodesSuffice`) for the fibs, and from `LookupIsLongestMatch` for multibit. These are
proved, and with them the refinements: `TablesImplementFib`, `StoresImplementFib` and
`MultibitImplementsLpm`.
Where callers mix `delete_bulk` with deletions of single rules, or use a default route of
their own, these invariants fail and with them the lookups, not the updates (see the
findings).

The proofs rest on lemmas about the operators: masking gives a prefix, ends of networks
stay in the address space, indexes are within their tables, removing an element of a list leaves the others.

Assumptions: `SizesAssumption`, `CreateAssumption`, `Lpm6Assumption`, `Dir24_8Assumption`,
`FibTrieAssumption`, `RegistryAssumption` (what the create functions check and what
callers pass), and `PowersAssumption` of `IPv6Prefix`, which says that powers of two up to the number of
bits of an address are positive and that each is twice the one before, since the provers
have no rule for `^`. TLC evaluates all of them in each instance.

**Only model-checked:** liveness (`CallsReturn`, `UpdatesReturn`), which is beyond the prover; and
what the runs that find a disagreement show.

## Not modelled, and why

* In the LPM objects: `is_rule_present` reads the rule table and changes nothing;
  `free` and `find_existing` (always NULL there) handle memory and names; failures to
  allocate in `create` return before there is an object; `valid_group` is written with
  `valid` and never read by a lookup. `delete_bulk` does not check depths; the model
  names valid ones. `lookup_bulk_func_branch_plus_prefetch` is declared and never
  defined. The unit of a step is a table written, in `MultibitLpm`, and a group or
  a cell in `Lpm6`, not a single store.
* In the fibs: `dir24_8_free` and `trie_free` free what create allocated;
  `select_lookup` swaps the lookup function for another that reads the same entries.
  The macros make one function per width of an entry; `NH_BITS` stands for the width.
  Lookups beside an update are checked between its steps (`NoStrayWrites`), as a whole: groups that
  are folded back under a reader are left out, as in `Lpm6`. A step is a piece of the range: in
  `Dir24_8` one edge or the middle, with the group that is taken, linked, filled or folded, in
  `FibTrie` one table's part, the store into the entry above it apart. The order of
  the stores within a piece is not modelled.
* The fib6 object keeps no list: `rte_fib6_find_existing` always answers NULL, and its
  create and free are `rte_fib_create` and `rte_fib_free` without the list.
* `trie_avx512.c` is not built. Patricia and ART are unfinished: Patricia's insert
  does not end once it makes a node, and neither has a lookup. `diplom_trie.h` is
  an unused copy. Helpers, tests and the driver have no state of their own.
* `Fx_trie` allocates groups below the first without initialising them, and reads them:
  what it does is whatever the allocator left there. Nothing but its own test uses it.
* `Btrie` is a sequential structure that only its own test uses; it is left for later.

## Plan

What is left: `Btrie` as a module of its own, against the reference lookup.
