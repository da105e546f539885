----------------------------- MODULE BulkLookup -----------------------------
(***************************************************************************)
(* The bulk lookups of tries/multibit_dpdk.c: one loop over an array of    *)
(* addresses that walks the tables for each.  The variants differ in a     *)
(* one-element cache of the previous address and in a prefetch of the next *)
(* one; the tables do not change meanwhile.                                *)
(***************************************************************************)
EXTENDS IPv6Prefix, Sequences

CONSTANTS
  NextHops,    \* of the rules, natural numbers
  MaxIps       \* bound: the length of the array

\* lookup_bulk_func, which lookup_bulk_func_branch only gives the compiler
\* hints about, lookup_bulk_func_prefetch and lookup_bulk_func_cache.
Variants == {"plain", "prefetch", "cache"}

VARIABLES
  variant,     \* the function that is called
  entry,       \* the entry a walk of the tables ends with, for each address
  ips,         \* the argument array
  next_hops,   \* the answers given so far, in order
  prev_ip, prev_nh,
  reads        \* the indexes of ips the loop has read

vars == <<variant, entry, ips, next_hops, prev_ip, prev_nh, reads>>

\* An entry that is not valid is zero throughout.
Entry == [valid : {TRUE}, next_hop : NextHops] \cup [valid : {FALSE}, next_hop : {0}]

n == Len(ips)
i == Len(next_hops) + 1
Done == Len(next_hops) = n

Init ==
  /\ variant \in Variants
  /\ entry \in [Address -> Entry]
  /\ ips \in UNION {[1..k -> Address] : k \in 0..MaxIps}
  /\ next_hops = <<>>
  /\ prev_ip = 0
  /\ prev_nh = MISS
  /\ reads = {}

Read == reads' = reads \cup {i} \cup (IF variant = "prefetch" THEN {i + 1} ELSE {})

\* The address is the one of the iteration before, or none was looked up yet
\* and it is the initial value of prev_ip.
CacheHit ==
  /\ ~Done
  /\ variant = "cache" /\ ips[i] = prev_ip
  /\ next_hops' = Append(next_hops, prev_nh)
  /\ Read
  /\ UNCHANGED <<variant, entry, ips, prev_ip, prev_nh>>

\* What a walk that ends with this entry answers.
Found(e) == IF e.valid THEN e.next_hop ELSE MISS

Remember(ip, e) ==
  /\ prev_ip' = IF variant = "cache" THEN ip ELSE prev_ip
  /\ prev_nh' = IF variant = "cache" THEN e.next_hop ELSE prev_nh

\* lookup_step stores the next_hop field of the last entry, valid or not, and
\* the cache keeps that rather than the answer.
WalkTables ==
  LET e == entry[ips[i]]
  IN  /\ ~Done
      /\ ~(variant = "cache" /\ ips[i] = prev_ip)
      /\ next_hops' = Append(next_hops, Found(e))
      /\ Remember(ips[i], e)
      /\ Read
      /\ UNCHANGED <<variant, entry, ips>>

Next == CacheHit \/ WalkTables
Spec == Init /\ [][Next]_vars

-----------------------------------------------------------------------------
Answer(ip) == IF entry[ip].valid THEN entry[ip].next_hop ELSE MISS

\* Each position gets what a lookup of its address alone would give: the next
\* hop on success, -1 otherwise (multibit_rte_lpm6_lookup_bulk_func).
AnswersMatch ==
  \A k \in DOMAIN next_hops : next_hops[k] = Answer(ips[k])

\* The part of that the cache keeps: an address other than :: that some rule
\* matches gets its own next hop, wherever it stands and whatever precedes it
\* (multibit_rte_lpm6_lookup_bulk_func_cache).
RoutedAnswersMatch ==
  variant = "cache" => \A k \in DOMAIN next_hops :
    ips[k] # 0 /\ entry[ips[k]].valid => next_hops[k] = Answer(ips[k])

\* The loop reads the n elements it was given and no other.
ReadsStayInside == reads \subseteq 1..n
=============================================================================
