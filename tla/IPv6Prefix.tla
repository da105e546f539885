----------------------------- MODULE IPv6Prefix -----------------------------
(***************************************************************************)
(* Addresses, prefixes and longest prefix match, the vocabulary every      *)
(* lookup structure of the repository shares.  An address of               *)
(* IPV6_ADDR_SIZE bytes of BYTE_SIZE bits is the number its bytes spell,   *)
(* most significant byte first.                                            *)
(***************************************************************************)
EXTENDS Integers

CONSTANTS
  BYTE_SIZE,        \* bits in a byte (8 in the code)
  IPV6_ADDR_SIZE    \* bytes in an address (16 in the code)

ASSUME SizesAssumption ==
  /\ BYTE_SIZE \in Nat \ {0}
  /\ IPV6_ADDR_SIZE \in Nat \ {0}

\* RTE_LPM6_MAX_DEPTH
MAX_DEPTH == BYTE_SIZE * IPV6_ADDR_SIZE

\* Arithmetic the provers have no rule for: what a power of two is.
ASSUME PowersAssumption ==
  /\ 2 ^ 0 = 1
  /\ \A n \in 0..MAX_DEPTH : 2 ^ n \in Nat \ {0}
  /\ \A n \in 0..(MAX_DEPTH - 1) : 2 ^ (n + 1) = 2 * 2 ^ n

Address == 0..(2 ^ MAX_DEPTH - 1)
Depth   == 1..MAX_DEPTH
Prefix  == [ip : Address, depth : Depth]

\* The outcome of a lookup no rule matches: -1 in the bulk lookups.
MISS == -1

\* Keep the `depth' leading bits of ip and zero the rest.
ip6_mask_addr(ip, depth) == ip - (ip % 2 ^ (MAX_DEPTH - depth))

Masked(r) == [ip |-> ip6_mask_addr(r.ip, r.depth), depth |-> r.depth]

\* The rules (a function from prefixes to next hops) that match an address,
\* and the next hop of the most specific one.
Matching(rules, ip) == {p \in DOMAIN rules : ip6_mask_addr(ip, p.depth) = p.ip}

LongestMatch(rules, ip) ==
  IF Matching(rules, ip) = {}
  THEN MISS
  ELSE rules[CHOOSE p \in Matching(rules, ip) :
               \A q \in Matching(rules, ip) : q.depth <= p.depth]

\* The rule table as a dictionary: insert or overwrite, and erase.
NoRules == [p \in {} |-> MISS]
WithRule(rules, key, hop) ==
  [p \in DOMAIN rules \cup {key} |-> IF p = key THEN hop ELSE rules[p]]
WithoutRules(rules, keys) == [p \in DOMAIN rules \ keys |-> rules[p]]
=============================================================================
