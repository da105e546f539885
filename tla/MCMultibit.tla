----------------------------- MODULE MCMultibit -----------------------------
(***************************************************************************)
(* Instances of MultibitLpm for TLC.  Addresses have three bytes of two    *)
(* bits, so that a rule can end in the top table or in the first or second *)
(* group below it, in the middle of a byte or at its end.                  *)
(***************************************************************************)
EXTENDS MultibitLpm

R(ip, depth) == [ip |-> ip, depth |-> depth]

\* Nested prefixes of 000000 at every kind of depth, a sibling in the second
\* group, a path of its own through the same top-level range, an address that
\* has bits below its depth, and a depth out of range.
NestedRoutes ==
  {R(0, 1), R(0, 2), R(3, 3), R(0, 5), R(0, 6), R(1, 6), R(17, 5), R(5, 0)}

\* A short list for the run with liveness, which compares whole states: rules in
\* the top table and in both groups of one path, one of another path for which
\* the groups run out, and a depth out of range.
ChainRoutes == {R(0, 1), R(0, 3), R(0, 6), R(1, 6), R(17, 5), R(5, 0)}

\* What a state is compared by: not the contents and headers of the groups in
\* the pool, nor the pool below its position.  They are dead: a group is
\* filled and its header set when it is taken, before either is read; only
\* the assertion of remove_tbl reads an owner that has just been put back.
Owners == {tbl8_hdrs[op.chain[i]].owner_tbl_ind : i \in DOMAIN op.chain}
LiveGroups == (Groups \ Free) \cup (Owners \ {TBL24_IND})
LiveState ==
  <<rules, used_rules, op, ret, tbl8_pool_pos,
    [i \in tbl8_pool_pos..(NUMBER_TBL8S - 1) |-> tbl8_pool[i]],
    [g \in LiveGroups |-> tbl8_hdrs[g]],
    [t \in LiveGroups \cup {TBL24_IND} |-> tbl[t]]>>
=============================================================================
