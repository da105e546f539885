------------------------------- MODULE MCLpm6 -------------------------------
(***************************************************************************)
(* A small lpm6: bytes of two bits, a top table indexed by two bytes and   *)
(* two further levels of groups.                                           *)
(***************************************************************************)
EXTENDS Lpm6

R(ip, depth) == [ip |-> ip, depth |-> depth]

\* Prefixes that nest across the levels, one that covers two cells of tbl24,
\* one that does not end at a byte, one that is apart and needs no group, so that
\* the table can be full, and a depth out of range.  Addresses are not masked.
NestedRoutes == {R(10, 4), R(88, 3), R(82, 5), R(83, 7), R(66, 6), R(0, 0)}

SomeHops == {1, 2}

\* Two addresses that part in the last group.
SomeArrays == {<<83, 80>>}

\* What a state is compared by: not the contents and headers of the groups in
\* the pool, nor the pool below its position.  They are dead, as in MCMultibit:
\* no lookup is in a group that a deletion puts back, and of those only
\* remove_tbl reads one again, the owner of the group it goes on with.
Free == {tbl8_pool[i] : i \in tbl8_pool_pos..(NUMBER_TBL8S - 1)}
Owners == {tbl8_hdrs[op.chain[i]].owner_tbl_ind : i \in DOMAIN op.chain}
LiveGroups == (Groups \ Free) \cup (Owners \ {TBL24_IND})
LiveState ==
  <<rules, used_rules, op, ret, reader, before, deletes, tbl8_pool_pos,
    [i \in tbl8_pool_pos..(NUMBER_TBL8S - 1) |-> tbl8_pool[i]],
    [g \in LiveGroups |-> tbl8_hdrs[g]],
    [t \in LiveGroups \cup {TBL24_IND} |-> tbl[t]]>>
=============================================================================
