------------------------------ MODULE MCDir24_8 -----------------------------
(***************************************************************************)
(* Instances of Dir24_8 for TLC: addresses of five bits, of which three    *)
(* index tbl24.                                                            *)
(***************************************************************************)
EXTENDS Dir24_8

R(addr, depth) == [ip |-> addr, depth |-> depth]

\* Under one half of the address space: routes longer than an entry in its
\* first and third entry, so that a gap has two edges and an entry between;
\* two of them in one entry and a third around them, with bits below its
\* depth; one whose gap ends at 2^32; and a depth that is out of range.
EdgeRoutes ==
  {R(16, 1), R(17, 5), R(25, 3), R(25, 5), R(26, 4), R(30, 4), R(0, 6)}

\* With a default route.
DefaultRoutes == {R(0, 0), R(0, 1), R(8, 3), R(9, 5)}

\* Routes that share the next hop of a longer one under the same entry.
NestedRoutes == {R(8, 3), R(8, 4), R(9, 5)}

BothTypes == {"DUMMY", "DIR24_8"}
Tables    == {"DIR24_8"}
TwoHops   == {1, 2}
SomeHops  == {1, 2, 4}

EdgeProbes == {17, 25, 30}

\* Bounds: nothing is promised after the return of an update that has run out
\* of groups, and the dummy data plane has no tables to explore.
Explored ==
  /\ intact \/ op.pc # "idle"
  /\ type = "DUMMY" => Cardinality(DOMAIN rib) <= 2
=============================================================================
