------------------------------ MODULE MCFibTrie -----------------------------
(***************************************************************************)
(* Instances of FibTrie for TLC: addresses of three bytes of two bits, of  *)
(* which the first indexes tbl24.                                          *)
(***************************************************************************)
EXTENDS FibTrie

R(addr, depth) == [ip |-> addr, depth |-> depth]

\* Addresses 32 to 47 and 48 to 63 are each one entry of tbl24, and 52 to 55
\* one of the latter's group.  A route shorter than tbl24 resolves, which ends
\* with the address space; two nested ones that need two groups and end where
\* the end carries into the next byte, one of them with bits below its depth;
\* one that needs two others; and a depth that is out of range.
EdgeRoutes == {R(36, 1), R(38, 5), R(55, 5), R(55, 6), R(0, 7)}

TwoRoutes == {R(38, 5), R(55, 6)}

\* One route over two entries of tbl24 and one over half a group of the first.
HalfGroup == {R(36, 1), R(32, 3)}

BothTypes == {"DUMMY", "TRIE"}
Tables    == {"TRIE"}
TwoHops   == {1, 2}
SomeHops  == {1, 2, 3, 8}
WideHops  == {1, 4}

EdgeProbes == {37, 39, 53, 55}

\* Bounds: nothing is promised after the return of an update that has been
\* lost, and the dummy data plane has no tables to explore.
Explored ==
  /\ intact \/ op.pc # "idle"
  /\ type = "DUMMY" => Cardinality(DOMAIN rib) <= 2
=============================================================================
