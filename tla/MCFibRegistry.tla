---------------------------- MODULE MCFibRegistry ---------------------------
(***************************************************************************)
(* Two threads, a name, and a longer one that is cut to it.                *)
(***************************************************************************)
EXTENDS FibRegistry

CONSTANTS fits, long

Cut == [n \in {fits, long} |-> fits]
=============================================================================
