-------------------------- MODULE MCMultibitCallers -------------------------
(***************************************************************************)
(* Instances of MultibitCallers for TLC: those of MCMultibit, with what    *)
(* the callers agreed on as part of what states are compared by.           *)
(***************************************************************************)
EXTENDS MCMultibit, MultibitCallers

EitherState == <<deletion, LiveState>>
=============================================================================
