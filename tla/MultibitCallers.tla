--------------------------- MODULE MultibitCallers ---------------------------
(***************************************************************************)
(* MultibitLpm under callers that agree on one way to delete rules: single *)
(* deletions after a bulk deletion find counts that are too small.         *)
(***************************************************************************)
EXTENDS MultibitLpm

VARIABLE deletion  \* how the callers of the object delete rules

\* "single": rule by rule; "bulk": only by lists of rules.
EitherNext ==
  /\ \/ deletion = "single" /\ Next
     \/ deletion = "bulk" /\ BulkNext
  /\ UNCHANGED deletion

EitherSpec ==
  /\ Create
  /\ deletion \in {"single", "bulk"}
  /\ [][EitherNext]_<<vars, deletion>>

\* RefCountsExact of callers that delete rule by rule; a rebuild does not
\* restore the counts.
RefCountsKept == deletion = "single" => RefCountsExact
=============================================================================
