-------------------------------- MODULE Lpm ---------------------------------
(***************************************************************************)
(* What a longest-prefix-match object promises its caller, whatever the    *)
(* tables behind it: a bounded dictionary of rules, and lookups answered   *)
(* with the next hop of the most specific rule.  An update takes effect at *)
(* one step and returns at a later one; nothing is looked up in between.   *)
(***************************************************************************)
EXTENDS IPv6Prefix, FiniteSets

CONSTANTS
  Routes,      \* what callers pass to the operations: [ip, depth], not masked
  NextHops,    \* the next hops they route to
  MAX_RULES    \* config->max_rules

VARIABLES
  rules,       \* the rules, a function from prefixes to next hops
  ret          \* the answer to the last call; "pending" while one is running

vars == <<rules, ret>>

Answer(status) == [status |-> status, hop |-> MISS]
Busy == ret = Answer("pending")

Init == rules = NoRules /\ ret = Answer("ok")

Reject(status) == ~Busy /\ ret' = Answer(status) /\ UNCHANGED rules

\* Refused for lack of room, with an error code or an exception, an update
\* leaves every rule as it was.
Add(r, hop) ==
  /\ ~Busy
  /\ r.depth \in Depth
  /\ rules' = WithRule(rules, Masked(r), hop)
  /\ Cardinality(DOMAIN rules') <= MAX_RULES
  /\ ret' = Answer("pending")

Delete(r) ==
  /\ ~Busy
  /\ Masked(r) \in DOMAIN rules
  /\ rules' = WithoutRules(rules, {Masked(r)})
  /\ ret' = Answer("pending")

DeleteBulk ==
  /\ ~Busy
  /\ DOMAIN rules' \subseteq DOMAIN rules
  /\ rules' = [p \in DOMAIN rules' |-> rules[p]]
  /\ ret' \in {Answer("pending"), Answer("ok")}

DeleteAll ==
  /\ ~Busy
  /\ rules' = NoRules
  /\ ret' = Answer("ok")

Return == Busy /\ ret' = Answer("ok") /\ UNCHANGED rules

Lookup(ip) ==
  /\ ~Busy
  /\ LET hop == LongestMatch(rules, ip)
     IN  ret' = [status |-> IF hop = MISS THEN "ENOENT" ELSE "ok", hop |-> hop]
  /\ UNCHANGED rules

Next ==
  \/ \E r \in Routes, hop \in NextHops : Add(r, hop)
  \/ \E r \in Routes :
       \/ r.depth \notin Depth /\ Reject("EINVAL")
       \/ /\ r.depth \in Depth
          /\ \/ Delete(r)
             \/ Masked(r) \notin DOMAIN rules /\ Reject("ENOENT")
             \/ /\ Masked(r) \notin DOMAIN rules
                /\ Cardinality(DOMAIN rules) = MAX_RULES
                /\ Reject("ENOSPC")
             \/ Reject("exception")
  \/ DeleteBulk
  \/ DeleteAll
  \/ Return
  \/ \E ip \in Address : Lookup(ip)

Spec == Init /\ [][Next]_vars
=============================================================================
