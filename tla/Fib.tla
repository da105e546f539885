--------------------------------- MODULE Fib --------------------------------
(***************************************************************************)
(* What a fib promises its caller, whatever the data plane: a dictionary   *)
(* of routes, and lookups answered with the next hop of the most specific  *)
(* route, or the default one.  An update takes effect as it returns; one   *)
(* that is refused changes nothing.                                        *)
(*                                                                         *)
(* The promise ends once the data plane has run out of groups within an    *)
(* update: `sound' is false from then on.                                  *)
(***************************************************************************)
EXTENDS Rib

CONSTANTS
  MAX_NH,      \* the greatest next hop the data plane can hold
  Routes,      \* what callers pass to the operations: [ip, depth], not masked
  NextHops     \* the next hops they route to

VARIABLES
  routes,      \* a function from networks to next hops
  pending,     \* the update that runs
  sound,
  ret          \* the answer to the last call

vars == <<routes, pending, sound, ret>>

Answer(status) == [status |-> status, ip |-> MISS, hop |-> MISS]

Adding(p, hop) == [call |-> "add", key |-> p, hop |-> hop]
Deleting(p)    == [call |-> "delete", key |-> p, hop |-> MISS]
NoUpdate       == [call |-> "none", key |-> [ip |-> 0, depth |-> 0], hop |-> MISS]

Valid == {r \in Routes : r.depth <= MAX_DEPTH}

Updates == {Adding(Masked(r), hop) : r \in Valid, hop \in NextHops}
           \cup {Deleting(Masked(r)) : r \in Valid}

Fits(u) == u.call = "add" => u.hop <= MAX_NH

Effect(u) ==
  IF u.call = "add" THEN WithRule(routes, u.key, u.hop)
                    ELSE WithoutRules(routes, {u.key})

Init == routes = NoRules /\ pending = NoUpdate /\ sound = TRUE /\ ret = Answer("ok")

Begin(u) ==
  /\ u.call = "delete" => u.key \in DOMAIN routes
  /\ pending' = u
  /\ ret' = Answer("pending")
  /\ UNCHANGED routes

Commit(u) ==
  /\ u.call = "delete" => u.key \in DOMAIN routes
  /\ routes' = Effect(u)
  /\ pending' = NoUpdate
  /\ ret' = Answer("ok")

Refuse(u) ==
  /\ \/ ~Fits(u) /\ ret' = Answer("EINVAL")
     \/ u.call = "add" /\ u.key \notin DOMAIN routes /\ ret' = Answer("ENOSPC")
     \/ /\ u.call = "add"
        /\ Cardinality(DOMAIN routes) >= MAX_ROUTES
        /\ ret' = Answer("ENOMEM")
     \/ /\ u.call = "delete"
        /\ u.key \notin DOMAIN routes
        /\ ret' = Answer("ENOENT")
  /\ UNCHANGED <<routes, pending>>

RejectDepth ==
  /\ \E r \in Routes : r.depth > MAX_DEPTH
  /\ ret' = Answer("EINVAL")
  /\ UNCHANGED <<routes, pending>>

Lookup(ip) ==
  /\ ret' = [status |-> "ok", ip |-> ip, hop |-> RibHop(routes, ip)]
  /\ UNCHANGED <<routes, pending>>

Promised ==
  \/ pending = NoUpdate /\ \E u \in Updates : Begin(u) \/ Commit(u) \/ Refuse(u)
  \/ pending = NoUpdate /\ RejectDepth
  \/ pending = NoUpdate /\ \E ip \in Address : Lookup(ip)
  \/ pending # NoUpdate /\ Commit(pending)

Next == sound' => sound /\ Promised

Spec == Init /\ [][Next]_vars
=============================================================================
