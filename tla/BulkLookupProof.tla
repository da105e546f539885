--------------------------- MODULE BulkLookupProof ---------------------------
(***************************************************************************)
(* What the cached bulk lookup keeps of its promise, for arrays of every   *)
(* length: what the cache remembers belongs to the address it remembers,   *)
(* except for ::, its initial value.                                       *)
(***************************************************************************)
EXTENDS BulkLookup, TLAPS

\* What a bulk lookup may write to a position.
Answers == NextHops \cup {0, MISS}

TypeOK ==
  /\ variant \in Variants
  /\ entry \in [Address -> Entry]
  /\ ips \in Seq(Address)
  /\ next_hops \in Seq(Answers)
  /\ Len(next_hops) <= Len(ips)
  /\ prev_ip \in Address
  /\ prev_nh \in Answers

CacheOK == variant = "cache" /\ prev_ip # 0 => prev_nh = entry[prev_ip].next_hop

IndInv == TypeOK /\ CacheOK /\ RoutedAnswersMatch

-----------------------------------------------------------------------------
LEMMA EntryFields ==
  ASSUME NEW e \in Entry
  PROVE  e.next_hop \in Answers /\ Found(e) \in Answers
BY DEF Entry, Found, Answers

\* The next position is one of the array, and the answer given for it leaves
\* the earlier ones as they were.
LEMMA OneMoreAnswer ==
  ASSUME TypeOK, ~Done, NEW a \in Answers, next_hops' = Append(next_hops, a)
  PROVE  /\ i \in DOMAIN ips
         /\ next_hops' \in Seq(Answers)
         /\ Len(next_hops') <= Len(ips)
         /\ DOMAIN next_hops' = DOMAIN next_hops \cup {i}
         /\ next_hops'[i] = a
         /\ \A k \in DOMAIN next_hops : next_hops'[k] = next_hops[k]
<1>1. Len(next_hops) \in Nat /\ Len(ips) \in Nat /\ Len(next_hops) < Len(ips)
  BY DEF TypeOK, Done, n
<1>2. i \in DOMAIN ips
  BY <1>1 DEF TypeOK, i
<1>3. /\ next_hops' \in Seq(Answers)
      /\ Len(next_hops') = Len(next_hops) + 1
      /\ next_hops'[i] = a
      /\ \A k \in DOMAIN next_hops : next_hops'[k] = next_hops[k]
  BY DEF TypeOK, i
<1>4. DOMAIN next_hops' = DOMAIN next_hops \cup {i}
  BY <1>1, <1>3 DEF TypeOK, i
<1> QED BY <1>1, <1>2, <1>3, <1>4

LEMMA InitEstablishesInv ==
  ASSUME MaxIps \in Nat, Init
  PROVE  IndInv
<1>1. ips \in Seq(Address)
  <2>1. PICK k \in 0..MaxIps : ips \in [1..k -> Address]
    BY DEF Init
  <2> QED BY <2>1
<1>2. 0 \in Address
  BY SizesAssumption, PowersAssumption DEF Address, MAX_DEPTH
<1>3. TypeOK
  BY <1>1, <1>2 DEF Init, TypeOK, Answers
<1> QED BY <1>3 DEF Init, IndInv, CacheOK, RoutedAnswersMatch

LEMMA HitKeepsInv ==
  ASSUME IndInv, CacheHit
  PROVE  IndInv'
<1> USE DEF IndInv
<1>1. /\ i \in DOMAIN ips
      /\ next_hops' \in Seq(Answers)
      /\ Len(next_hops') <= Len(ips)
      /\ DOMAIN next_hops' = DOMAIN next_hops \cup {i}
      /\ next_hops'[i] = prev_nh
      /\ \A k \in DOMAIN next_hops : next_hops'[k] = next_hops[k]
  BY OneMoreAnswer DEF CacheHit, TypeOK
<1>2. TypeOK'
  BY <1>1 DEF CacheHit, TypeOK
<1>3. CacheOK'
  BY DEF CacheHit, CacheOK
<1>4. RoutedAnswersMatch'
  <2> SUFFICES ASSUME NEW k \in DOMAIN next_hops', ips[k] # 0, entry[ips[k]].valid
               PROVE  next_hops'[k] = Answer(ips[k])
    BY DEF CacheHit, RoutedAnswersMatch, Answer
  <2>1. CASE k \in DOMAIN next_hops
    BY <1>1, <2>1 DEF CacheHit, RoutedAnswersMatch
  <2>2. CASE k = i
    <3>1. ips[k] = prev_ip /\ variant = "cache"
      BY <2>2 DEF CacheHit
    <3> QED BY <1>1, <2>2, <3>1 DEF CacheOK, Answer
  <2> QED BY <1>1, <2>1, <2>2
<1> QED BY <1>2, <1>3, <1>4

LEMMA WalkKeepsInv ==
  ASSUME IndInv, WalkTables
  PROVE  IndInv'
<1> USE DEF IndInv
<1> DEFINE e == entry[ips[i]]
<1>1. /\ ~Done
      /\ next_hops' = Append(next_hops, Found(e))
      /\ Remember(ips[i], e)
      /\ UNCHANGED <<variant, entry, ips>>
  BY DEF WalkTables
<1>2. i \in DOMAIN ips
  BY <1>1 DEF TypeOK, Done, n, i
<1>3. ips[i] \in Address /\ e \in Entry
  BY <1>2 DEF TypeOK
<1>4. e.next_hop \in Answers /\ Found(e) \in Answers
  BY <1>3, EntryFields
<1>5. /\ next_hops' \in Seq(Answers)
      /\ Len(next_hops') <= Len(ips)
      /\ DOMAIN next_hops' = DOMAIN next_hops \cup {i}
      /\ next_hops'[i] = Found(e)
      /\ \A k \in DOMAIN next_hops : next_hops'[k] = next_hops[k]
  BY <1>1, <1>4, OneMoreAnswer
<1>6. Found(e) = Answer(ips[i])
  BY DEF Found, Answer
<1>7. TypeOK'
  BY <1>1, <1>3, <1>4, <1>5 DEF TypeOK, Remember
<1>8. CacheOK'
  BY <1>1 DEF CacheOK, Remember
<1>9. RoutedAnswersMatch'
  BY <1>1, <1>5, <1>6 DEF RoutedAnswersMatch, Answer
<1> QED BY <1>7, <1>8, <1>9

LEMMA StepKeepsInv == IndInv /\ [Next]_vars => IndInv'
<1> SUFFICES ASSUME IndInv, [Next]_vars PROVE IndInv'
  OBVIOUS
<1>1. CASE CacheHit
  BY <1>1, HitKeepsInv
<1>2. CASE WalkTables
  BY <1>2, WalkKeepsInv
<1>3. CASE UNCHANGED vars
  BY <1>3 DEF vars, IndInv, TypeOK, CacheOK, RoutedAnswersMatch, Answer
<1> QED BY <1>1, <1>2, <1>3 DEF Next

-----------------------------------------------------------------------------
\* With the cache, every address but :: that some rule matches still does, whatever
\* precedes it in the array: a cached next hop is that of the address compared
\* with (multibit_rte_lpm6_lookup_bulk_func_cache).
THEOREM CachedIsExactWhereRouted ==
  ASSUME MaxIps \in Nat
  PROVE  Spec => []RoutedAnswersMatch
<1>1. IndInv => RoutedAnswersMatch
  BY DEF IndInv
<1> QED BY <1>1, InitEstablishesInv, StepKeepsInv, PTL DEF Spec
=============================================================================
