---------------------------- MODULE PrefixLemmas ----------------------------
(***************************************************************************)
(* Facts about sets of naturals and about masked addresses that the proofs *)
(* of all the lookup structures need, and what the queries of a RIB        *)
(* return, for the two fibs.                                               *)
(***************************************************************************)
EXTENDS Rib, TLAPS, FiniteSetTheorems, WellFoundedInduction

\* A nonempty set of naturals has a least element.
LEMMA LeastNatural ==
  ASSUME NEW S \in SUBSET Nat, S # {}
  PROVE  \E m \in S : \A k \in S : m <= k
<1>1. \E m \in S : \A k \in S : ~(<<k, m>> \in OpToRel(<, Nat))
  BY NatLessThanWellFounded, WFMin
<1>2. PICK m \in S : \A k \in S : ~(<<k, m>> \in OpToRel(<, Nat))
  BY <1>1
<1>3. ASSUME NEW k \in S PROVE m <= k
  <2>1. ~(k < m)
    BY <1>2, <1>3 DEF OpToRel
  <2> QED BY <2>1
<1> QED BY <1>3

\* A nonempty set of naturals below a bound has a greatest element.
LEMMA GreatestNatural ==
  ASSUME NEW bound \in Nat, NEW S \in SUBSET (0..bound), S # {}
  PROVE  \E m \in S : \A k \in S : k <= m
<1> DEFINE Gap == {bound - k : k \in S}
<1>1. Gap \in SUBSET Nat /\ Gap # {}
  <2>1. PICK k \in S : TRUE
    OBVIOUS
  <2>2. bound - k \in Gap
    BY <2>1
  <2>3. \A j \in S : bound - j \in Nat
    OBVIOUS
  <2> QED BY <2>2, <2>3
<1>2. PICK g \in Gap : \A h \in Gap : g <= h
  BY <1>1, LeastNatural
<1>3. PICK m \in S : g = bound - m
  OBVIOUS
<1>4. ASSUME NEW k \in S PROVE k <= m
  <2>1. bound - m <= bound - k
    BY <1>2, <1>3
  <2> QED BY <2>1
<1> QED BY <1>4

\* A remainder is smaller than its modulus, whatever the sign of the dividend.
LEMMA RemainderRange ==
  ASSUME NEW a \in Int, NEW m \in Nat \ {0}
  PROVE  a % m \in 0..(m - 1)
OBVIOUS

\* Addresses have a positive number of bits.
LEMMA DepthsAreNaturals == MAX_DEPTH \in Nat \ {0} /\ 2 ^ MAX_DEPTH \in Nat \ {0}
<1>1. BYTE_SIZE * IPV6_ADDR_SIZE \in Nat \ {0}
  BY SizesAssumption
<1> QED BY <1>1, PowersAssumption DEF MAX_DEPTH

\* Masking an address to some depth gives an address.
LEMMA MaskAddress ==
  ASSUME NEW ip \in Address, NEW depth \in 0..MAX_DEPTH
  PROVE  ip6_mask_addr(ip, depth) \in Address
<1>1. MAX_DEPTH - depth \in 0..MAX_DEPTH
  BY DepthsAreNaturals
<1>2. 2 ^ (MAX_DEPTH - depth) \in Nat \ {0}
  BY <1>1, PowersAssumption
<1>3. ip \in Nat /\ ip <= 2 ^ MAX_DEPTH - 1
  BY DepthsAreNaturals DEF Address
<1> DEFINE low == ip % 2 ^ (MAX_DEPTH - depth)
<1>4. low \in 0..ip
  BY <1>2, <1>3
<1>5. ip - low \in 0..(2 ^ MAX_DEPTH - 1)
  <2> HIDE DEF low
  <2> QED BY <1>3, <1>4, DepthsAreNaturals
<1> QED BY <1>5 DEF ip6_mask_addr, Address

-----------------------------------------------------------------------------
(* Functions defined by recursion over an interval *)

Steps(lo, hi, V) == [(lo + 1)..hi -> [V -> V]]

Computed(f, lo, hi, V, v, step) ==
  /\ f \in [lo..hi -> V]
  /\ f[lo] = v
  /\ \A n \in (lo + 1)..hi : f[n] = step[n][f[n - 1]]

\* Values that are computed one from the other make a function.
LEMMA RecursiveFunction ==
  ASSUME NEW lo \in Nat, NEW hi \in Nat, lo <= hi, NEW V, NEW v \in V,
         NEW step \in Steps(lo, hi, V)
  PROVE  \E f : Computed(f, lo, hi, V, v, step)
<1> USE DEF Steps
<1> DEFINE Computes(f, m) ==
             f[lo] = v /\ \A n \in (lo + 1)..m : f[n] = step[n][f[n - 1]]
           Missing == {m \in lo..hi : ~ \E f \in [lo..m -> V] : Computes(f, m)}
<1>1. lo \notin Missing
  <2> DEFINE f == [n \in lo..lo |-> v]
  <2>1. f \in [lo..lo -> V] /\ Computes(f, lo)
    OBVIOUS
  <2> QED BY <2>1
<1>2. ASSUME NEW m \in lo..hi, m # hi, m \notin Missing
      PROVE  m + 1 \notin Missing
  <2>1. PICK f \in [lo..m -> V] : Computes(f, m)
    BY <1>2
  <2> DEFINE g == [n \in lo..(m + 1) |-> IF n = m + 1 THEN step[m + 1][f[m]] ELSE f[n]]
  <2>2. m + 1 \in (lo + 1)..hi /\ m \in lo..m
    BY <1>2
  <2>3. step[m + 1] \in [V -> V] /\ f[m] \in V
    BY <2>1, <2>2
  <2>4. g \in [lo..(m + 1) -> V]
    BY <2>1, <2>3
  <2>5. \A n \in lo..m : g[n] = f[n]
    OBVIOUS
  <2>6. g[m + 1] = step[m + 1][g[m]]
    BY <1>2, <2>2
  <2>7. Computes(g, m + 1)
    <3> HIDE DEF g
    <3>1. \A n \in (lo + 1)..m : n \in lo..m /\ n - 1 \in lo..m
      BY <1>2
    <3>2. \A n \in (lo + 1)..m : g[n] = step[n][g[n - 1]]
      BY <2>1, <2>5, <3>1
    <3> QED BY SMTT(30), <1>2, <2>1, <2>5, <2>6, <3>2
  <2> QED BY <2>4, <2>7
<1>3. Missing = {}
  <2> SUFFICES ASSUME Missing # {} PROVE FALSE
    OBVIOUS
  <2>1. Missing \in SUBSET Nat
    OBVIOUS
  <2>2. PICK m \in Missing : \A k \in Missing : m <= k
    <3> HIDE DEF Missing
    <3> QED BY <2>1, LeastNatural
  <2>3. m \in lo..hi
    OBVIOUS
  <2> HIDE DEF Missing
  <2>4. m # lo /\ m - 1 \in lo..hi /\ m - 1 # hi /\ m - 1 \notin Missing
    BY <1>1, <2>2, <2>3
  <2>5. (m - 1) + 1 = m
    BY <2>3
  <2> QED BY <1>2, <2>4, <2>5
<1>4. hi \in lo..hi /\ hi \notin Missing
  BY <1>3
<1> QED BY <1>4 DEF Computed

-----------------------------------------------------------------------------
(* Powers and multiples *)

\* The sum of two exponents is the product of the powers.
LEMMA PowerOfSum ==
  ASSUME NEW m \in Nat, NEW n \in Nat, m + n <= MAX_DEPTH
  PROVE  2 ^ (m + n) = 2 ^ m * 2 ^ n
<1> DEFINE Wrong == {k \in 0..n : 2 ^ (m + k) # 2 ^ m * 2 ^ k}
<1> SUFFICES ASSUME Wrong # {} PROVE FALSE
  <2>1. n \in 0..n
    OBVIOUS
  <2> QED BY <2>1
<1>1. PICK k \in Wrong : \A j \in Wrong : k <= j
  <2>1. Wrong \in SUBSET Nat
    OBVIOUS
  <2> HIDE DEF Wrong
  <2> QED BY <2>1, LeastNatural
<1>2. k \in 0..n /\ 2 ^ (m + k) # 2 ^ m * 2 ^ k
  OBVIOUS
<1>3. k # 0
  <2>1. 2 ^ m \in Nat /\ 2 ^ 0 = 1 /\ m + 0 = m
    BY DepthsAreNaturals, PowersAssumption
  <2>2. 2 ^ m * 1 = 2 ^ m
    BY <2>1
  <2> QED BY <1>2, <2>1, <2>2
<1> DEFINE j == k - 1
<1>4. j \in 0..n /\ j \notin Wrong /\ k = j + 1
  BY <1>1, <1>2, <1>3
<1>5. 2 ^ (m + j) = 2 ^ m * 2 ^ j
  BY <1>4
<1>6. /\ m + j \in 0..(MAX_DEPTH - 1) /\ j \in 0..(MAX_DEPTH - 1)
      /\ m \in 0..MAX_DEPTH /\ m + k = (m + j) + 1
  BY <1>2, <1>4, DepthsAreNaturals
<1> HIDE DEF j, Wrong
<1>7. 2 ^ (m + k) = 2 * 2 ^ (m + j) /\ 2 ^ k = 2 * 2 ^ j
  BY <1>4, <1>6, PowersAssumption
<1>8. 2 ^ m \in Nat /\ 2 ^ j \in Nat
  BY <1>6, DepthsAreNaturals, PowersAssumption
<1>9. \A a, b \in Nat : 2 * (a * b) = a * (2 * b)
  OBVIOUS
<1> QED BY <1>2, <1>5, <1>7, <1>8, <1>9

\* Two different multiples of a number are at least that number apart.
LEMMA MultiplesApart ==
  ASSUME NEW n \in Nat, NEW a \in Int, NEW b \in Int, a < b
  PROVE  n * a + n <= n * b
<1>1. n * (b - a) >= n
  <2> DEFINE d == b - a
  <2>1. d \in Nat /\ d >= 1
    OBVIOUS
  <2> HIDE DEF d
  <2> QED BY <2>1 DEF d
<1>2. n * (b - a) = n * b - n * a
  OBVIOUS
<1>3. n * a \in Int /\ n * b \in Int
  OBVIOUS
<1> QED BY <1>1, <1>2, <1>3

\* Rounding down gives the multiple below.
LEMMA RoundedDown ==
  ASSUME NEW a \in Nat, NEW n \in Nat \ {0}
  PROVE  /\ a \div n \in Nat /\ a - (a % n) = n * (a \div n)
         /\ n * (a \div n) <= a /\ a < n * (a \div n) + n
<1>1. a \div n \in Nat /\ a % n \in 0..(n - 1) /\ a = (n * (a \div n)) + (a % n)
  OBVIOUS
<1>2. n * (a \div n) \in Int
  BY <1>1
<1> QED BY <1>1, <1>2

LEMMA RoundedDownIs ==
  ASSUME NEW a \in Nat, NEW n \in Nat \ {0}, NEW k \in Int,
         n * k <= a, a < n * k + n
  PROVE  a \div n = k /\ a - (a % n) = n * k
<1> DEFINE d == a \div n
<1>1. d \in Nat /\ a - (a % n) = n * d /\ n * d <= a /\ a < n * d + n
  BY RoundedDown
<1> HIDE DEF d
<1>2. n * k \in Int /\ n * d \in Int
  BY <1>1
<1>3. ~(k < d) /\ ~(d < k)
  BY <1>1, <1>2, MultiplesApart
<1>4. k = d
  BY <1>1, <1>3
<1> QED BY <1>1, <1>4 DEF d

-----------------------------------------------------------------------------
(* Networks *)

\* The number of addresses in a network.
Size(depth) == 2 ^ (MAX_DEPTH - depth)

LEMMA SizeOfDepth ==
  ASSUME NEW depth \in 0..MAX_DEPTH
  PROVE  /\ Size(depth) \in Nat \ {0} /\ 2 ^ depth \in Nat \ {0}
         /\ 2 ^ MAX_DEPTH = Size(depth) * 2 ^ depth
<1>1. MAX_DEPTH - depth \in 0..MAX_DEPTH /\ MAX_DEPTH - depth \in Nat /\ depth \in Nat
      /\ (MAX_DEPTH - depth) + depth = MAX_DEPTH
  BY DepthsAreNaturals
<1> QED BY <1>1, PowerOfSum, DepthsAreNaturals, PowersAssumption DEF Size

\* A network is divided by a longer one.
LEMMA SizesDivide ==
  ASSUME NEW d \in 0..MAX_DEPTH, NEW e \in 0..MAX_DEPTH, d <= e
  PROVE  /\ 2 ^ (e - d) \in Nat \ {0} /\ Size(d) = Size(e) * 2 ^ (e - d)
         /\ d < e => 2 ^ (e - d) >= 2
<1>1. /\ MAX_DEPTH - e \in Nat /\ e - d \in Nat /\ e - d \in 0..MAX_DEPTH
      /\ (MAX_DEPTH - e) + (e - d) = MAX_DEPTH - d
      /\ MAX_DEPTH - d <= MAX_DEPTH
  BY DepthsAreNaturals
<1>2. Size(d) = Size(e) * 2 ^ (e - d)
  BY <1>1, PowerOfSum DEF Size
<1>3. ASSUME d < e PROVE 2 ^ (e - d) >= 2
  <2> DEFINE k == (e - d) - 1
  <2>1. k \in 0..(MAX_DEPTH - 1) /\ k \in 0..MAX_DEPTH /\ e - d = k + 1
    BY <1>1, <1>3, DepthsAreNaturals
  <2> HIDE DEF k
  <2>2. 2 ^ k \in Nat \ {0} /\ 2 ^ (k + 1) = 2 * 2 ^ k
    BY <2>1, PowersAssumption
  <2> QED BY <2>1, <2>2
<1> QED BY <1>1, <1>2, <1>3, PowersAssumption

\* Masking rounds down to the size of the network.
LEMMA MaskIs ==
  ASSUME NEW ip \in Address, NEW depth \in 0..MAX_DEPTH
  PROVE  \E k \in Nat : /\ ip6_mask_addr(ip, depth) = Size(depth) * k
                        /\ Size(depth) * k <= ip /\ ip < Size(depth) * k + Size(depth)
<1>1. ip \in Nat /\ Size(depth) \in Nat \ {0}
  BY DepthsAreNaturals, SizeOfDepth DEF Address
<1> QED BY <1>1, RoundedDown DEF ip6_mask_addr, Size

LEMMA MaskFrom ==
  ASSUME NEW ip \in Address, NEW depth \in 0..MAX_DEPTH, NEW k \in Int,
         Size(depth) * k <= ip, ip < Size(depth) * k + Size(depth)
  PROVE  ip6_mask_addr(ip, depth) = Size(depth) * k
<1>1. ip \in Nat /\ Size(depth) \in Nat \ {0}
  BY DepthsAreNaturals, SizeOfDepth DEF Address
<1>2. ip - (ip % Size(depth)) = Size(depth) * k
  BY <1>1, RoundedDownIs
<1> QED BY <1>2 DEF ip6_mask_addr, Size

\* A mask forgets what a longer one has cut off.
LEMMA MaskOfMask ==
  ASSUME NEW ip \in Address, NEW d \in 0..MAX_DEPTH, NEW e \in 0..MAX_DEPTH, d <= e
  PROVE  ip6_mask_addr(ip6_mask_addr(ip, e), d) = ip6_mask_addr(ip, d)
<1> DEFINE D == Size(d)
           E == Size(e)
           K == 2 ^ (e - d)
<1>1. D \in Nat \ {0} /\ E \in Nat \ {0} /\ K \in Nat \ {0} /\ D = E * K
  BY SizeOfDepth, SizesDivide
<1>2. PICK x \in Nat : ip6_mask_addr(ip, e) = E * x /\ E * x <= ip /\ ip < E * x + E
  BY MaskIs
<1>3. PICK y \in Nat : ip6_mask_addr(ip, d) = D * y /\ D * y <= ip /\ ip < D * y + D
  BY MaskIs
<1> HIDE DEF D, E, K
<1>4. ip \in Nat
  BY DepthsAreNaturals DEF Address
<1>5. K * y \in Nat /\ D * y = E * (K * y)
  BY <1>1, <1>3
<1>6. E * x \in Nat /\ E * (K * y) \in Nat /\ D * y \in Nat
  BY <1>1, <1>2, <1>3, <1>5
<1>7. ~(x < K * y)
  BY <1>1, <1>2, <1>3, <1>4, <1>5, <1>6, MultiplesApart
<1>8. D * y <= E * x
  <2>1. K * y = x \/ K * y < x
    BY <1>2, <1>5, <1>7
  <2> QED BY <1>1, <1>2, <1>5, <1>6, <2>1, MultiplesApart
<1>9. E * x \in Address /\ E * x < D * y + D
  BY <1>1, <1>2, <1>3, <1>4, <1>6, MaskAddress DEF E
<1>10. ip6_mask_addr(E * x, d) = D * y
  BY <1>3, <1>8, <1>9, MaskFrom DEF D
<1> QED BY <1>2, <1>3, <1>10

\* An address in masked form begins the network, which ends within the space.
LEMMA MaskedSpan ==
  ASSUME NEW base \in Address, NEW depth \in 0..MAX_DEPTH, NEW ip \in Address,
         ip6_mask_addr(base, depth) = base
  PROVE  /\ ip6_mask_addr(ip, depth) = base <=> base <= ip /\ ip < base + Size(depth)
         /\ base + Size(depth) <= 2 ^ MAX_DEPTH
<1> DEFINE D == Size(depth)
           N == 2 ^ depth
<1>1. D \in Nat \ {0} /\ N \in Nat \ {0} /\ 2 ^ MAX_DEPTH = D * N
  BY SizeOfDepth
<1>2. PICK b \in Nat : ip6_mask_addr(base, depth) = D * b /\ D * b <= base
  BY MaskIs
<1>3. PICK x \in Nat : ip6_mask_addr(ip, depth) = D * x /\ D * x <= ip /\ ip < D * x + D
  BY MaskIs
<1>4. ip \in Nat /\ base \in Nat /\ base < 2 ^ MAX_DEPTH
  BY DepthsAreNaturals DEF Address
<1>5. base <= ip /\ ip < base + D => ip6_mask_addr(ip, depth) = base
  BY <1>2, MaskFrom
<1> HIDE DEF D, N
<1>6. b < N
  <2> SUFFICES ASSUME ~(b < N) PROVE FALSE
    OBVIOUS
  <2>1. N = b \/ N < b
    BY <1>1, <1>2
  <2>2. D * N <= D * b
    <3>1. D * N \in Int /\ D * b \in Int
      BY <1>1, <1>2
    <3> QED BY <1>1, <1>2, <2>1, <3>1, MultiplesApart
  <2> QED BY <1>1, <1>2, <1>4, <2>2
<1>7. D * b + D <= D * N
  BY <1>1, <1>2, <1>6, MultiplesApart
<1>8. base + D <= 2 ^ MAX_DEPTH
  BY <1>1, <1>2, <1>7
<1> QED BY <1>3, <1>5, <1>8 DEF D

-----------------------------------------------------------------------------
(* Networks, and the queries of a RIB *)

\* The masked form of a route is a network.
LEMMA MaskedNetwork ==
  ASSUME NEW r, r.ip \in Address, r.depth \in 0..MAX_DEPTH
  PROVE  Masked(r) \in Network
BY MaskAddress DEF Masked, Network

\* The end of a network is an address, 0 for one that ends with the last.
LEMMA EndAddress ==
  ASSUME NEW p \in Network
  PROVE  End(p) \in Address
<1>1. p.ip \in Nat /\ MAX_DEPTH - p.depth \in 0..MAX_DEPTH
  BY DepthsAreNaturals DEF Network, Address
<1>2. 2 ^ (MAX_DEPTH - p.depth) \in Nat
  BY <1>1, PowersAssumption
<1>3. p.ip + 2 ^ (MAX_DEPTH - p.depth) \in Int
  BY <1>1, <1>2
<1>4. (p.ip + 2 ^ (MAX_DEPTH - p.depth)) % 2 ^ MAX_DEPTH \in 0..(2 ^ MAX_DEPTH - 1)
  BY <1>3, DepthsAreNaturals, RemainderRange
<1> QED BY <1>4 DEF End, Address

\* The enumeration starts with one of the routes it enumerates.
LEMMA FirstIsMember ==
  ASSUME NEW networks \in SUBSET Network, networks # {}
  PROVE  First(networks) \in networks
<1> DEFINE starts == {q.ip : q \in networks}
<1>1. starts \in SUBSET Nat /\ starts # {}
  BY DepthsAreNaturals DEF Network, Address
<1>2. PICK m \in starts : \A k \in starts : m <= k
  BY <1>1, LeastNatural
<1>3. \E q \in networks : \A r \in networks : q.ip <= r.ip
  BY <1>2
<1> QED BY <1>3 DEF First

\* The routes an update steps over are routes.
LEMMA NearestAreRoutes ==
  ASSUME NEW R, NEW p, DOMAIN R \subseteq Network
  PROVE  Nearest(R, p) \in SUBSET Network
BY DEF Nearest, Longer

\* What takes over for a deleted route is the next hop of some route, or the
\* default one.
LEMMA ParentHopIsSome ==
  ASSUME NEW R, NEW p \in Network, DOMAIN R \subseteq Network
  PROVE  ParentHop(R, p) = DEF_NH \/ \E q \in DOMAIN R : ParentHop(R, p) = R[q]
<1> DEFINE shorter == {q \in DOMAIN R : Inside(p, q)}
           depths == {q.depth : q \in shorter}
<1>1. CASE shorter = {}
  BY <1>1 DEF ParentHop
<1>2. CASE shorter # {}
  <2>1. depths \in SUBSET (0..MAX_DEPTH) /\ depths # {}
    BY <1>2 DEF Network
  <2>2. PICK m \in depths : \A k \in depths : k <= m
    <3> HIDE DEF depths
    <3> QED BY <2>1, DepthsAreNaturals, GreatestNatural
  <2>3. \E q \in shorter : \A r \in shorter : r.depth <= q.depth
    BY <2>2
  <2>4. (CHOOSE q \in shorter : \A r \in shorter : r.depth <= q.depth) \in shorter
    BY <2>3
  <2> QED BY <1>2, <2>4 DEF ParentHop
<1> QED BY <1>1, <1>2

-----------------------------------------------------------------------------
(* The dictionary *)

IsDictionary(R) == R = [p \in DOMAIN R |-> R[p]]

LEMMA DictionaryKept ==
  ASSUME NEW R, NEW key, NEW hop, NEW keys
  PROVE  IsDictionary(WithRule(R, key, hop)) /\ IsDictionary(WithoutRules(R, keys))
BY DEF IsDictionary, WithRule, WithoutRules

\* Inserting a new route and taking it out again, and the other way round.
LEMMA TakenOutAgain ==
  ASSUME NEW R, IsDictionary(R), NEW key, NEW hop, key \notin DOMAIN R
  PROVE  WithoutRules(WithRule(R, key, hop), {key}) = R
BY DEF IsDictionary, WithRule, WithoutRules

LEMMA PutBack ==
  ASSUME NEW R, IsDictionary(R), NEW key \in DOMAIN R
  PROVE  /\ WithRule(WithoutRules(R, {key}), key, R[key]) = R
         /\ WithRule(R, key, R[key]) = R
BY DEF IsDictionary, WithRule, WithoutRules

-----------------------------------------------------------------------------
(* How networks lie to each other *)

\* The address of a network is its masked form.
IsMasked(p) == p \in Network /\ ip6_mask_addr(p.ip, p.depth) = p.ip

Past(p) == p.ip + Size(p.depth)

LEMMA MaskedRoute ==
  ASSUME NEW r, r.ip \in Address, r.depth \in 0..MAX_DEPTH
  PROVE  IsMasked(Masked(r)) /\ Masked(r).depth = r.depth
BY MaskedNetwork, MaskOfMask DEF Masked, IsMasked

\* A network is an interval that ends within the address space.
LEMMA HoldsInterval ==
  ASSUME NEW p, IsMasked(p), NEW ip \in Address
  PROVE  /\ Holds(p, ip) <=> p.ip <= ip /\ ip < Past(p)
         /\ p.ip \in Nat /\ Size(p.depth) \in Nat \ {0}
         /\ p.ip < Past(p) /\ Past(p) <= 2 ^ MAX_DEPTH
         /\ Past(p) - 1 \in Address /\ Holds(p, Past(p) - 1) /\ Holds(p, p.ip)
<1>1. p.ip \in Address /\ p.depth \in 0..MAX_DEPTH /\ p.ip \in Nat
  BY DepthsAreNaturals DEF IsMasked, Network, Address
<1>2. Size(p.depth) \in Nat \ {0}
  BY <1>1, SizeOfDepth
<1>3. ip6_mask_addr(p.ip, p.depth) = p.ip
  BY DEF IsMasked
<1>4. /\ Holds(p, ip) <=> p.ip <= ip /\ ip < Past(p)
      /\ Past(p) <= 2 ^ MAX_DEPTH
  BY <1>1, <1>3, MaskedSpan DEF Holds, Past
<1>5. Past(p) - 1 \in Address /\ p.ip < Past(p)
  BY <1>1, <1>2, <1>4, DepthsAreNaturals DEF Past, Address
<1>6. Holds(p, Past(p) - 1)
  <2>1. p.ip <= Past(p) - 1 /\ Past(p) - 1 < p.ip + Size(p.depth)
    BY <1>1, <1>2, <1>5 DEF Past
  <2> QED BY <1>1, <1>3, <1>5, <2>1, MaskedSpan DEF Holds
<1> QED BY <1>1, <1>2, <1>3, <1>4, <1>5, <1>6 DEF Holds

\* Two networks that share an address are nested.
LEMMA SharingNested ==
  ASSUME NEW p, NEW q, IsMasked(p), IsMasked(q), NEW ip \in Address,
         Holds(p, ip), Holds(q, ip)
  PROVE  /\ p.depth < q.depth => Inside(q, p)
         /\ p.depth = q.depth => p = q
<1>1. /\ p.ip \in Address /\ p.depth \in 0..MAX_DEPTH
      /\ q.ip \in Address /\ q.depth \in 0..MAX_DEPTH
      /\ p = [ip |-> p.ip, depth |-> p.depth]
      /\ q = [ip |-> q.ip, depth |-> q.depth]
  BY DEF IsMasked, Network
<1>2. p.ip = ip6_mask_addr(ip, p.depth) /\ q.ip = ip6_mask_addr(ip, q.depth)
  BY DEF Holds
<1>3. p.depth = q.depth => p = q
  BY <1>1, <1>2
<1>4. ASSUME p.depth < q.depth PROVE Inside(q, p)
  <2>1. ip6_mask_addr(q.ip, p.depth) = p.ip
    BY <1>1, <1>2, <1>4, MaskOfMask, DepthsAreNaturals
  <2> QED BY <1>1, <1>4, <2>1, DepthsAreNaturals DEF Inside
<1> QED BY <1>3, <1>4

\* What is in the inner network is in the outer one.
LEMMA InsideHolds ==
  ASSUME NEW p, NEW q, IsMasked(p), IsMasked(q), Inside(q, p), NEW ip \in Address,
         Holds(q, ip)
  PROVE  Holds(p, ip)
<1>1. /\ p.depth \in 0..MAX_DEPTH /\ q.depth \in 0..MAX_DEPTH /\ p.depth <= q.depth
  BY DepthsAreNaturals DEF IsMasked, Network, Inside
<1>2. q.ip = ip6_mask_addr(ip, q.depth) /\ ip6_mask_addr(q.ip, p.depth) = p.ip
  BY DEF Holds, Inside
<1> QED BY <1>1, <1>2, MaskOfMask DEF Holds

LEMMA InsideWithin ==
  ASSUME NEW p, NEW q, IsMasked(p), IsMasked(q), Inside(q, p)
  PROVE  p.ip <= q.ip /\ Past(q) <= Past(p)
<1>1. /\ q.ip \in Address /\ Holds(q, q.ip) /\ Past(q) - 1 \in Address
      /\ Holds(q, Past(q) - 1) /\ q.ip \in Nat /\ Size(q.depth) \in Nat
  BY HoldsInterval DEF IsMasked, Network
<1>2. Holds(p, q.ip) /\ Holds(p, Past(q) - 1)
  BY <1>1, InsideHolds
<1>3. p.ip <= q.ip /\ Past(q) - 1 < Past(p) /\ p.ip \in Nat /\ Size(p.depth) \in Nat
  BY <1>1, <1>2, HoldsInterval
<1> QED BY <1>1, <1>3 DEF Past

LEMMA InsideTransitive ==
  ASSUME NEW p, NEW q, NEW r, IsMasked(p), IsMasked(q), IsMasked(r),
         Inside(r, q), Inside(q, p)
  PROVE  Inside(r, p)
<1>1. /\ r.ip \in Address /\ Holds(r, r.ip)
      /\ p.depth \in Int /\ q.depth \in Int /\ r.depth \in Int
  BY HoldsInterval, DepthsAreNaturals DEF IsMasked, Network
<1>2. Holds(p, r.ip)
  BY <1>1, InsideHolds
<1>3. p.depth < r.depth
  BY <1>1 DEF Inside
<1> QED BY <1>1, <1>2, <1>3, SharingNested

\* Of two networks that are not nested the one that starts first ends first.
LEMMA ApartInOrder ==
  ASSUME NEW p, NEW q, IsMasked(p), IsMasked(q), p # q, ~Inside(p, q), ~Inside(q, p),
         p.ip <= q.ip
  PROVE  Past(p) <= q.ip
<1>1. /\ q.ip \in Address /\ Holds(q, q.ip) /\ q.ip \in Nat /\ Past(p) \in Nat
      /\ p.depth \in Int /\ q.depth \in Int
  BY HoldsInterval, DepthsAreNaturals DEF IsMasked, Network, Past
<1>2. ~Holds(p, q.ip)
  BY <1>1, SharingNested
<1> QED BY <1>1, <1>2, HoldsInterval

-----------------------------------------------------------------------------
(* What lookups in the RIB answer *)

RoutesOK(R) == \A p \in DOMAIN R : IsMasked(p)

\* The longest of the routes in a set.
LEMMA LongestOf ==
  ASSUME NEW S, \A p \in S : IsMasked(p), S # {}
  PROVE  \E p \in S : \A q \in S : q.depth <= p.depth
<1> DEFINE depths == {q.depth : q \in S}
<1>1. depths \in SUBSET (0..MAX_DEPTH) /\ depths # {}
  BY DEF IsMasked, Network
<1>2. PICK m \in depths : \A k \in depths : k <= m
  <2> HIDE DEF depths
  <2> QED BY <1>1, DepthsAreNaturals, GreatestNatural
<1> QED BY <1>2

\* The routes that match an address are nested, so that the longest is one.
LEMMA LongestMatchIs ==
  ASSUME NEW R, RoutesOK(R), NEW ip \in Address, NEW p \in Matching(R, ip),
         \A q \in Matching(R, ip) : q.depth <= p.depth
  PROVE  RibHop(R, ip) = R[p]
<1> DEFINE Best(r) == \A q \in Matching(R, ip) : q.depth <= r.depth
           best == CHOOSE r \in Matching(R, ip) : Best(r)
<1>1. best \in Matching(R, ip) /\ Best(best)
  OBVIOUS
<1>2. /\ IsMasked(best) /\ IsMasked(p) /\ Holds(best, ip) /\ Holds(p, ip)
      /\ best.depth \in Int /\ p.depth \in Int
  BY <1>1, DepthsAreNaturals DEF RoutesOK, Matching, Holds, IsMasked, Network
<1>3. best.depth = p.depth
  BY <1>1, <1>2
<1>4. best = p
  BY <1>2, <1>3, SharingNested
<1> QED BY <1>4 DEF RibHop, LongestMatch

LEMMA RibHopFrom ==
  ASSUME NEW R, NEW S, RoutesOK(R), RoutesOK(S), NEW ip \in Address,
         Matching(R, ip) = Matching(S, ip), \A p \in Matching(R, ip) : R[p] = S[p]
  PROVE  RibHop(R, ip) = RibHop(S, ip)
<1>1. CASE Matching(R, ip) = {}
  BY <1>1 DEF RibHop
<1>2. CASE Matching(R, ip) # {}
  <2>1. \A p \in Matching(R, ip) : IsMasked(p)
    BY DEF RoutesOK, Matching
  <2>2. PICK p \in Matching(R, ip) : \A q \in Matching(R, ip) : q.depth <= p.depth
    BY <1>2, <2>1, LongestOf
  <2>3. RibHop(R, ip) = R[p] /\ RibHop(S, ip) = S[p]
    BY <2>2, LongestMatchIs
  <2> QED BY <2>3
<1> QED BY <1>1, <1>2

\* The addresses whose answer an update of a route changes: those in its
\* network and in none of the longer routes.
Exposed(R, key, ip) == Holds(key, ip) /\ \A q \in Longer(R, key) : ~Holds(q, ip)

LEMMA ExposedHop ==
  ASSUME NEW R, RoutesOK(R), NEW key, IsMasked(key), NEW ip \in Address,
         Exposed(R, key, ip)
  PROVE  /\ key \in DOMAIN R => RibHop(R, ip) = R[key]
         /\ key \notin DOMAIN R => RibHop(R, ip) = ParentHop(R, key)
<1> DEFINE shorter == {q \in DOMAIN R : Inside(key, q)}
<1>1. /\ key.depth \in Int
      /\ \A q \in DOMAIN R : IsMasked(q) /\ q.depth \in Int
  BY DepthsAreNaturals DEF RoutesOK, IsMasked, Network
<1>2. ASSUME NEW q \in Matching(R, ip) PROVE q = key \/ q \in shorter
  <2>1. q \in DOMAIN R /\ Holds(q, ip) /\ Holds(key, ip)
    BY DEF Matching, Holds, Exposed
  <2>2. ~(key.depth < q.depth)
    BY <1>1, <2>1, SharingNested DEF Exposed, Longer
  <2> QED BY <1>1, <2>1, <2>2, SharingNested
<1>3. ASSUME NEW q \in shorter PROVE q \in Matching(R, ip) /\ q.depth < key.depth
  <2>1. Holds(q, ip) /\ q.depth < key.depth
    BY <1>1, InsideHolds DEF Exposed, Inside
  <2> QED BY <2>1 DEF Matching, Holds
<1>4. ASSUME key \in DOMAIN R PROVE RibHop(R, ip) = R[key]
  <2>1. key \in Matching(R, ip)
    BY <1>4 DEF Exposed, Holds, Matching
  <2>2. \A q \in Matching(R, ip) : q.depth <= key.depth
    BY <1>1, <1>2, <1>3
  <2> QED BY <2>1, <2>2, LongestMatchIs
<1>5. ASSUME key \notin DOMAIN R PROVE RibHop(R, ip) = ParentHop(R, key)
  <2>1. Matching(R, ip) = shorter
    BY <1>2, <1>3, <1>5 DEF Matching
  <2>2. CASE shorter = {}
    BY <2>1, <2>2 DEF RibHop, ParentHop
  <2>3. CASE shorter # {}
    <3> DEFINE Best(q) == \A r \in shorter : r.depth <= q.depth
               best == CHOOSE q \in shorter : Best(q)
    <3>1. \E q \in shorter : Best(q)
      BY <1>1, <2>3, LongestOf
    <3>2. best \in shorter /\ Best(best)
      BY <3>1
    <3>3. RibHop(R, ip) = R[best]
      BY <2>1, <3>2, LongestMatchIs
    <3>4. ParentHop(R, key) = R[best]
      BY <2>3 DEF ParentHop
    <3> QED BY <3>3, <3>4
  <2> QED BY <2>2, <2>3
<1> QED BY <1>4, <1>5

\* The other addresses keep theirs.
LEMMA CoveredHop ==
  ASSUME NEW R, NEW S, RoutesOK(R), RoutesOK(S), NEW key, IsMasked(key),
         NEW ip \in Address, ~Exposed(R, key, ip),
         DOMAIN R \ {key} = DOMAIN S \ {key}, \A p \in DOMAIN R \ {key} : R[p] = S[p]
  PROVE  RibHop(R, ip) = RibHop(S, ip)
<1>1. CASE ~Holds(key, ip)
  <2>1. key \notin Matching(R, ip) /\ key \notin Matching(S, ip)
    BY <1>1 DEF Matching, Holds
  <2>2. Matching(R, ip) = Matching(S, ip) /\ Matching(R, ip) \subseteq DOMAIN R \ {key}
    BY <2>1 DEF Matching
  <2> QED BY <2>2, RibHopFrom
<1>2. CASE Holds(key, ip)
  <2>1. PICK q \in Longer(R, key) : Holds(q, ip)
    BY <1>2 DEF Exposed
  <2>2. /\ \A p \in DOMAIN R \cup DOMAIN S : IsMasked(p) /\ p.depth \in Int
        /\ key.depth \in Int /\ key.depth < q.depth /\ q # key
    BY <2>1, DepthsAreNaturals DEF RoutesOK, IsMasked, Network, Longer, Inside
  <2>3. q \in Matching(R, ip) /\ q \in Matching(S, ip)
    BY <2>1, <2>2 DEF Longer, Matching, Holds
  <2>4. PICK p \in Matching(R, ip) : \A r \in Matching(R, ip) : r.depth <= p.depth
    <3>1. \A p \in Matching(R, ip) : IsMasked(p)
      BY DEF RoutesOK, Matching
    <3> QED BY <2>3, <3>1, LongestOf
  <2>5. p \in DOMAIN R /\ key.depth <= p.depth /\ p # key
    <3>1. q \in DOMAIN R /\ p \in DOMAIN R /\ q.depth <= p.depth
      BY <2>3, <2>4 DEF Matching
    <3>2. q.depth \in Int /\ p.depth \in Int
      BY <2>2, <3>1
    <3> QED BY <2>2, <3>1, <3>2
  <2>6. p \in Matching(S, ip)
    BY <2>4, <2>5 DEF Matching
  <2>7. \A r \in Matching(S, ip) : r.depth <= p.depth
    <3>1. ASSUME NEW r \in Matching(S, ip) PROVE r.depth <= p.depth
      <4>1. CASE r = key
        BY <2>5, <4>1
      <4>2. CASE r # key
        BY <2>4, <4>2 DEF Matching
      <4> QED BY <4>1, <4>2
    <3> QED BY <3>1
  <2> QED BY <2>4, <2>5, <2>6, <2>7, LongestMatchIs
<1> QED BY <1>1, <1>2

\* An update of a route changes neither its longer routes nor its parent.
LEMMA AroundKept ==
  ASSUME NEW R, RoutesOK(R), NEW S, NEW key,
         DOMAIN R \ {key} = DOMAIN S \ {key}, \A p \in DOMAIN R \ {key} : R[p] = S[p],
         key.depth \in Int
  PROVE  /\ Longer(R, key) = Longer(S, key) /\ Nearest(R, key) = Nearest(S, key)
         /\ ParentHop(R, key) = ParentHop(S, key)
         /\ \A ip : Exposed(R, key, ip) <=> Exposed(S, key, ip)
<1>1. ~Inside(key, key)
  BY DEF Inside
<1>2. Longer(R, key) = Longer(S, key)
  BY <1>1 DEF Longer
<1>3. {q \in DOMAIN R : Inside(key, q)} = {q \in DOMAIN S : Inside(key, q)}
  BY <1>1
<1>4. ParentHop(R, key) = ParentHop(S, key)
  <2> DEFINE shorter == {q \in DOMAIN R : Inside(key, q)}
             Best(q) == \A r \in shorter : r.depth <= q.depth
             best == CHOOSE q \in shorter : Best(q)
  <2>1. ASSUME shorter # {} PROVE R[best] = S[best]
    <3>1. \E q \in shorter : Best(q)
      BY <2>1, LongestOf DEF RoutesOK
    <3>2. best \in shorter
      BY <3>1
    <3> QED BY <1>1, <3>2
  <2>2. ParentHop(R, key) = IF shorter = {} THEN DEF_NH ELSE R[best]
    BY DEF ParentHop
  <2> DEFINE BestOf(T) == CHOOSE q \in T : \A r \in T : r.depth <= q.depth
             others == {q \in DOMAIN S : Inside(key, q)}
  <2>3. /\ ParentHop(S, key) = IF others = {} THEN DEF_NH ELSE S[BestOf(others)]
        /\ best = BestOf(shorter) /\ others = shorter
    BY <1>3 DEF ParentHop
  <2> HIDE DEF shorter, best, BestOf, others
  <2> QED BY <2>1, <2>2, <2>3
<1> QED BY <1>2, <1>4 DEF Nearest, Exposed

-----------------------------------------------------------------------------
(* The gaps between the nearest longer routes *)

LEMMA NearestApart ==
  ASSUME NEW R, RoutesOK(R), NEW key, IsMasked(key), NEW q \in Nearest(R, key)
  PROVE  /\ IsMasked(q) /\ Inside(q, key) /\ key.ip <= q.ip /\ Past(q) <= Past(key)
         /\ \A r \in Nearest(R, key) : ~Inside(q, r)
<1>1. q \in Longer(R, key) /\ \A r \in Longer(R, key) : ~Inside(q, r)
  BY DEF Nearest
<1>2. IsMasked(q) /\ Inside(q, key)
  BY <1>1 DEF Longer, RoutesOK
<1> QED BY <1>1, <1>2, InsideWithin DEF Nearest

\* Every longer route is one of the nearest or within one.
LEMMA NearestCover ==
  ASSUME NEW R, RoutesOK(R), NEW key, IsMasked(key), NEW q \in Longer(R, key)
  PROVE  \E r \in Nearest(R, key) : r = q \/ Inside(q, r)
<1> DEFINE around == {r \in Longer(R, key) : r = q \/ Inside(q, r)}
           depths == {r.depth : r \in around}
<1>1. \A r \in Longer(R, key) : IsMasked(r) /\ r.depth \in Nat
  BY DepthsAreNaturals DEF Longer, RoutesOK, IsMasked, Network
<1>2. depths \in SUBSET Nat /\ depths # {}
  BY <1>1
<1>3. PICK m \in depths : \A k \in depths : m <= k
  <2> HIDE DEF depths
  <2> QED BY <1>2, LeastNatural
<1>4. PICK r \in around : \A s \in around : r.depth <= s.depth
  BY <1>3
<1>5. ASSUME NEW s \in Longer(R, key), Inside(r, s) PROVE FALSE
  <2>1. s.depth < r.depth
    BY <1>5 DEF Inside
  <2>2. s \in around
    <3>1. r = q \/ Inside(q, r)
      OBVIOUS
    <3> QED BY <1>1, <1>5, <3>1, InsideTransitive
  <2> QED BY <1>1, <1>4, <2>1, <2>2
<1> QED BY <1>5 DEF Nearest

LEMMA ExposedByNearest ==
  ASSUME NEW R, RoutesOK(R), NEW key, IsMasked(key), NEW ip \in Address
  PROVE  Exposed(R, key, ip) <=>
           Holds(key, ip) /\ \A q \in Nearest(R, key) : ~Holds(q, ip)
<1>1. ASSUME NEW q \in Longer(R, key), Holds(q, ip)
      PROVE  \E r \in Nearest(R, key) : Holds(r, ip)
  <2>1. PICK r \in Nearest(R, key) : r = q \/ Inside(q, r)
    BY NearestCover
  <2>2. IsMasked(q) /\ IsMasked(r)
    BY <2>1 DEF Nearest, Longer, RoutesOK
  <2> QED BY <1>1, <2>1, <2>2, InsideHolds
<1> QED BY <1>1 DEF Exposed, Nearest

LEMMA FirstIsLowest ==
  ASSUME NEW networks \in SUBSET Network, networks # {}
  PROVE  First(networks) \in networks /\ \A r \in networks : First(networks).ip <= r.ip
<1> DEFINE starts == {q.ip : q \in networks}
<1>1. starts \in SUBSET Nat /\ starts # {}
  BY DepthsAreNaturals DEF Network, Address
<1>2. PICK m \in starts : \A k \in starts : m <= k
  <2> HIDE DEF starts
  <2> QED BY <1>1, LeastNatural
<1>3. \E q \in networks : \A r \in networks : q.ip <= r.ip
  BY <1>2
<1> QED BY <1>3 DEF First

\* The addresses between what lies behind and what lies ahead are exposed.
LEMMA GapExposed ==
  ASSUME NEW R, RoutesOK(R), NEW key, IsMasked(key), NEW ip \in Address,
         key.ip <= ip, ip < Past(key),
         \A q \in Nearest(R, key) : Past(q) <= ip \/ ip < q.ip
  PROVE  Exposed(R, key, ip)
<1>1. ASSUME NEW q \in Nearest(R, key) PROVE ~Holds(q, ip)
  <2>1. IsMasked(q) /\ q.ip \in Nat /\ Past(q) \in Nat /\ ip \in Nat
    BY NearestApart, HoldsInterval, DepthsAreNaturals DEF Past, Address
  <2> QED BY <2>1, HoldsInterval
<1>2. Holds(key, ip)
  BY HoldsInterval
<1> QED BY <1>1, <1>2, ExposedByNearest

LEMMA NetworkEndIs ==
  ASSUME NEW p, IsMasked(p)
  PROVE  End(p) = IF Past(p) = 2 ^ MAX_DEPTH THEN 0 ELSE Past(p)
<1> DEFINE n == 2 ^ MAX_DEPTH
           a == Past(p)
<1>1. /\ p.ip \in Nat /\ Size(p.depth) \in Nat /\ p.ip < a /\ a <= n
      /\ n \in Nat \ {0} /\ a \in Nat
  <2>1. p.ip \in Address
    BY DEF IsMasked, Network
  <2> QED BY <2>1, HoldsInterval, DepthsAreNaturals DEF Past
<1>2. End(p) = a % n
  BY DEF End, Past, Size
<1> HIDE DEF n, a
<1>3. a % n = IF a = n THEN 0 ELSE a
  BY <1>1
<1> QED BY <1>2, <1>3 DEF n, a

\* A network that is not the whole address space and ends with it starts in
\* its upper half.
LEMMA LastNetwork ==
  ASSUME NEW p, IsMasked(p), p.depth # 0, Past(p) = 2 ^ MAX_DEPTH
  PROVE  2 * p.ip >= 2 ^ MAX_DEPTH
<1> DEFINE S == Size(p.depth)
           N == 2 ^ p.depth
<1>1. p.ip \in Address /\ p.depth \in 0..MAX_DEPTH /\ p.ip \in Nat
  BY DepthsAreNaturals DEF IsMasked, Network, Address
<1>2. S \in Nat \ {0} /\ N \in Nat \ {0} /\ 2 ^ MAX_DEPTH = S * N
  BY <1>1, SizeOfDepth
<1>3. N >= 2
  <2>1. 0 \in 0..MAX_DEPTH /\ 0 < p.depth /\ p.depth - 0 = p.depth
    BY <1>1, DepthsAreNaturals
  <2>2. 2 ^ (p.depth - 0) >= 2
    BY <1>1, <2>1, SizesDivide
  <2> QED BY <2>1, <2>2
<1>4. PICK k \in Nat : p.ip = S * k
  BY <1>1, MaskIs DEF IsMasked
<1>5. S * k + S = S * N
  BY <1>2, <1>4 DEF Past
<1> HIDE DEF S, N
<1>6. k >= 1
  <2>1. CASE k = 0
    <3>1. S = S * N
      BY <1>2, <1>5, <2>1
    <3>2. S * 1 + S <= S * N
      <4>1. N = 2 \/ 1 + 1 < N
        BY <1>2, <1>3
      <4>2. S * 2 = S * 1 + S
        BY <1>2
      <4>3. S * 2 \in Int /\ S * N \in Int
        BY <1>2
      <4> QED BY <1>2, <1>3, <4>2, <4>3, MultiplesApart
    <3> QED BY <1>2, <3>1, <3>2
  <2> QED BY <2>1
<1>7. S <= S * k
  <2>1. S * k = S + S * (k - 1) /\ S * (k - 1) \in Nat
    BY <1>2, <1>6
  <2> QED BY <1>2, <2>1
<1>8. S * k \in Nat
  BY <1>2
<1> QED BY <1>2, <1>4, <1>5, <1>7, <1>8

-----------------------------------------------------------------------------
(* Networks without longer routes *)

\* The addresses of a network that no route divides are answered alike, and
\* exposed alike.
LEMMA Undivided ==
  ASSUME NEW R, RoutesOK(R), NEW p, IsMasked(p), Longer(R, p) = {},
         NEW a \in Address, NEW b \in Address, Holds(p, a), Holds(p, b)
  PROVE  /\ \A q \in DOMAIN R : Holds(q, a) <=> Holds(q, b)
         /\ RibHop(R, a) = RibHop(R, b)
         /\ \A key \in DOMAIN R : Exposed(R, key, a) <=> Exposed(R, key, b)
<1>1. ASSUME NEW q \in DOMAIN R, NEW x \in Address, NEW y \in Address,
             Holds(p, x), Holds(p, y), Holds(q, x)
      PROVE  Holds(q, y)
  <2>1. IsMasked(q) /\ p.depth \in Int /\ q.depth \in Int /\ ~Inside(q, p)
    BY DepthsAreNaturals DEF RoutesOK, IsMasked, Network, Longer
  <2>2. q = p \/ Inside(p, q)
    BY <1>1, <2>1, SharingNested
  <2> QED BY <1>1, <2>1, <2>2, InsideHolds
<1>2. \A q \in DOMAIN R : Holds(q, a) <=> Holds(q, b)
  BY <1>1
<1>3. RibHop(R, a) = RibHop(R, b)
  <2> DEFINE HopOf(S) == IF S = {} THEN DEF_NH
                         ELSE IF S = {} THEN MISS
                         ELSE R[CHOOSE q \in S : \A r \in S : r.depth <= q.depth]
  <2>1. RibHop(R, a) = HopOf(Matching(R, a)) /\ RibHop(R, b) = HopOf(Matching(R, b))
    BY DEF RibHop, LongestMatch
  <2>2. Matching(R, a) = Matching(R, b)
    BY <1>2 DEF Matching, Holds
  <2> HIDE DEF HopOf
  <2> QED BY <2>1, <2>2
<1>4. \A key \in DOMAIN R : Exposed(R, key, a) <=> Exposed(R, key, b)
  BY <1>2 DEF Exposed, Longer
<1> QED BY <1>2, <1>3, <1>4

\* A route that starts or ends within a network is longer than it.
LEMMA EdgeWithin ==
  ASSUME NEW R, RoutesOK(R), NEW p, IsMasked(p), NEW q \in DOMAIN R,
         \/ p.ip < q.ip /\ q.ip < Past(p)
         \/ p.ip < Past(q) /\ Past(q) < Past(p)
  PROVE  q \in Longer(R, p)
<1>1. IsMasked(q) /\ p.depth \in Int /\ q.depth \in Int
  BY DepthsAreNaturals DEF RoutesOK, IsMasked, Network
<1>2. /\ q.ip \in Address /\ Holds(q, q.ip) /\ q.ip \in Nat /\ q.ip < Past(q)
      /\ Past(q) - 1 \in Address /\ Holds(q, Past(q) - 1) /\ Past(q) \in Nat
      /\ p.ip \in Nat /\ Past(p) \in Nat
  BY <1>1, HoldsInterval DEF IsMasked, Network, Past
<1>3. PICK x \in Address : Holds(p, x) /\ Holds(q, x)
  <2>1. CASE p.ip < q.ip /\ q.ip < Past(p)
    <3>1. Holds(p, q.ip)
      BY <1>2, <2>1, HoldsInterval
    <3> QED BY <1>2, <3>1
  <2>2. CASE p.ip < Past(q) /\ Past(q) < Past(p)
    <3>1. p.ip <= Past(q) - 1 /\ Past(q) - 1 < Past(p)
      BY <1>2, <2>2
    <3>2. Holds(p, Past(q) - 1)
      BY <1>2, <3>1, HoldsInterval
    <3> QED BY <1>2, <3>2
  <2> QED BY <2>1, <2>2
<1>4. q # p /\ ~Inside(p, q)
  <2>1. ~(q.ip <= p.ip /\ Past(p) <= Past(q))
    BY <1>2
  <2>2. q.ip <= q.ip /\ Past(q) <= Past(q)
    BY <1>2
  <2> QED BY <1>1, <2>1, <2>2, InsideWithin
<1>5. Inside(q, p)
  BY <1>1, <1>3, <1>4, SharingNested
<1> QED BY <1>5 DEF Longer

-----------------------------------------------------------------------------
(* The nodes of the RIB *)

\* n is the number of leading bits that p and q share, up to the shorter one.
Shared(p, q, n) ==
  /\ n <= p.depth /\ n <= q.depth
  /\ ip6_mask_addr(p.ip, n) = ip6_mask_addr(q.ip, n)
  /\ \/ n = p.depth
     \/ n = q.depth
     \/ ip6_mask_addr(p.ip, n + 1) # ip6_mask_addr(q.ip, n + 1)

\* There is one such number.
LEMMA SharedExists ==
  ASSUME NEW p \in Network, NEW q \in Network
  PROVE  \E n \in 0..MAX_DEPTH : Shared(p, q, n)
<1> DEFINE S == {n \in 0..MAX_DEPTH : /\ n <= p.depth /\ n <= q.depth
                                      /\ ip6_mask_addr(p.ip, n) = ip6_mask_addr(q.ip, n)}
<1>1. 0 \in S
  <2>1. ASSUME NEW ip \in Address PROVE ip6_mask_addr(ip, 0) = 0
    <3>1. /\ ip \in Nat /\ ip < 2 ^ MAX_DEPTH /\ 0 \in 0..MAX_DEPTH
          /\ Size(0) = 2 ^ MAX_DEPTH /\ Size(0) \in Nat /\ Size(0) * 0 = 0
      BY DepthsAreNaturals DEF Address, Size
    <3> QED BY <3>1, MaskFrom
  <2> QED BY <2>1, DepthsAreNaturals DEF Network
<1>2. PICK n \in S : \A k \in S : k <= n
  <2>1. S \in SUBSET (0..MAX_DEPTH) /\ S # {}
    BY <1>1
  <2> HIDE DEF S
  <2> QED BY <2>1, GreatestNatural, DepthsAreNaturals
<1>3. /\ n \in 0..MAX_DEPTH /\ p.depth \in 0..MAX_DEPTH /\ q.depth \in 0..MAX_DEPTH
      /\ MAX_DEPTH \in Nat
  BY DepthsAreNaturals DEF Network
<1>4. n + 1 \notin S
  BY <1>2, <1>3
<1> QED BY <1>2, <1>3, <1>4 DEF Shared

LEMMA SharedOnce ==
  ASSUME NEW p \in Network, NEW q \in Network,
         NEW m \in 0..MAX_DEPTH, NEW n \in 0..MAX_DEPTH, Shared(p, q, m), Shared(p, q, n)
  PROVE  m = n
<1>1. ASSUME NEW i \in 0..MAX_DEPTH, NEW j \in 0..MAX_DEPTH,
             Shared(p, q, i), Shared(p, q, j), i < j
      PROVE  FALSE
  <2>1. /\ i + 1 \in 0..MAX_DEPTH /\ i + 1 <= j /\ i # p.depth /\ i # q.depth
        /\ p.ip \in Address /\ q.ip \in Address
    BY <1>1, DepthsAreNaturals DEF Shared, Network
  <2>2. ip6_mask_addr(p.ip, i + 1) = ip6_mask_addr(ip6_mask_addr(p.ip, j), i + 1)
    BY <2>1, MaskOfMask
  <2>3. ip6_mask_addr(q.ip, i + 1) = ip6_mask_addr(ip6_mask_addr(q.ip, j), i + 1)
    BY <2>1, MaskOfMask
  <2> QED BY <1>1, <2>1, <2>2, <2>3 DEF Shared
<1>2. ~(m < n) /\ ~(n < m)
  BY <1>1
<1> QED BY <1>2, DepthsAreNaturals

LEMMA CommonIs ==
  ASSUME NEW p \in Network, NEW q \in Network, NEW n \in 0..MAX_DEPTH, Shared(p, q, n)
  PROVE  Common(p, q) = [ip |-> ip6_mask_addr(p.ip, n), depth |-> n]
<1> DEFINE d == CHOOSE m \in 0..MAX_DEPTH : Shared(p, q, m)
<1>1. d \in 0..MAX_DEPTH /\ Shared(p, q, d)
  OBVIOUS
<1>2. d = n
  BY <1>1, SharedOnce
<1>3. Common(p, q) = [ip |-> ip6_mask_addr(p.ip, d), depth |-> d]
  BY DEF Common, Shared
<1> QED BY <1>2, <1>3

\* Of three networks, two that part before the third does meet it there.
LEMMA CommonOfThree ==
  ASSUME NEW p \in Network, NEW q \in Network, NEW r \in Network,
         Common(p, q).depth <= Common(p, r).depth
  PROVE  Common(p, q) = Common(p, r) \/ Common(p, q) = Common(q, r)
<1>1. PICK m \in 0..MAX_DEPTH : Shared(p, q, m)
  BY SharedExists
<1>2. PICK n \in 0..MAX_DEPTH : Shared(p, r, n)
  BY SharedExists
<1>3. /\ Common(p, q) = [ip |-> ip6_mask_addr(p.ip, m), depth |-> m]
      /\ Common(p, r) = [ip |-> ip6_mask_addr(p.ip, n), depth |-> n]
      /\ m <= n
  BY <1>1, <1>2, CommonIs
<1>4. CASE m < n
  <2>1. /\ m + 1 \in 0..MAX_DEPTH /\ m + 1 <= n /\ m \in Int /\ n \in Int
        /\ p.ip \in Address /\ q.ip \in Address /\ r.ip \in Address
        /\ p.depth \in Int /\ q.depth \in Int /\ r.depth \in Int
    BY <1>4, DepthsAreNaturals DEF Network
  <2>2. ASSUME NEW k \in 0..MAX_DEPTH, k <= n
        PROVE  ip6_mask_addr(p.ip, k) = ip6_mask_addr(r.ip, k)
    <3>1. ip6_mask_addr(p.ip, k) = ip6_mask_addr(ip6_mask_addr(p.ip, n), k)
      BY <2>1, <2>2, MaskOfMask
    <3>2. ip6_mask_addr(r.ip, k) = ip6_mask_addr(ip6_mask_addr(r.ip, n), k)
      BY <2>1, <2>2, MaskOfMask
    <3> QED BY <1>2, <3>1, <3>2 DEF Shared
  <2>3. /\ ip6_mask_addr(p.ip, m) = ip6_mask_addr(r.ip, m)
        /\ ip6_mask_addr(p.ip, m + 1) = ip6_mask_addr(r.ip, m + 1)
    BY <1>3, <2>1, <2>2
  <2>4. Shared(q, r, m)
    BY <1>1, <1>2, <1>4, <2>1, <2>3 DEF Shared
  <2>5. Common(q, r) = [ip |-> ip6_mask_addr(q.ip, m), depth |-> m]
    BY <2>4, CommonIs
  <2> QED BY <1>1, <1>3, <2>5 DEF Shared
<1> QED BY <1>3, <1>4

LEMMA CommonSymmetric ==
  ASSUME NEW p \in Network, NEW q \in Network
  PROVE  Common(p, q) = Common(q, p)
<1>1. PICK n \in 0..MAX_DEPTH : Shared(p, q, n)
  BY SharedExists
<1>2. Shared(q, p, n) /\ ip6_mask_addr(p.ip, n) = ip6_mask_addr(q.ip, n)
  BY <1>1 DEF Shared
<1> QED BY <1>1, <1>2, CommonIs

LEMMA CommonWithItself ==
  ASSUME NEW p, IsMasked(p)
  PROVE  Common(p, p) = p
<1>1. p \in Network /\ p.depth \in 0..MAX_DEPTH /\ p = [ip |-> p.ip, depth |-> p.depth]
  BY DEF IsMasked, Network
<1>2. Shared(p, p, p.depth)
  BY <1>1 DEF Shared
<1> QED BY <1>1, <1>2, CommonIs DEF IsMasked

\* A new route adds at most itself and one inner node.
LEMMA NodesAdded ==
  ASSUME NEW S, \A q \in S : IsMasked(q), S # {}, NEW p, IsMasked(p)
  PROVE  \E c : Nodes(S \cup {p}) \subseteq Nodes(S) \cup {p, c}
<1> DEFINE depths == {Common(p, q).depth : q \in S}
<1>1. p \in Network /\ \A q \in S : q \in Network
  BY DEF IsMasked
<1>2. \A q \in S : Common(p, q).depth \in 0..MAX_DEPTH
  <2> TAKE q \in S
  <2>1. PICK n \in 0..MAX_DEPTH : Shared(p, q, n)
    BY <1>1, SharedExists
  <2> QED BY <1>1, <2>1, CommonIs
<1>3. depths \in SUBSET (0..MAX_DEPTH) /\ depths # {}
  BY <1>2
<1>4. PICK m \in depths : \A k \in depths : k <= m
  <2> HIDE DEF depths
  <2> QED BY <1>3, GreatestNatural, DepthsAreNaturals
<1>5. PICK r \in S : \A q \in S : Common(p, q).depth <= Common(p, r).depth
  BY <1>4
<1>6. ASSUME NEW q \in S PROVE Common(p, q) \in Nodes(S) \cup {p, Common(p, r)}
  BY <1>1, <1>5, CommonOfThree DEF Nodes
<1>7. Common(p, p) = p
  BY CommonWithItself
<1>8. ASSUME NEW x \in S \cup {p}, NEW y \in S \cup {p}
      PROVE  Common(x, y) \in Nodes(S) \cup {p, Common(p, r)}
  <2>1. CASE x = p /\ y = p
    BY <1>7, <2>1
  <2>2. CASE x = p /\ y \in S
    BY <1>6, <2>2
  <2>3. CASE x \in S /\ y = p
    BY <1>1, <1>6, <2>3, CommonSymmetric
  <2>4. CASE x \in S /\ y \in S
    BY <2>4 DEF Nodes
  <2> QED BY <2>1, <2>2, <2>3, <2>4
<1>9. ASSUME NEW n \in Nodes(S \cup {p}) PROVE n \in Nodes(S) \cup {p, Common(p, r)}
  <2>1. PICK x \in S \cup {p}, y \in S \cup {p} : n = Common(x, y)
    BY DEF Nodes
  <2> QED BY <1>8, <2>1
<1> QED BY <1>9

\* So a tree of n routes has at most 2n - 1 nodes.
LEMMA NodesBounded ==
  ASSUME NEW S, IsFiniteSet(S), S # {}, \A q \in S : IsMasked(q)
  PROVE  /\ IsFiniteSet(Nodes(S))
         /\ Cardinality(Nodes(S)) <= 2 * Cardinality(S) - 1
<1> DEFINE Few(T) == /\ IsFiniteSet(Nodes(T))
                     /\ Cardinality(Nodes(T)) <= 2 * Cardinality(T) - 1
           Wrong(T) == T # {} /\ ~Few(T)
           sizes == {Cardinality(T) : T \in {U \in SUBSET S : Wrong(U)}}
<1>1. ASSUME NEW T \in SUBSET S PROVE IsFiniteSet(T) /\ Cardinality(T) \in Nat
  BY FS_Subset, FS_CardinalityType
<1>2. sizes \in SUBSET Nat
  BY <1>1
<1> SUFFICES ASSUME Wrong(S) PROVE FALSE
  BY DEF Wrong
<1>3. sizes # {}
  OBVIOUS
<1>4. PICK m \in sizes : \A k \in sizes : m <= k
  <2> HIDE DEF sizes
  <2> QED BY <1>2, <1>3, LeastNatural
<1>5. PICK T \in SUBSET S : Wrong(T) /\ m = Cardinality(T)
  BY <1>4
<1>6. PICK p \in T : TRUE
  BY <1>5
<1> DEFINE U == T \ {p}
<1>7. /\ U \in SUBSET S /\ T = U \cup {p} /\ p \notin U /\ IsMasked(p)
      /\ IsFiniteSet(U) /\ Cardinality(U) \in Nat /\ Cardinality(T) = Cardinality(U) + 1
  <2>1. U \in SUBSET S /\ T = U \cup {p} /\ p \notin U /\ IsMasked(p)
    BY <1>5, <1>6
  <2> QED BY <1>1, <2>1, FS_AddElement
<1>8. ~Wrong(U)
  <2>1. Wrong(U) => Cardinality(U) \in sizes
    BY <1>7
  <2> HIDE DEF sizes, Wrong, U
  <2> QED BY <1>4, <1>5, <1>7, <2>1
<1>9. CASE U = {}
  <2>1. T = {p}
    BY <1>7, <1>9
  <2>2. Nodes(T) = {p}
    BY <1>7, <2>1, CommonWithItself DEF Nodes
  <2>3. Few(T)
    <3>1. IsFiniteSet({p}) /\ Cardinality({p}) = 1
      BY FS_Singleton
    <3>2. IsFiniteSet(Nodes(T)) /\ Cardinality(Nodes(T)) = 1 /\ Cardinality(T) = 1
      BY <2>1, <2>2, <3>1
    <3> QED BY <3>2
  <2> QED BY <1>5, <2>3
<1>10. CASE U # {}
  <2>1. Few(U)
    BY <1>8, <1>10
  <2>2. PICK c : Nodes(T) \subseteq Nodes(U) \cup {p, c}
    <3>1. \A q \in U : IsMasked(q)
      BY <1>7
    <3> HIDE DEF U
    <3> QED BY <1>7, <1>10, <3>1, NodesAdded
  <2>3. /\ IsFiniteSet((Nodes(U) \cup {p}) \cup {c})
        /\ Cardinality((Nodes(U) \cup {p}) \cup {c}) <= Cardinality(Nodes(U)) + 2
    <3> HIDE DEF U
    <3>1. /\ IsFiniteSet(Nodes(U) \cup {p})
          /\ \/ Cardinality(Nodes(U) \cup {p}) = Cardinality(Nodes(U))
             \/ Cardinality(Nodes(U) \cup {p}) = Cardinality(Nodes(U)) + 1
      BY <2>1, FS_AddElement
    <3>2. /\ IsFiniteSet((Nodes(U) \cup {p}) \cup {c})
          /\ \/ Cardinality((Nodes(U) \cup {p}) \cup {c}) = Cardinality(Nodes(U) \cup {p})
             \/ Cardinality((Nodes(U) \cup {p}) \cup {c}) = Cardinality(Nodes(U) \cup {p}) + 1
      BY <3>1, FS_AddElement
    <3>3. Cardinality(Nodes(U)) \in Nat
      BY <2>1, FS_CardinalityType
    <3> QED BY <3>1, <3>2, <3>3
  <2>4. Nodes(T) \subseteq (Nodes(U) \cup {p}) \cup {c}
    BY <2>2
  <2>5. /\ IsFiniteSet(Nodes(T)) /\ Cardinality(Nodes(T)) \in Nat
        /\ Cardinality(Nodes(T)) <= Cardinality((Nodes(U) \cup {p}) \cup {c})
        /\ Cardinality((Nodes(U) \cup {p}) \cup {c}) \in Nat
        /\ Cardinality(Nodes(U)) \in Nat
    <3> HIDE DEF U
    <3> QED BY <2>1, <2>3, <2>4, FS_Subset, FS_CardinalityType
  <2>6. Few(T)
    <3>1. Cardinality(Nodes(U)) <= 2 * Cardinality(U) - 1
      BY <2>1
    <3> HIDE DEF U
    <3> QED BY <1>7, <2>3, <2>5, <3>1
  <2> QED BY <1>5, <2>6
<1> QED BY <1>9, <1>10

\* Two nodes for each route are enough: the RIB is full only with as many
\* routes as it was made for (rte_fib_create, rte_fib6_create).
LEMMA FullOfRoutes ==
  ASSUME NEW R, RoutesOK(R), IsFiniteSet(DOMAIN R), NEW p, IsMasked(p), RibFull(R, p),
         MAX_ROUTES \in Nat
  PROVE  Cardinality(DOMAIN R) >= MAX_ROUTES
<1> DEFINE n == Cardinality(DOMAIN R)
           grown == DOMAIN R \cup {p}
<1>1. n \in Nat /\ MAX_ROUTES \in Nat
  BY FS_CardinalityType
<1>2. Cardinality(Nodes(DOMAIN R)) \in Nat /\ Cardinality(Nodes(DOMAIN R)) <= 2 * n
  <2>1. CASE DOMAIN R = {}
    <3>1. Nodes(DOMAIN R) = {}
      BY <2>1 DEF Nodes
    <3>2. Cardinality({}) = 0
      BY FS_EmptySet
    <3> QED BY <1>1, <3>1, <3>2
  <2>2. CASE DOMAIN R # {}
    <3>1. \A q \in DOMAIN R : IsMasked(q)
      BY DEF RoutesOK
    <3>2. /\ IsFiniteSet(Nodes(DOMAIN R))
          /\ Cardinality(Nodes(DOMAIN R)) <= 2 * n - 1
      BY <2>2, <3>1, NodesBounded
    <3> QED BY <1>1, <3>2, FS_CardinalityType
  <2> QED BY <2>1, <2>2
<1>3. Cardinality(Nodes(grown)) \in Nat /\ Cardinality(Nodes(grown)) <= 2 * n + 1
  <2>1. IsFiniteSet(grown) /\ Cardinality(grown) <= n + 1 /\ Cardinality(grown) \in Nat
    <3>1. /\ IsFiniteSet(grown)
          /\ Cardinality(grown) = IF p \in DOMAIN R THEN n ELSE n + 1
      BY FS_AddElement
    <3> HIDE DEF grown, n
    <3> QED BY <1>1, <3>1
  <2>2. grown # {} /\ \A q \in grown : IsMasked(q)
    BY DEF RoutesOK
  <2>3. IsFiniteSet(Nodes(grown)) /\ Cardinality(Nodes(grown)) <= 2 * Cardinality(grown) - 1
    <3> HIDE DEF grown
    <3> QED BY <2>1, <2>2, NodesBounded
  <2> QED BY <1>1, <2>1, <2>3, FS_CardinalityType
<1> HIDE DEF n, grown
<1>4. Cardinality(Nodes(DOMAIN R)) >= MAX_ROUTES * 2 \/ Cardinality(Nodes(grown)) > MAX_ROUTES * 2
  BY DEF RibFull, max_nodes, grown
<1> QED BY <1>1, <1>2, <1>3, <1>4 DEF n

-----------------------------------------------------------------------------
(* One route more or less *)

\* R and S differ in one route.
DifferIn(R, S, key) ==
  /\ RoutesOK(R) /\ RoutesOK(S)
  /\ DOMAIN R \ {key} = DOMAIN S \ {key}
  /\ \A p \in DOMAIN R \ {key} : R[p] = S[p]

LEMMA RuleDiffers ==
  ASSUME NEW R, RoutesOK(R), NEW key, IsMasked(key), NEW hop
  PROVE  /\ DifferIn(R, WithRule(R, key, hop), key)
         /\ DifferIn(R, WithoutRules(R, {key}), key)
BY DEF DifferIn, WithRule, WithoutRules, RoutesOK

\* A route with the next hop of its parent changes no answer.
LEMMA SameAsParent ==
  ASSUME NEW R, NEW S, NEW key, IsMasked(key), DifferIn(R, S, key),
         key \in DOMAIN R, key \notin DOMAIN S, R[key] = ParentHop(R, key)
  PROVE  \A ip \in Address : RibHop(R, ip) = RibHop(S, ip)
<1> TAKE ip \in Address
<1>1. RoutesOK(R) /\ RoutesOK(S) /\ key.depth \in Int
  BY DepthsAreNaturals DEF DifferIn, IsMasked, Network
<1>2. /\ ParentHop(R, key) = ParentHop(S, key)
      /\ Exposed(R, key, ip) <=> Exposed(S, key, ip)
  BY <1>1, AroundKept DEF DifferIn
<1>3. CASE Exposed(R, key, ip)
  BY <1>1, <1>2, <1>3, ExposedHop
<1>4. CASE ~Exposed(R, key, ip)
  BY <1>1, <1>4, CoveredHop DEF DifferIn
<1> QED BY <1>3, <1>4
=============================================================================
