-------------------------- MODULE FibRegistryProof --------------------------
(***************************************************************************)
(* Proofs about the named fib objects, for any number of threads, objects  *)
(* and names: names stay unique, and no block of memory is lost.  Each     *)
(* step is of one thread and touches one object, which is its own, or on   *)
(* the list; what the others rely on does not change under them.           *)
(***************************************************************************)
EXTENDS FibRegistry, TLAPS, SequenceTheorems, WellFoundedInduction

-----------------------------------------------------------------------------
(* The inductive invariant *)

\* Where a call holds the lock to write, and where its object is not on the list.
Writing ==
  {"scan", "alloc_te", "alloc_fib", "init_dataplane", "insert", "free_fib",
   "free_te", "exit", "unlist"}
Creating == {"create_rib", "lock", "exit_rib"} \cup (Writing \ {"unlist"})
Removing == {"free_dataplane", "free_rib", "free_fib_te"}

\* The blocks of its object that exist when a call is there.
Parts(c) ==
  IF c.pc \in {"lock", "scan", "alloc_te", "exit", "exit_rib"} THEN {"rib"}
  ELSE IF c.pc \in {"alloc_fib", "free_te"} THEN {"rib", "te"}
  ELSE IF c.pc \in {"init_dataplane", "free_fib", "free_rib"} THEN {"rib", "te", "fib"}
  ELSE IF c.pc \in {"insert", "free", "unlist", "free_dataplane"} THEN Whole(c.obj)
  ELSE IF c.pc = "free_fib_te" THEN {"te", "fib"} ELSE {}

ThreadOK(t) ==
  LET c == call[t]
  IN  /\ c.pc \in Writing <=> writer = t
      /\ c.pc \in {"idle", "find", "search"} => c.obj = NULL
      /\ c.pc \in {"free", "unlist"} => c.obj \in Listed
      /\ c.pc \in Creating \cup Removing => c.obj \in Objects \ Listed
      /\ c.pc \in Creating => c.name \in Names /\ c.type \in Types
      /\ c.pc \in {"alloc_te", "alloc_fib", "init_dataplane", "insert"} => Found(c.name) = {}
      /\ c.pc \in {"init_dataplane", "insert"} => fib[c.obj] = Given(t)
      /\ c.obj # NULL => Blocks(c.obj) = Parts(c)

OwnObjects ==
  \A t, u \in Threads : call[t].obj = call[u].obj /\ call[t].obj # NULL => t = u

OnceListed == \A m, n \in DOMAIN fib_list : fib_list[m] = fib_list[n] => m = n

IndInv ==
  /\ TypeOK
  /\ \A t \in Threads : ThreadOK(t)
  /\ OwnObjects
  /\ OnceListed
  /\ NamesUnique
  /\ MemoryAccounted

-----------------------------------------------------------------------------
(* Lists and memory *)

LEMMA ListedAreObjects ==
  ASSUME fib_list \in Seq(Objects)
  PROVE  Listed \subseteq Objects
BY DEF Listed, Range

LEMMA AppendRange ==
  ASSUME NEW S, NEW s \in Seq(S), NEW e \in S
  PROVE  Range(Append(s, e)) = Range(s) \cup {e}
<1>1. /\ DOMAIN s = 1..Len(s) /\ Len(s) \in Nat
      /\ DOMAIN Append(s, e) = 1..(Len(s) + 1)
      /\ \A n \in 1..Len(s) : Append(s, e)[n] = s[n]
      /\ Append(s, e)[Len(s) + 1] = e
  OBVIOUS
<1> QED BY <1>1 DEF Range

\* What is left of a list from which one element is taken.
LEMMA RemoveAtElements ==
  ASSUME NEW S, NEW s \in Seq(S), NEW n \in 1..Len(s)
  PROVE  /\ RemoveAt(s, n) \in Seq(S)
         /\ Len(RemoveAt(s, n)) = Len(s) - 1
         /\ \A i \in 1..(Len(s) - 1) :
              RemoveAt(s, n)[i] = IF i < n THEN s[i] ELSE s[i + 1]
<1> DEFINE left  == SubSeq(s, 1, n - 1)
           right == SubSeq(s, n + 1, Len(s))
<1>1. RemoveAt(s, n) = left \o right
  BY DEF RemoveAt
<1>2. left \in Seq(S) /\ Len(left) = n - 1 /\ \A i \in 1..(n - 1) : left[i] = s[i]
  OBVIOUS
<1>3. /\ right \in Seq(S) /\ Len(right) = Len(s) - n
      /\ \A i \in 1..(Len(s) - n) : right[i] = s[n + i]
  OBVIOUS
<1> HIDE DEF left, right
<1>4. left \o right \in Seq(S) /\ Len(left \o right) = Len(s) - 1
  <2>1. (n - 1) + (Len(s) - n) = Len(s) - 1
    OBVIOUS
  <2>2. left \o right \in Seq(S) /\ Len(left \o right) = Len(left) + Len(right)
    BY <1>2, <1>3, ConcatProperties
  <2> QED BY <1>2, <1>3, <2>1, <2>2
<1>5. ASSUME NEW i \in 1..(Len(s) - 1)
      PROVE  (left \o right)[i] = IF i < n THEN s[i] ELSE s[i + 1]
  <2>1. CASE i < n
    BY <1>2, <1>3, <2>1
  <2>2. CASE ~(i < n)
    <3>1. (left \o right)[i] = right[i - (n - 1)] /\ i - (n - 1) \in 1..(Len(s) - n)
      BY <1>2, <1>3, <2>2
    <3> QED BY <1>3, <2>2, <3>1
  <2> QED BY <2>1, <2>2
<1> QED BY <1>1, <1>4, <1>5

LEMMA RemoveAtRange ==
  ASSUME NEW S, NEW s \in Seq(S), NEW n \in 1..Len(s),
         \A i, j \in DOMAIN s : s[i] = s[j] => i = j
  PROVE  /\ RemoveAt(s, n) \in Seq(S)
         /\ Range(RemoveAt(s, n)) = Range(s) \ {s[n]}
         /\ \A i, j \in DOMAIN RemoveAt(s, n) :
              RemoveAt(s, n)[i] = RemoveAt(s, n)[j] => i = j
<1> DEFINE r == RemoveAt(s, n)
<1>1. r \in Seq(S) /\ Len(r) = Len(s) - 1 /\ DOMAIN r = 1..(Len(s) - 1)
  BY RemoveAtElements
<1>2. \A i \in 1..(Len(s) - 1) : r[i] = IF i < n THEN s[i] ELSE s[i + 1]
  BY RemoveAtElements
<1>3. DOMAIN s = 1..Len(s) /\ Len(s) \in Nat
  OBVIOUS
<1> HIDE DEF r
<1>4. Range(r) \subseteq Range(s) \ {s[n]}
  <2>1. ASSUME NEW i \in 1..(Len(s) - 1)
        PROVE  \E j \in 1..Len(s) : j # n /\ r[i] = s[j]
    BY <1>2, <1>3, <2>1
  <2>2. \A j \in 1..Len(s) : j # n => s[j] # s[n]
    BY <1>3
  <2> QED BY SMTT(30), <1>1, <1>3, <2>1, <2>2 DEF Range
<1>5. ASSUME NEW i \in 1..Len(s), s[i] # s[n]
      PROVE  s[i] \in Range(r)
  <2>1. CASE i < n
    BY <1>1, <1>2, <1>3, <2>1 DEF Range
  <2>2. CASE i > n
    <3>1. r[i - 1] = s[i] /\ i - 1 \in DOMAIN r
      BY <1>1, <1>2, <1>3, <2>2
    <3> QED BY <3>1 DEF Range
  <2> QED BY <1>5, <2>1, <2>2
<1>6. Range(r) = Range(s) \ {s[n]}
  <2>1. \A e \in Range(s) : e # s[n] => e \in Range(r)
    BY <1>3, <1>5 DEF Range
  <2> QED BY <1>4, <2>1
<1>7. ASSUME NEW i \in DOMAIN r, NEW j \in DOMAIN r, r[i] = r[j]
      PROVE  i = j
  <2> DEFINE at(k) == IF k < n THEN k ELSE k + 1
  <2>1. ASSUME NEW k \in DOMAIN r
        PROVE  k \in Nat /\ at(k) \in DOMAIN s /\ r[k] = s[at(k)]
    BY <1>1, <1>2, <1>3, <2>1
  <2>2. at(i) = at(j)
    <3>1. s[at(i)] = s[at(j)]
      BY <1>7, <2>1
    <3> HIDE DEF at
    <3> QED BY <2>1, <3>1
  <2> QED BY <2>1, <2>2
<1> QED BY <1>1, <1>6, <1>7 DEF r

LEMMA MinIsIn ==
  ASSUME NEW S \in SUBSET Nat, S # {}
  PROVE  Min(S) \in S
<1> DEFINE less == OpToRel(<, Nat)
<1>1. IsWellFoundedOn(less, Nat)
  BY NatLessThanWellFounded
<1>2. \A m, n \in Nat : m < n => <<m, n>> \in less
  BY DEF OpToRel
<1> HIDE DEF less
<1>3. PICK m \in S : \A n \in S : ~(<<n, m>> \in less)
  BY <1>1, WFMin
<1>4. ASSUME NEW n \in S
      PROVE  m =< n
  <2>1. m \in Nat /\ n \in Nat
    OBVIOUS
  <2>2. ~(n < m)
    BY <1>2, <1>3, <2>1
  <2> QED BY <2>1, <2>2
<1> QED BY <1>4 DEF Min

\* What an allocation or a release leaves of each object.
LEMMA Allocated ==
  ASSUME NEW t \in Threads, NEW kinds \in SUBSET Kinds,
         NEW own, own = call[t].obj, heap' = heap \cup Mine(t, kinds)
  PROVE  /\ Blocks(own)' = Blocks(own) \cup kinds
         /\ \A i \in Objects : i # own => Blocks(i)' = Blocks(i)
BY DEF Mine, Blocks

LEMMA Released ==
  ASSUME NEW t \in Threads, NEW kinds \in SUBSET Kinds,
         NEW own, own = call[t].obj, heap' = heap \ Mine(t, kinds)
  PROVE  /\ Blocks(own)' = Blocks(own) \ kinds
         /\ \A i \in Objects : i # own => Blocks(i)' = Blocks(i)
BY DEF Mine, Blocks

-----------------------------------------------------------------------------
(* Steps of one thread *)

\* What the other threads rely on is kept by a step that leaves alone all
\* objects but one that is not theirs, and adds no name, or holds the lock.
LEMMA OthersKept ==
  ASSUME IndInv, NEW t \in Threads, NEW own,
         \A u \in Threads \ {t} :
           /\ call'[u] = call[u]
           /\ writer' = u <=> writer = u
           /\ call[u].obj # NULL => call[u].obj # own,
         \A i \in Objects \ {own} :
           Blocks(i)' = Blocks(i) /\ fib'[i] = fib[i] /\ (i \in Listed' <=> i \in Listed),
         writer = t \/ \A n \in Names : Found(n) = {} => Found(n)' = {}
  PROVE  \A u \in Threads \ {t} : ThreadOK(u)'
<1> SUFFICES ASSUME NEW u \in Threads \ {t}
             PROVE  ThreadOK(u)'
  OBVIOUS
<1>1. /\ call'[u] = call[u] /\ (writer' = u <=> writer = u)
      /\ call[u].obj # NULL => call[u].obj # own
      /\ call[u] \in Call /\ ThreadOK(u) /\ NULL \notin Objects
  BY RegistryAssumption DEF IndInv, TypeOK
<1>2. call[u].obj # NULL =>
        /\ call[u].obj \in Objects
        /\ Blocks(call[u].obj)' = Blocks(call[u].obj)
        /\ fib'[call[u].obj] = fib[call[u].obj]
        /\ call[u].obj \in Listed' <=> call[u].obj \in Listed
  BY <1>1 DEF Call, Blocks
<1>3. call[u].obj # NULL => Parts(call[u])' = Parts(call[u])
  BY <1>1, <1>2 DEF Parts, Whole
<1>4. call[u].pc \in {"alloc_te", "alloc_fib", "init_dataplane", "insert"} =>
        Found(call[u].name)' = {}
  <2>1. call[u].pc \in {"alloc_te", "alloc_fib", "init_dataplane", "insert"} =>
          call[u].name \in Names /\ Found(call[u].name) = {} /\ writer # t
    BY <1>1 DEF ThreadOK, Creating, Writing
  <2>2. call'[u].name = call[u].name
    BY <1>1
  <2> QED BY <2>1, <2>2 DEF Found
<1>5. Given(u)' = Given(u)
  BY <1>1 DEF Given
<1>6. call[u].pc \in {"init_dataplane", "insert"} => call[u].obj # NULL
  BY <1>1 DEF ThreadOK, Creating, Writing
<1>7. call[u].pc \in Creating \cup Removing => call[u].obj # NULL
  BY <1>1 DEF ThreadOK
<1>8. call[u].pc \in {"free", "unlist"} => call[u].obj # NULL
  BY <1>1, ListedAreObjects DEF ThreadOK, IndInv, TypeOK
<1> QED BY <1>1, <1>2, <1>3, <1>4, <1>5, <1>6, <1>7, <1>8 DEF ThreadOK

\* A step that touches at most one object, which is on no list and is that of
\* the thread before or after it.
Private(t, own) ==
  /\ own \in (Objects \ Listed) \cup {NULL}
  /\ fib_list' = fib_list
  /\ \A u \in Threads \ {t} :
       /\ call'[u] = call[u]
       /\ writer' = u <=> writer = u
       /\ call[u].obj # NULL => call[u].obj # own /\ call[u].obj # call'[t].obj
  /\ \A i \in Objects \ {own} : Blocks(i)' = Blocks(i) /\ fib'[i] = fib[i]
  /\ call[t].obj \in {own, NULL} \cup Listed
  /\ own # NULL => \/ \A k \in Kinds : <<k, own>> \notin heap'
                   \/ call'[t].obj = own /\ call'[t].pc # "idle"

LEMMA PrivateKeepsInv ==
  ASSUME IndInv, NEW t \in Threads, NEW own, Private(t, own), TypeOK', ThreadOK(t)'
  PROVE  IndInv'
<1>1. Listed' = Listed /\ Listed \subseteq Objects /\ own \notin Listed
  BY ListedAreObjects, RegistryAssumption DEF Private, Listed, IndInv, TypeOK
<1>2. \A i \in Listed : fib'[i] = fib[i] /\ Blocks(i)' = Blocks(i)
  BY <1>1 DEF Private
<1>3. \A n \in Names : Found(n)' = Found(n)
  BY <1>1, <1>2 DEF Found
<1>4. \A u \in Threads \ {t} : ThreadOK(u)'
  BY <1>1, <1>3, OthersKept DEF Private
<1>5. OwnObjects'
  BY DEF OwnObjects, Private, IndInv
<1>6. OnceListed' /\ NamesUnique'
  <2>1. OnceListed'
    BY DEF OnceListed, Private, IndInv
  <2>2. \A n \in DOMAIN fib_list : fib_list[n] \in Listed
    BY DEF Listed, Range
  <2> QED BY <1>2, <2>1, <2>2 DEF NamesUnique, Private, IndInv
<1>7. MemoryAccounted'
  <2>1. \A i \in Listed : Blocks(i)' = Whole(i)'
    BY <1>2 DEF IndInv, MemoryAccounted, Whole
  <2>2. ASSUME NEW i \in Objects \ Listed, Blocks(i)' # {}
        PROVE  \E u \in Threads : Busy(u)' /\ call'[u].obj = i
    <3>1. CASE i = own
      BY <2>2, <3>1, RegistryAssumption DEF Private, Blocks, Busy, At
    <3>2. CASE i # own
      <4>1. Blocks(i) # {}
        BY <2>2, <3>2 DEF Private
      <4>2. PICK u \in Threads : Busy(u) /\ call[u].obj = i
        BY <2>2, <4>1 DEF IndInv, MemoryAccounted
      <4>3. u # t
        BY <3>2, <4>2, <2>2, RegistryAssumption DEF Private
      <4> QED BY <4>2, <4>3 DEF Private, Busy, At
    <3> QED BY <3>1, <3>2
  <2> QED BY <1>1, <2>1, <2>2 DEF MemoryAccounted
<1> QED BY <1>4, <1>5, <1>6, <1>7 DEF IndInv

\* What a call that creates or frees knows of its object.
LEMMA OwnObject ==
  ASSUME IndInv, NEW t \in Threads, call[t].pc \in Creating \cup Removing
  PROVE  /\ call[t].obj \in Objects \ Listed /\ call[t].obj # NULL
         /\ call[t] \in Call
         /\ \A u \in Threads \ {t} : call[u].obj # call[t].obj
         /\ Blocks(call[t].obj) = Parts(call[t])
         /\ call[t].pc \in Writing <=> writer = t
BY RegistryAssumption DEF IndInv, TypeOK, ThreadOK, OwnObjects

\* A step of such a call to a place where it creates or frees.
LEMMA GotoKeepsInv ==
  ASSUME IndInv, NEW t \in Threads, NEW own, own = call[t].obj,
         call[t].pc \in Creating \cup Removing,
         NEW to \in (Creating \cup Removing) \ {"create_rib"}, Goto(t, to),
         to \in Creating <=> call[t].pc \in Creating,
         UNCHANGED <<fib_list, readers>>,
         \/ writer = NULL /\ writer' = t /\ to \in Writing
         \/ writer = t /\ writer' = NULL /\ to \notin Writing
         \/ writer' = writer /\ (to \in Writing <=> call[t].pc \in Writing),
         heap' \subseteq Kinds \X Objects,
         fib' \in [Objects -> [name : Names \cup {NULL}, type : Types \cup {NULL}]],
         \A i \in Objects \ {own} : Blocks(i)' = Blocks(i) /\ fib'[i] = fib[i],
         Blocks(own)' = Parts(call[t])',
         to \in {"alloc_te", "alloc_fib", "init_dataplane", "insert"} =>
           Found(call[t].name) = {},
         to \in {"init_dataplane", "insert"} => fib'[own] = Given(t)
  PROVE  IndInv'
<1>1. /\ own \in Objects \ Listed /\ own # NULL /\ call[t] \in Call
      /\ \A u \in Threads \ {t} : call[u].obj # own
      /\ call[t].pc \in Writing <=> writer = t
  BY OwnObject
<1>2. /\ call' \in [Threads -> Call] /\ ret' = ret
      /\ \A u \in Threads \ {t} : call'[u] = call[u]
      /\ call'[t] = [call[t] EXCEPT !.pc = to]
  <2>1. to \in {"create_rib", "lock", "scan", "alloc_te", "alloc_fib", "init_dataplane",
                "insert", "free_fib", "free_te", "exit", "exit_rib",
                "free_dataplane", "free_rib", "free_fib_te"}
    BY DEF Creating, Removing, Writing
  <2>2. call \in [Threads -> Call]
    BY DEF IndInv, TypeOK
  <2>3. [call[t] EXCEPT !.pc = to] \in Call
    BY <1>1, <2>1 DEF Call
  <2> QED BY <2>2, <2>3 DEF Goto
<1>3. /\ call'[t].pc = to /\ call'[t].obj = own
      /\ call'[t].name = call[t].name /\ call'[t].type = call[t].type
  BY <1>1, <1>2 DEF Call
<1>4. /\ writer' \in Threads \cup {NULL} /\ (to \in Writing <=> writer' = t)
      /\ \A u \in Threads \ {t} : writer' = u <=> writer = u
  BY <1>1, RegistryAssumption DEF IndInv, TypeOK
<1>5. TypeOK'
  BY <1>2, <1>4 DEF IndInv, TypeOK
<1>6. /\ to # "idle" /\ to \notin {"find", "search"} /\ to \notin {"free", "unlist"}
  BY DEF Creating, Removing, Writing
<1>7. Private(t, own)
  BY <1>1, <1>2, <1>3, <1>4, <1>6 DEF Private
<1>8. Listed' = Listed
  BY DEF Listed
<1>9. call[t].pc \in Creating => call[t].name \in Names /\ call[t].type \in Types
  BY DEF IndInv, ThreadOK
<1>10. Found(call[t].name) = {} => Found(call[t].name)' = {}
  BY <1>1, <1>3, <1>8, ListedAreObjects DEF Found, IndInv, TypeOK
<1>11. Given(t)' = Given(t)
  BY <1>3 DEF Given
<1>12. Blocks(call[t].obj)' = Blocks(own)'
  BY <1>3 DEF Blocks
<1>13. ThreadOK(t)'
  BY <1>1, <1>3, <1>4, <1>6, <1>8, <1>9, <1>10, <1>11, <1>12 DEF ThreadOK
<1> QED BY <1>5, <1>7, <1>13, PrivateKeepsInv

\* The return of such a call, of whose object nothing is left.
LEMMA ReturnKeepsInv ==
  ASSUME IndInv, NEW t \in Threads, NEW own, own = call[t].obj,
         call[t].pc \in (Creating \cup Removing) \ Writing, Return(t, NULL),
         UNCHANGED <<fib_list, writer, readers>>,
         heap' \subseteq Kinds \X Objects,
         fib' \in [Objects -> [name : Names \cup {NULL}, type : Types \cup {NULL}]],
         \A i \in Objects \ {own} : Blocks(i)' = Blocks(i) /\ fib'[i] = fib[i],
         Blocks(own)' = {}
  PROVE  IndInv'
<1>1. /\ own \in Objects \ Listed /\ own # NULL
      /\ \A u \in Threads \ {t} : call[u].obj # own
      /\ writer # t
  BY OwnObject
<1>2. /\ call' \in [Threads -> Call] /\ ret' \in [Threads -> Objects \cup {NULL}]
      /\ \A u \in Threads \ {t} : call'[u] = call[u]
      /\ call'[t] = Idle
  BY DEF IndInv, TypeOK, Return, Idle, Call
<1>3. TypeOK'
  BY <1>2 DEF IndInv, TypeOK
<1>4. Private(t, own)
  BY <1>1, <1>2 DEF Private, Idle, Blocks
<1>5. ThreadOK(t)'
  BY <1>1, <1>2 DEF ThreadOK, Idle, Creating, Removing, Writing
<1> QED BY <1>3, <1>4, <1>5, PrivateKeepsInv

-----------------------------------------------------------------------------
(* rte_fib_create *)

\* Steps that leave memory alone.
LEMMA SameMemory ==
  ASSUME IndInv, heap' = heap, fib' = fib
  PROVE  /\ heap' \subseteq Kinds \X Objects
         /\ fib' \in [Objects -> [name : Names \cup {NULL}, type : Types \cup {NULL}]]
         /\ \A i : Blocks(i)' = Blocks(i) /\ fib'[i] = fib[i]
BY DEF IndInv, TypeOK, Blocks

LEMMA BeginCreateKeepsInv ==
  ASSUME IndInv, NEW t \in Threads, rte_fib_create(t)
  PROVE  IndInv'
<1>1. PICK name \in Names, type \in Types, own \in Objects :
        /\ Fresh(own)
        /\ call' = [call EXCEPT ![t] = [pc |-> "create_rib", name |-> name,
                                        type |-> type, obj |-> own]]
  BY DEF rte_fib_create
<1>2. call[t].pc = "idle" /\ call[t].obj = NULL /\ writer # t
  BY DEF rte_fib_create, At, IndInv, ThreadOK, Writing
<1>3. /\ call' \in [Threads -> Call]
      /\ \A u \in Threads \ {t} : call'[u] = call[u]
      /\ call'[t] = [pc |-> "create_rib", name |-> name, type |-> type, obj |-> own]
  BY <1>1 DEF IndInv, TypeOK, Call
<1>4. own \notin Listed /\ own # NULL /\ Blocks(own) = {}
  BY <1>1, RegistryAssumption DEF Fresh, IndInv, MemoryAccounted, Whole
<1>5. /\ UNCHANGED <<fib_list, heap, fib, writer, readers>>
      /\ ret' = [ret EXCEPT ![t] = NULL]
  BY DEF rte_fib_create, Locals
<1>6. TypeOK'
  BY <1>3, <1>5 DEF IndInv, TypeOK
<1>7. Private(t, own)
  BY <1>1, <1>2, <1>3, <1>4, <1>5, SameMemory DEF Private, Fresh
<1>8. Blocks(own)' = {} /\ Listed' = Listed
  BY <1>4, <1>5, SameMemory DEF Listed
<1>9. ThreadOK(t)'
  BY <1>2, <1>3, <1>4, <1>5, <1>8
  DEF ThreadOK, Creating, Removing, Writing, Parts, Blocks
<1> QED BY <1>6, <1>7, <1>9, PrivateKeepsInv

LEMMA CreateRibKeepsInv ==
  ASSUME IndInv, NEW t \in Threads, CreateRib(t)
  PROVE  IndInv'
<1>0. PICK own : own = call[t].obj
  OBVIOUS
<1>1. /\ call[t].pc = "create_rib" /\ writer = NULL
      /\ UNCHANGED <<fib_list, fib, writer, readers>>
  BY DEF CreateRib, At, Unlocked, Locals
<1>2. /\ own \in Objects /\ own # NULL /\ Blocks(own) = {}
  BY <1>0, <1>1, OwnObject DEF Creating, Parts
<1>3. CASE heap' = heap \cup Mine(t, {"rib"}) /\ Goto(t, "lock")
  <2>1. /\ Blocks(own)' = {"rib"}
        /\ \A i \in Objects : i # own => Blocks(i)' = Blocks(i)
    BY <1>0, <1>2, <1>3, Allocated DEF Kinds
  <2>2. heap' \subseteq Kinds \X Objects
    BY <1>0, <1>2, <1>3 DEF Mine, Kinds, IndInv, TypeOK
  <2>3. Parts(call[t])' = {"rib"}
    BY <1>3 DEF Goto, Parts, IndInv, TypeOK, Call
  <2>4. fib' \in [Objects -> [name : Names \cup {NULL}, type : Types \cup {NULL}]]
    BY <1>1 DEF IndInv, TypeOK
  <2>5. \A i \in Objects \ {own} : Blocks(i)' = Blocks(i) /\ fib'[i] = fib[i]
    BY <1>1, <2>1
  <2>6. Blocks(own)' = Parts(call[t])'
    BY <2>1, <2>3
  <2> QED
    BY <1>0, <1>1, <1>2, <1>3, <2>2, <2>4, <2>5, <2>6, GotoKeepsInv
    DEF Creating, Removing, Writing
<1>4. CASE heap' = heap /\ Return(t, NULL)
  BY <1>0, <1>1, <1>2, <1>4, SameMemory, ReturnKeepsInv DEF Creating, Removing, Writing
<1> QED BY <1>3, <1>4 DEF CreateRib

LEMMA LockKeepsInv ==
  ASSUME IndInv, NEW t \in Threads, write_lock(t, "lock", "scan")
  PROVE  IndInv'
<1>1. /\ call[t].pc = "lock" /\ writer = NULL /\ writer' = t /\ Goto(t, "scan")
      /\ UNCHANGED <<fib_list, heap, fib, readers>>
  BY DEF write_lock, At, Unlocked
<1>2. /\ Blocks(call[t].obj) = {"rib"} /\ Parts(call[t])' = {"rib"}
  BY <1>1, OwnObject DEF Creating, Parts, Goto, IndInv, TypeOK, Call
<1> QED BY <1>1, <1>2, SameMemory, GotoKeepsInv DEF Creating, Removing, Writing

LEMMA ScanKeepsInv ==
  ASSUME IndInv, NEW t \in Threads, Scan(t)
  PROVE  IndInv'
<1> DEFINE to == IF Exists(call[t].name) THEN "exit" ELSE "alloc_te"
<1>1. /\ call[t].pc = "scan" /\ Goto(t, to)
      /\ UNCHANGED <<fib_list, heap, fib, readers, writer>>
  BY DEF Scan, At, Locals
<1>2. to \in {"exit", "alloc_te"} /\ (to = "alloc_te" => Found(call[t].name) = {})
  BY DEF Exists
<1> HIDE DEF to
<1>3. /\ Blocks(call[t].obj) = {"rib"} /\ Parts(call[t])' = {"rib"}
  BY <1>1, <1>2, OwnObject DEF Creating, Writing, Parts, Goto, IndInv, TypeOK, Call
<1> QED BY <1>1, <1>2, <1>3, SameMemory, GotoKeepsInv DEF Creating, Removing, Writing

LEMMA AllocEntryKeepsInv ==
  ASSUME IndInv, NEW t \in Threads, AllocEntry(t)
  PROVE  IndInv'
<1>0. PICK own : own = call[t].obj
  OBVIOUS
<1>1. /\ call[t].pc = "alloc_te" /\ UNCHANGED <<fib_list, fib, readers, writer>>
      /\ \/ heap' = heap \cup Mine(t, {"te"}) /\ Goto(t, "alloc_fib")
         \/ Goto(t, "exit") /\ UNCHANGED heap
  BY DEF AllocEntry, Allocate, At, Locals
<1>2. /\ own \in Objects /\ Blocks(own) = {"rib"} /\ Found(call[t].name) = {}
  BY <1>0, <1>1, OwnObject DEF Creating, Writing, Parts, IndInv, ThreadOK
<1>3. CASE heap' = heap \cup Mine(t, {"te"}) /\ Goto(t, "alloc_fib")
  <2>1. /\ Blocks(own)' = {"rib", "te"}
        /\ \A i \in Objects : i # own => Blocks(i)' = Blocks(i)
    BY <1>0, <1>2, <1>3, Allocated DEF Kinds
  <2>2. heap' \subseteq Kinds \X Objects
    BY <1>0, <1>2, <1>3 DEF Mine, Kinds, IndInv, TypeOK
  <2>3. Parts(call[t])' = {"rib", "te"}
    BY <1>3 DEF Goto, Parts, IndInv, TypeOK, Call
  <2>4. fib' \in [Objects -> [name : Names \cup {NULL}, type : Types \cup {NULL}]]
    BY <1>1 DEF IndInv, TypeOK
  <2>5. \A i \in Objects \ {own} : Blocks(i)' = Blocks(i) /\ fib'[i] = fib[i]
    BY <1>1, <2>1
  <2>6. Blocks(own)' = Parts(call[t])'
    BY <2>1, <2>3
  <2> QED
    BY <1>0, <1>1, <1>2, <1>3, <2>2, <2>4, <2>5, <2>6, GotoKeepsInv
    DEF Creating, Removing, Writing
<1>4. CASE Goto(t, "exit") /\ UNCHANGED heap
  <2>1. Parts(call[t])' = {"rib"}
    BY <1>4 DEF Goto, Parts, IndInv, TypeOK, Call
  <2> QED
    BY <1>0, <1>1, <1>2, <1>4, <2>1, SameMemory, GotoKeepsInv
    DEF Creating, Removing, Writing
<1> QED BY <1>1, <1>3, <1>4

LEMMA AllocFibKeepsInv ==
  ASSUME IndInv, NEW t \in Threads, AllocFib(t)
  PROVE  IndInv'
<1>0. PICK own : own = call[t].obj
  OBVIOUS
<1>1. /\ call[t].pc = "alloc_fib" /\ UNCHANGED <<fib_list, readers, writer>>
      /\ fib' = IF heap' = heap THEN fib ELSE [fib EXCEPT ![own] = Given(t)]
      /\ \/ heap' = heap \cup Mine(t, {"fib"}) /\ Goto(t, "init_dataplane")
         \/ Goto(t, "free_te") /\ UNCHANGED heap
  BY <1>0 DEF AllocFib, Allocate, At
<1>2. /\ own \in Objects /\ Blocks(own) = {"rib", "te"} /\ Found(call[t].name) = {}
      /\ Given(t) \in [name : Names \cup {NULL}, type : Types \cup {NULL}]
  BY <1>0, <1>1, OwnObject DEF Creating, Writing, Parts, IndInv, ThreadOK, Given
<1>3. CASE heap' = heap \cup Mine(t, {"fib"}) /\ Goto(t, "init_dataplane")
  <2>1. /\ Blocks(own)' = {"rib", "te", "fib"}
        /\ \A i \in Objects : i # own => Blocks(i)' = Blocks(i)
    BY <1>0, <1>2, <1>3, Allocated DEF Kinds
  <2>2. heap' \subseteq Kinds \X Objects
    BY <1>0, <1>2, <1>3 DEF Mine, Kinds, IndInv, TypeOK
  <2>3. Parts(call[t])' = {"rib", "te", "fib"}
    BY <1>3 DEF Goto, Parts, IndInv, TypeOK, Call
  <2>4. heap' # heap
    <3>1. "fib" \in Blocks(own)' /\ "fib" \notin Blocks(own)
      BY <1>2, <2>1
    <3>2. <<"fib", own>> \in heap' /\ <<"fib", own>> \notin heap
      BY <3>1 DEF Blocks, Kinds
    <3> QED BY <3>2
  <2>5. /\ fib' \in [Objects -> [name : Names \cup {NULL}, type : Types \cup {NULL}]]
        /\ fib'[own] = Given(t) /\ \A i \in Objects : i # own => fib'[i] = fib[i]
    BY <1>1, <1>2, <2>4 DEF IndInv, TypeOK
  <2>6. \A i \in Objects \ {own} : Blocks(i)' = Blocks(i) /\ fib'[i] = fib[i]
    BY <2>1, <2>5
  <2>7. Blocks(own)' = Parts(call[t])'
    BY <2>1, <2>3
  <2> QED
    <3>1. /\ "alloc_fib" \in Creating \cup Removing
          /\ "init_dataplane" \in (Creating \cup Removing) \ {"create_rib"}
          /\ "init_dataplane" \in Creating /\ "alloc_fib" \in Creating
          /\ "init_dataplane" \in Writing /\ "alloc_fib" \in Writing
      BY DEF Creating, Removing, Writing
    <3> QED
      BY <1>0, <1>1, <1>2, <1>3, <2>2, <2>5, <2>6, <2>7, <3>1, GotoKeepsInv
<1>4. CASE Goto(t, "free_te") /\ UNCHANGED heap
  <2>1. Parts(call[t])' = {"rib", "te"}
    BY <1>4 DEF Goto, Parts, IndInv, TypeOK, Call
  <2> QED
    BY ZenonT(30), <1>0, <1>1, <1>2, <1>4, <2>1, SameMemory, GotoKeepsInv
    DEF Creating, Removing, Writing
<1> QED BY <1>1, <1>3, <1>4

LEMMA InitDataplaneKeepsInv ==
  ASSUME IndInv, NEW t \in Threads, init_dataplane(t)
  PROVE  IndInv'
<1>0. PICK own : own = call[t].obj
  OBVIOUS
<1>1. /\ call[t].pc = "init_dataplane" /\ UNCHANGED <<fib_list, fib, readers, writer>>
      /\ \/ call[t].type = "DUMMY" /\ Goto(t, "insert") /\ UNCHANGED heap
         \/ /\ call[t].type = "DIR24_8"
            /\ heap' = heap \cup Mine(t, {"dp"})
            /\ Goto(t, "insert")
         \/ Goto(t, "free_fib") /\ UNCHANGED heap
  BY DEF init_dataplane, Allocate, At, Locals
<1>2. /\ own \in Objects /\ Blocks(own) = {"rib", "te", "fib"}
      /\ Found(call[t].name) = {} /\ fib[own] = Given(t)
  BY <1>0, <1>1, OwnObject DEF Creating, Writing, Parts, IndInv, ThreadOK
<1>3. ASSUME Goto(t, "insert")
      PROVE  Parts(call[t])' = {"rib", "te", "fib"}
                               \cup (IF call[t].type = "DUMMY" THEN {} ELSE {"dp"})
  <2>1. call'[t].pc = "insert" /\ call'[t].obj = own
    BY <1>0, <1>3 DEF Goto, IndInv, TypeOK, Call
  <2>2. fib'[own].type = call[t].type
    BY <1>1, <1>2 DEF Given
  <2> QED BY <2>1, <2>2 DEF Parts, Whole
<1>4. CASE call[t].type = "DUMMY" /\ Goto(t, "insert") /\ UNCHANGED heap
  <2>1. Parts(call[t])' = Blocks(own)
    BY <1>2, <1>3, <1>4
  <2> QED
    BY ZenonT(30), <1>0, <1>1, <1>2, <1>4, <2>1, SameMemory, GotoKeepsInv
    DEF Creating, Removing, Writing
<1>5. CASE /\ call[t].type = "DIR24_8"
           /\ heap' = heap \cup Mine(t, {"dp"})
           /\ Goto(t, "insert")
  <2>1. /\ Blocks(own)' = {"rib", "te", "fib", "dp"}
        /\ \A i \in Objects : i # own => Blocks(i)' = Blocks(i)
    BY <1>0, <1>2, <1>5, Allocated DEF Kinds
  <2>2. heap' \subseteq Kinds \X Objects
    BY <1>0, <1>2, <1>5 DEF Mine, Kinds, IndInv, TypeOK
  <2>3. Blocks(own)' = Parts(call[t])'
    BY <1>3, <1>5, <2>1
  <2>4. fib' \in [Objects -> [name : Names \cup {NULL}, type : Types \cup {NULL}]]
    BY <1>1 DEF IndInv, TypeOK
  <2>5. \A i \in Objects \ {own} : Blocks(i)' = Blocks(i) /\ fib'[i] = fib[i]
    BY <1>1, <2>1
  <2> QED
    BY <1>0, <1>1, <1>2, <1>5, <2>2, <2>3, <2>4, <2>5, GotoKeepsInv
    DEF Creating, Removing, Writing
<1>6. CASE Goto(t, "free_fib") /\ UNCHANGED heap
  <2>1. Parts(call[t])' = {"rib", "te", "fib"}
    BY <1>6 DEF Goto, Parts, IndInv, TypeOK, Call
  <2> QED
    BY <1>0, <1>1, <1>2, <1>6, <2>1, SameMemory, GotoKeepsInv
    DEF Creating, Removing, Writing
<1> QED BY <1>1, <1>4, <1>5, <1>6

LEMMA InsertKeepsInv ==
  ASSUME IndInv, NEW t \in Threads, Insert(t)
  PROVE  IndInv'
<1>0. PICK own : own = call[t].obj
  OBVIOUS
<1>1. /\ call[t].pc = "insert" /\ fib_list' = Append(fib_list, own)
      /\ writer' = NULL /\ Return(t, own) /\ UNCHANGED <<heap, fib, readers>>
  BY <1>0 DEF Insert, At
<1>2. /\ own \in Objects \ Listed /\ own # NULL /\ writer = t
      /\ \A u \in Threads \ {t} : call[u].obj # own
      /\ Blocks(own) = Whole(own)
  BY <1>0, <1>1, OwnObject DEF Creating, Writing, Parts
<1>3. Found(call[t].name) = {} /\ fib[own].name = call[t].name
  <2>1. ThreadOK(t)
    BY DEF IndInv
  <2>2. Found(call[t].name) = {} /\ fib[own] = Given(t)
    BY <1>0, <1>1, <2>1 DEF ThreadOK
  <2> QED BY <2>2 DEF Given
<1>4. /\ call' \in [Threads -> Call] /\ ret' \in [Threads -> Objects \cup {NULL}]
      /\ \A u \in Threads \ {t} : call'[u] = call[u]
      /\ call'[t] = Idle
  BY <1>1, <1>2 DEF Return, IndInv, TypeOK, Call, Idle
<1>5. /\ fib_list' \in Seq(Objects) /\ Listed' = Listed \cup {own}
      /\ Len(fib_list') = Len(fib_list) + 1 /\ Len(fib_list) \in Nat
      /\ \A n \in 1..Len(fib_list) : fib_list'[n] = fib_list[n] /\ fib_list[n] \in Listed
      /\ fib_list'[Len(fib_list) + 1] = own
      /\ DOMAIN fib_list' = 1..(Len(fib_list) + 1) /\ DOMAIN fib_list = 1..Len(fib_list)
  BY SMTT(30), <1>1, <1>2, AppendRange DEF IndInv, TypeOK, Listed, Range
<1>6. TypeOK'
  BY <1>1, <1>4, <1>5 DEF IndInv, TypeOK
<1>7. \A i : Blocks(i)' = Blocks(i) /\ fib'[i] = fib[i] /\ Whole(i)' = Whole(i)
  BY <1>1 DEF Blocks, Whole
<1>8. \A u \in Threads : ThreadOK(u)'
  <2>1. ThreadOK(t)'
    BY <1>1, <1>2, <1>4, RegistryAssumption
    DEF ThreadOK, Idle, Creating, Removing, Writing
  <2>2. \A u \in Threads \ {t} : ThreadOK(u)'
    BY ZenonT(30), <1>1, <1>2, <1>4, <1>5, <1>7, RegistryAssumption, OthersKept
  <2> QED BY <2>1, <2>2
<1>9. OwnObjects'
  BY <1>4 DEF IndInv, OwnObjects, Idle
<1>10. OnceListed'
  BY <1>2, <1>5 DEF IndInv, OnceListed
<1>11. NamesUnique'
  <2>1. \A n \in 1..Len(fib_list) : Stored[fib[fib_list[n]].name] # fib[own].name
    BY <1>3, <1>5 DEF Found
  <2>2. ASSUME NEW m \in DOMAIN fib_list', NEW n \in DOMAIN fib_list',
               fib[fib_list'[m]].name = fib[fib_list'[n]].name,
               Stored[fib[fib_list'[m]].name] = fib[fib_list'[m]].name
        PROVE  m = n
    <3>1. CASE m \in 1..Len(fib_list) /\ n \in 1..Len(fib_list)
      BY <1>5, <2>2, <3>1 DEF IndInv, NamesUnique
    <3>2. CASE m = Len(fib_list) + 1 \/ n = Len(fib_list) + 1
      BY <1>5, <2>1, <2>2, <3>2
    <3> QED BY <1>5, <3>1, <3>2
  <2> QED BY <1>1, <2>2 DEF NamesUnique
<1>12. MemoryAccounted'
  <2>1. \A i \in Listed' : Blocks(i)' = Whole(i)'
    BY <1>2, <1>5, <1>7 DEF IndInv, MemoryAccounted
  <2>2. ASSUME NEW i \in Objects \ Listed', Blocks(i)' # {}
        PROVE  \E u \in Threads : Busy(u)' /\ call'[u].obj = i
    <3>1. PICK u \in Threads : Busy(u) /\ call[u].obj = i
      BY <1>5, <1>7, <2>2 DEF IndInv, MemoryAccounted
    <3>2. u # t
      BY <1>0, <1>5, <2>2, <3>1
    <3> QED BY <1>4, <3>1, <3>2 DEF Busy, At
  <2> QED BY <2>1, <2>2 DEF MemoryAccounted
<1> QED BY <1>6, <1>8, <1>9, <1>10, <1>11, <1>12 DEF IndInv

\* A release on the way of a creation that fails, or of rte_fib_free.
LEMMA ReleaseKeepsInv ==
  ASSUME IndInv, NEW t \in Threads, NEW from, NEW kind \in Kinds, NEW to,
         Release(t, from, kind, to),
         \/ from = "free_fib" /\ kind = "fib" /\ to = "free_te"
         \/ from = "free_te" /\ kind = "te" /\ to = "exit"
         \/ from = "free_dataplane" /\ kind = "dp" /\ to = "free_rib"
         \/ from = "free_rib" /\ kind = "rib" /\ to = "free_fib_te"
  PROVE  IndInv'
<1>0. PICK own : own = call[t].obj
  OBVIOUS
<1>1. /\ call[t].pc = from /\ Goto(t, to) /\ heap' = heap \ Mine(t, {kind})
      /\ fib' = IF kind = "fib" THEN [fib EXCEPT ![own] = Blank] ELSE fib
      /\ UNCHANGED <<fib_list, readers, writer>>
  BY <1>0 DEF Release, At
<1>2. own \in Objects /\ Blocks(own) = Parts(call[t])
  BY <1>0, <1>1, OwnObject DEF Creating, Removing, Writing
<1>3. /\ Blocks(own)' = Blocks(own) \ {kind}
      /\ \A i \in Objects : i # own => Blocks(i)' = Blocks(i)
  BY <1>0, <1>1, Released
<1>4. heap' \subseteq Kinds \X Objects
  BY <1>1 DEF IndInv, TypeOK
<1>5. /\ fib' \in [Objects -> [name : Names \cup {NULL}, type : Types \cup {NULL}]]
      /\ \A i \in Objects : i # own => fib'[i] = fib[i]
  BY <1>1, <1>2 DEF IndInv, TypeOK, Blank
<1>6. Parts(call[t])' = Parts(call[t]) \ {kind}
  <2>1. call'[t].pc = to
    BY <1>1 DEF Goto, IndInv, TypeOK, Call
  <2> QED BY <1>1, <2>1 DEF Parts, Whole
<1>7. Blocks(own)' = Parts(call[t])'
  BY <1>2, <1>3, <1>6
<1>8. \A i \in Objects \ {own} : Blocks(i)' = Blocks(i) /\ fib'[i] = fib[i]
  BY <1>3, <1>5
<1>9. /\ call[t].pc \in Creating \cup Removing
      /\ to \in (Creating \cup Removing) \ {"create_rib"}
      /\ to \in Creating <=> call[t].pc \in Creating
      /\ to \in Writing <=> call[t].pc \in Writing
      /\ to \notin {"alloc_te", "alloc_fib", "init_dataplane", "insert"}
  BY <1>1 DEF Creating, Removing, Writing
<1> QED BY <1>0, <1>1, <1>4, <1>5, <1>7, <1>8, <1>9, GotoKeepsInv

LEMMA ExitKeepsInv ==
  ASSUME IndInv, NEW t \in Threads, Exit(t)
  PROVE  IndInv'
<1>1. /\ call[t].pc = "exit" /\ writer' = NULL /\ Goto(t, "exit_rib")
      /\ UNCHANGED <<fib_list, heap, fib, readers>>
  BY DEF Exit, At
<1>2. /\ Blocks(call[t].obj) = {"rib"} /\ Parts(call[t])' = {"rib"} /\ writer = t
  BY <1>1, OwnObject DEF Creating, Writing, Parts, Goto, IndInv, TypeOK, Call
<1> QED BY <1>1, <1>2, SameMemory, GotoKeepsInv DEF Creating, Removing, Writing

LEMMA ExitRibKeepsInv ==
  ASSUME IndInv, NEW t \in Threads, ExitRib(t)
  PROVE  IndInv'
<1>0. PICK own : own = call[t].obj
  OBVIOUS
<1>1. /\ call[t].pc = "exit_rib" /\ Return(t, NULL) /\ heap' = heap \ Mine(t, {"rib"})
      /\ UNCHANGED <<fib_list, fib, readers, writer>>
  BY DEF ExitRib, At, Locals
<1>2. own \in Objects /\ Blocks(own) = {"rib"}
  BY <1>0, <1>1, OwnObject DEF Creating, Parts
<1>3. /\ Blocks(own)' = {}
      /\ \A i \in Objects : i # own => Blocks(i)' = Blocks(i)
  BY <1>0, <1>1, <1>2, Released DEF Kinds
<1>4. /\ heap' \subseteq Kinds \X Objects
      /\ fib' \in [Objects -> [name : Names \cup {NULL}, type : Types \cup {NULL}]]
  BY <1>1 DEF IndInv, TypeOK
<1>5. \A i \in Objects \ {own} : Blocks(i)' = Blocks(i) /\ fib'[i] = fib[i]
  BY <1>1, <1>3
<1> QED
  BY <1>0, <1>1, <1>3, <1>4, <1>5, ReturnKeepsInv DEF Creating, Removing, Writing
-----------------------------------------------------------------------------
(* rte_fib_find_existing *)

LEMMA BeginFindKeepsInv ==
  ASSUME IndInv, NEW t \in Threads, rte_fib_find_existing(t)
  PROVE  IndInv'
<1>1. PICK name \in Names : call' = [call EXCEPT ![t].pc = "find", ![t].name = name]
  BY DEF rte_fib_find_existing
<1>2. /\ call[t].pc = "idle" /\ call[t].obj = NULL /\ writer # t /\ call[t] \in Call
      /\ UNCHANGED <<fib_list, heap, fib, writer, readers>>
      /\ ret' = [ret EXCEPT ![t] = NULL]
  BY DEF rte_fib_find_existing, At, Locals, IndInv, TypeOK, ThreadOK, Writing
<1>3. /\ call' \in [Threads -> Call]
      /\ \A u \in Threads \ {t} : call'[u] = call[u]
      /\ call'[t].pc = "find" /\ call'[t].obj = NULL
  BY <1>1, <1>2 DEF IndInv, TypeOK, Call
<1>4. TypeOK'
  BY <1>2, <1>3 DEF IndInv, TypeOK
<1>5. Private(t, NULL)
  BY <1>2, <1>3, SameMemory DEF Private
<1>6. ThreadOK(t)'
  BY <1>2, <1>3 DEF ThreadOK, Creating, Removing, Writing
<1> QED BY <1>4, <1>5, <1>6, PrivateKeepsInv

LEMMA ReadLockKeepsInv ==
  ASSUME IndInv, NEW t \in Threads, read_lock(t)
  PROVE  IndInv'
<1>1. /\ call[t].pc = "find" /\ Goto(t, "search") /\ readers' = readers \cup {t}
      /\ UNCHANGED <<fib_list, heap, fib, writer>>
  BY DEF read_lock, At
<1>2. call[t].obj = NULL /\ writer # t /\ call[t] \in Call
  BY <1>1 DEF IndInv, TypeOK, ThreadOK, Writing
<1>3. /\ call' \in [Threads -> Call] /\ ret' = ret
      /\ \A u \in Threads \ {t} : call'[u] = call[u]
      /\ call'[t].pc = "search" /\ call'[t].obj = NULL
  BY <1>1, <1>2 DEF Goto, IndInv, TypeOK, Call
<1>4. TypeOK'
  BY <1>1, <1>3 DEF IndInv, TypeOK
<1>5. Private(t, NULL)
  BY <1>1, <1>2, <1>3, SameMemory DEF Private
<1>6. ThreadOK(t)'
  BY <1>1, <1>2, <1>3 DEF ThreadOK, Creating, Removing, Writing
<1> QED BY <1>4, <1>5, <1>6, PrivateKeepsInv

LEMMA SearchKeepsInv ==
  ASSUME IndInv, NEW t \in Threads, Search(t)
  PROVE  IndInv'
<1> DEFINE first == SelectInSeq(fib_list, LAMBDA i : i \in Found(call[t].name))
<1>1. /\ call[t].pc = "search" /\ readers' = readers \ {t}
      /\ Return(t, IF first = 0 THEN NULL ELSE fib_list[first])
      /\ UNCHANGED <<fib_list, heap, fib, writer>>
  BY DEF Search, At
<1>2. first \in 1..Len(fib_list) \cup {0}
  <2> DEFINE I == {n \in 1..Len(fib_list) : fib_list[n] \in Found(call[t].name)}
  <2>1. first = IF I # {} THEN Min(I) ELSE 0
    BY DEF SelectInSeq
  <2>2. Len(fib_list) \in Nat /\ I \subseteq 1..Len(fib_list)
    BY DEF IndInv, TypeOK
  <2> HIDE DEF I, first
  <2>3. I \subseteq Nat
    BY <2>2
  <2> QED BY <2>1, <2>2, <2>3, MinIsIn
<1> HIDE DEF first
<1>3. call[t].obj = NULL /\ writer # t
  BY <1>1 DEF IndInv, ThreadOK, Writing
<1>4. /\ call' \in [Threads -> Call] /\ ret' \in [Threads -> Objects \cup {NULL}]
      /\ \A u \in Threads \ {t} : call'[u] = call[u]
      /\ call'[t] = Idle
  BY <1>1, <1>2 DEF Return, IndInv, TypeOK, Call, Idle
<1>5. TypeOK'
  BY <1>1, <1>4 DEF IndInv, TypeOK
<1>6. Private(t, NULL)
  BY <1>1, <1>3, <1>4, SameMemory DEF Private, Idle
<1>7. ThreadOK(t)'
  BY <1>1, <1>3, <1>4 DEF ThreadOK, Creating, Removing, Writing, Idle
<1> QED BY <1>5, <1>6, <1>7, PrivateKeepsInv

-----------------------------------------------------------------------------
(* rte_fib_free *)

LEMMA BeginFreeKeepsInv ==
  ASSUME IndInv, NEW t \in Threads, rte_fib_free(t)
  PROVE  IndInv'
<1>1. PICK i \in Listed :
        /\ \A u \in Threads : call[u].obj # i
        /\ call' = [call EXCEPT ![t].pc = "free", ![t].obj = i]
  BY DEF rte_fib_free
<1>2. /\ call[t].pc = "idle" /\ call[t].obj = NULL /\ writer # t /\ call[t] \in Call
      /\ UNCHANGED <<fib_list, heap, fib, writer, readers>>
      /\ ret' = [ret EXCEPT ![t] = NULL]
  BY DEF rte_fib_free, At, Locals, IndInv, TypeOK, ThreadOK, Writing
<1>3. i \in Objects /\ i # NULL /\ Listed' = Listed
  BY <1>2, ListedAreObjects, RegistryAssumption DEF IndInv, TypeOK, Listed
<1>4. /\ call' \in [Threads -> Call]
      /\ \A u \in Threads \ {t} : call'[u] = call[u]
      /\ call'[t].pc = "free" /\ call'[t].obj = i
  BY <1>1, <1>2, <1>3 DEF IndInv, TypeOK, Call
<1>5. TypeOK'
  BY <1>2, <1>4 DEF IndInv, TypeOK
<1>6. Private(t, NULL)
  BY <1>1, <1>2, <1>3, <1>4, SameMemory DEF Private
<1>7. Blocks(i)' = Whole(i)'
  BY <1>2, SameMemory DEF Whole, IndInv, MemoryAccounted
<1>8. Blocks(call[t].obj)' = Parts(call[t])'
  BY <1>4, <1>7 DEF Parts, Blocks
<1>9. ThreadOK(t)'
  BY <1>2, <1>3, <1>4, <1>8 DEF ThreadOK, Creating, Removing, Writing
<1> QED BY <1>5, <1>6, <1>9, PrivateKeepsInv

LEMMA FreeLockKeepsInv ==
  ASSUME IndInv, NEW t \in Threads, write_lock(t, "free", "unlist")
  PROVE  IndInv'
<1>1. /\ call[t].pc = "free" /\ writer = NULL /\ writer' = t /\ Goto(t, "unlist")
      /\ UNCHANGED <<fib_list, heap, fib, readers>>
  BY DEF write_lock, At, Unlocked
<1>2. PICK i : i = call[t].obj
  OBVIOUS
<1>3. /\ i \in Listed /\ i \in Objects /\ i # NULL /\ call[t] \in Call
      /\ Blocks(i) = Parts(call[t]) /\ \A u \in Threads \ {t} : call[u].obj # i
  BY <1>1, <1>2, ListedAreObjects, RegistryAssumption
  DEF IndInv, TypeOK, ThreadOK, OwnObjects
<1>4. /\ call' \in [Threads -> Call] /\ ret' = ret
      /\ \A u \in Threads \ {t} : call'[u] = call[u]
      /\ call'[t].pc = "unlist" /\ call'[t].obj = i
  BY <1>1, <1>2, <1>3 DEF Goto, IndInv, TypeOK, Call
<1>5. TypeOK'
  BY <1>1, <1>4 DEF IndInv, TypeOK
<1>6. Private(t, NULL)
  BY <1>1, <1>2, <1>3, <1>4, RegistryAssumption, SameMemory DEF Private
<1>7. Blocks(call[t].obj)' = Parts(call[t])' /\ i \in Listed'
  BY <1>1, <1>2, <1>3, <1>4 DEF Parts, Blocks, Whole, Listed
<1>8. ThreadOK(t)'
  BY <1>1, <1>3, <1>4, <1>7 DEF ThreadOK, Creating, Removing, Writing
<1> QED BY <1>5, <1>6, <1>8, PrivateKeepsInv
LEMMA UnlistKeepsInv ==
  ASSUME IndInv, NEW t \in Threads, Unlist(t)
  PROVE  IndInv'
<1>0. PICK own : own = call[t].obj
  OBVIOUS
<1>1. /\ call[t].pc = "unlist" /\ writer' = NULL /\ Goto(t, "free_dataplane")
      /\ UNCHANGED <<heap, fib, readers>>
  BY DEF Unlist, At
<1>2. PICK k \in 1..Len(fib_list) : /\ fib_list[k] = own
                                   /\ fib_list' = RemoveAt(fib_list, k)
  BY <1>0 DEF Unlist, IndInv, TypeOK
<1>3. /\ own \in Listed /\ own \in Objects /\ own # NULL /\ writer = t
      /\ \A u \in Threads \ {t} : call[u].obj # own
      /\ Blocks(own) = Whole(own) /\ call[t] \in Call
  BY <1>0, <1>1, ListedAreObjects, RegistryAssumption
  DEF IndInv, TypeOK, ThreadOK, OwnObjects, Writing, Parts
<1>4. /\ call' \in [Threads -> Call] /\ ret' = ret
      /\ \A u \in Threads \ {t} : call'[u] = call[u]
      /\ call'[t].pc = "free_dataplane" /\ call'[t].obj = own
  BY <1>0, <1>1, <1>3 DEF Goto, IndInv, TypeOK, Call
<1>5. fib_list' \in Seq(Objects) /\ Listed' = Listed \ {own} /\ OnceListed'
  <2>1. fib_list \in Seq(Objects) /\ \A m, n \in DOMAIN fib_list :
                                       fib_list[m] = fib_list[n] => m = n
    BY DEF IndInv, TypeOK, OnceListed
  <2> QED BY <1>2, <2>1, RemoveAtRange DEF Listed, OnceListed
<1>6. TypeOK'
  BY <1>1, <1>4, <1>5 DEF IndInv, TypeOK
<1>7. \A i : Blocks(i)' = Blocks(i) /\ fib'[i] = fib[i] /\ Whole(i)' = Whole(i)
  BY <1>1 DEF Blocks, Whole
<1>8. \A u \in Threads : ThreadOK(u)'
  <2>1. Blocks(call[t].obj)' = Parts(call[t])'
    BY <1>3, <1>4, <1>7 DEF Parts, Blocks, Whole
  <2>2. ThreadOK(t)'
    BY <1>1, <1>3, <1>4, <1>5, <2>1, RegistryAssumption
    DEF ThreadOK, Creating, Removing, Writing
  <2>3. \A u \in Threads \ {t} : ThreadOK(u)'
    <3>1. \A u \in Threads \ {t} :
            /\ call'[u] = call[u]
            /\ (writer' = u) <=> (writer = u)
            /\ (call[u].obj # NULL) => (call[u].obj # own)
      BY <1>1, <1>3, <1>4, RegistryAssumption
    <3>2. \A i \in Objects \ {own} :
            Blocks(i)' = Blocks(i) /\ fib'[i] = fib[i] /\ (i \in Listed' <=> i \in Listed)
      BY <1>5, <1>7
    <3>3. writer = t \/ \A n \in Names : Found(n) = {} => Found(n)' = {}
      BY <1>3
    <3> QED BY ONLY IndInv, <3>1, <3>2, <3>3, OthersKept
  <2> QED BY <2>2, <2>3
<1>9. OwnObjects'
  BY <1>0, <1>4 DEF IndInv, OwnObjects
<1>10. NamesUnique'
  <2>1. \A n \in DOMAIN fib_list' : \E j \in DOMAIN fib_list : fib_list'[n] = fib_list[j]
    BY <1>5 DEF Listed, Range
  <2>2. ASSUME NEW m \in DOMAIN fib_list', NEW n \in DOMAIN fib_list',
               fib[fib_list'[m]].name = fib[fib_list'[n]].name,
               Stored[fib[fib_list'[m]].name] = fib[fib_list'[m]].name
        PROVE  m = n
    BY <1>5, <2>1, <2>2 DEF IndInv, NamesUnique, OnceListed
  <2> QED BY <1>1, <2>2 DEF NamesUnique
<1>11. MemoryAccounted'
  <2>1. \A i \in Listed' : Blocks(i)' = Whole(i)'
    BY <1>5, <1>7 DEF IndInv, MemoryAccounted
  <2>2. ASSUME NEW i \in Objects \ Listed', Blocks(i)' # {}
        PROVE  \E u \in Threads : Busy(u)' /\ call'[u].obj = i
    <3>1. CASE i = own
      BY <1>4, <3>1 DEF Busy, At
    <3>2. CASE i # own
      <4>1. PICK u \in Threads : Busy(u) /\ call[u].obj = i
        BY <1>5, <1>7, <2>2, <3>2 DEF IndInv, MemoryAccounted
      <4>2. u # t
        BY <1>0, <3>2, <4>1
      <4> QED BY <1>4, <4>1, <4>2 DEF Busy, At
    <3> QED BY <3>1, <3>2
  <2> QED BY <2>1, <2>2 DEF MemoryAccounted
<1> QED BY <1>5, <1>6, <1>8, <1>9, <1>10, <1>11 DEF IndInv

LEMMA FreeObjectKeepsInv ==
  ASSUME IndInv, NEW t \in Threads, FreeObject(t)
  PROVE  IndInv'
<1>0. PICK own : own = call[t].obj
  OBVIOUS
<1>1. /\ call[t].pc = "free_fib_te" /\ Return(t, NULL)
      /\ heap' = heap \ Mine(t, {"fib", "te"}) /\ fib' = [fib EXCEPT ![own] = Blank]
      /\ UNCHANGED <<fib_list, readers, writer>>
  BY <1>0 DEF FreeObject, At
<1>2. own \in Objects /\ Blocks(own) = {"te", "fib"}
  BY <1>0, <1>1, OwnObject DEF Removing, Parts
<1>3. /\ Blocks(own)' = {}
      /\ \A i \in Objects : i # own => Blocks(i)' = Blocks(i)
  BY <1>0, <1>1, <1>2, Released DEF Kinds
<1>4. /\ heap' \subseteq Kinds \X Objects
      /\ fib' \in [Objects -> [name : Names \cup {NULL}, type : Types \cup {NULL}]]
  BY <1>1 DEF IndInv, TypeOK, Blank
<1>5. \A i \in Objects \ {own} : Blocks(i)' = Blocks(i) /\ fib'[i] = fib[i]
  BY <1>1, <1>2, <1>3 DEF IndInv, TypeOK
<1> QED
  BY <1>0, <1>1, <1>3, <1>4, <1>5, ReturnKeepsInv DEF Creating, Removing, Writing

-----------------------------------------------------------------------------
(* The theorems *)

LEMMA InitEstablishesInv == Init => IndInv
<1> SUFFICES ASSUME Init
             PROVE  IndInv
  OBVIOUS
<1>1. TypeOK
  BY DEF Init, TypeOK, Idle, Call, Blank
<1>2. Listed = {} /\ DOMAIN fib_list = {} /\ \A i \in Objects : Blocks(i) = {}
  BY DEF Init, Listed, Range, Blocks
<1>3. \A t \in Threads : ThreadOK(t)
  BY RegistryAssumption DEF Init, Idle, ThreadOK, Creating, Removing, Writing
<1> QED
  BY <1>1, <1>2, <1>3
  DEF IndInv, Init, Idle, OwnObjects, OnceListed, NamesUnique, MemoryAccounted

LEMMA StepKeepsInv ==
  ASSUME IndInv, NEW t \in Threads, Step(t)
  PROVE  IndInv'
<1>1. ASSUME Unwind(t)
      PROVE  IndInv'
  BY <1>1, ReleaseKeepsInv DEF Unwind, Kinds
<1>2. ASSUME free_dataplane(t)
      PROVE  IndInv'
  BY <1>2, ReleaseKeepsInv DEF free_dataplane, Kinds
<1>3. ASSUME FreeRib(t)
      PROVE  IndInv'
  BY <1>3, ReleaseKeepsInv DEF FreeRib, Kinds
<1>4. ASSUME \/ CreateRib(t) \/ write_lock(t, "lock", "scan") \/ Scan(t)
             \/ AllocEntry(t) \/ AllocFib(t) \/ init_dataplane(t) \/ Insert(t)
             \/ Exit(t) \/ ExitRib(t)
      PROVE  IndInv'
  BY <1>4, CreateRibKeepsInv, LockKeepsInv, ScanKeepsInv, AllocEntryKeepsInv,
     AllocFibKeepsInv, InitDataplaneKeepsInv, InsertKeepsInv, ExitKeepsInv,
     ExitRibKeepsInv
<1>5. ASSUME \/ read_lock(t) \/ Search(t)
             \/ write_lock(t, "free", "unlist") \/ Unlist(t) \/ FreeObject(t)
      PROVE  IndInv'
  BY <1>5, ReadLockKeepsInv, SearchKeepsInv, FreeLockKeepsInv, UnlistKeepsInv,
     FreeObjectKeepsInv
<1> QED BY <1>1, <1>2, <1>3, <1>4, <1>5 DEF Step

LEMMA NextKeepsInv == IndInv /\ [Next]_vars => IndInv'
<1> SUFFICES ASSUME IndInv, [Next]_vars
             PROVE  IndInv'
  OBVIOUS
<1>1. ASSUME NEW t \in Threads, Begin(t)
      PROVE  IndInv'
  BY <1>1, BeginCreateKeepsInv, BeginFindKeepsInv, BeginFreeKeepsInv DEF Begin
<1>2. ASSUME NEW t \in Threads, Step(t)
      PROVE  IndInv'
  BY <1>2, StepKeepsInv
<1>3. CASE UNCHANGED vars
  <2>1. /\ UNCHANGED <<fib_list, heap, fib, writer, readers, call, ret>>
        /\ Listed' = Listed
        /\ \A i : Blocks(i)' = Blocks(i) /\ Whole(i)' = Whole(i)
    BY <1>3 DEF vars, Listed, Blocks, Whole
  <2>2. TypeOK' /\ OwnObjects' /\ OnceListed' /\ NamesUnique'
    BY <2>1 DEF IndInv, TypeOK, OwnObjects, OnceListed, NamesUnique
  <2>3. MemoryAccounted'
    BY <2>1 DEF IndInv, MemoryAccounted, Busy, At
  <2>4. ASSUME NEW t \in Threads
        PROVE  ThreadOK(t)'
    <3>1. /\ Found(call[t].name)' = Found(call[t].name) /\ Given(t)' = Given(t)
          /\ Parts(call[t])' = Parts(call[t]) /\ Blocks(call[t].obj)' = Blocks(call[t].obj)
      BY <2>1 DEF Found, Given, Parts, Blocks, Whole
    <3> QED BY <2>1, <3>1 DEF IndInv, ThreadOK
  <2> QED BY <2>2, <2>3, <2>4 DEF IndInv
<1> QED BY <1>1, <1>2, <1>3 DEF Next

LEMMA InvHolds == Spec => []IndInv
<1> QED BY InitEstablishesInv, NextKeepsInv, PTL DEF Spec

\* Every variable keeps its type, whatever the threads call and whatever fails.
THEOREM TypeCorrect == Spec => []TypeOK
<1>1. IndInv => TypeOK
  BY DEF IndInv
<1> QED BY <1>1, InvHolds, PTL

\* For any number of threads, objects and names, no two objects of the list have
\* the same name, unless it was cut when it was stored: the search and the
\* insertion are under one lock (rte_fib_create).
THEOREM NamesStayUnique == Spec => []NamesUnique
<1>1. IndInv => NamesUnique
  BY DEF IndInv
<1> QED BY <1>1, InvHolds, PTL

\* Whichever allocation fails, in whichever interleaving, every block is of an
\* object on the list, which has all of its blocks, or of a running call.
THEOREM NoMemoryLost == Spec => []MemoryAccounted
<1>1. IndInv => MemoryAccounted
  BY DEF IndInv
<1> QED BY <1>1, InvHolds, PTL
=============================================================================
