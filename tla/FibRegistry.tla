----------------------------- MODULE FibRegistry ----------------------------
(***************************************************************************)
(* The named IPv4 fib objects of rte_fib.c, which any thread may create,   *)
(* find and free.  The list of objects is guarded by the lock of DPDK's    *)
(* tail queues, but the RIB of an object is created before the lock is     *)
(* taken and freed after it is released: DPDK's RIBs are on a list of      *)
(* their own, under the same lock, which is not recursive.                 *)
(*                                                                         *)
(* Any allocation may fail.  `heap' is what is allocated, by kind and by   *)
(* the object it is for.                                                   *)
(***************************************************************************)
EXTENDS SequencesExt

CONSTANTS
  Threads,
  Objects,  \* where objects can be: what the allocator may return
  Names,    \* names callers pass
  Stored,   \* Stored[n]: what RTE_FIB_NAMESIZE bytes hold of n
  Types,    \* data planes callers ask for: "DUMMY", "DIR24_8"
  NULL      \* no object, no thread, no name

ASSUME RegistryAssumption ==
  /\ Stored \in [Names -> Names]
  /\ NULL \notin Threads \cup Objects \cup Names
  /\ Types \subseteq {"DUMMY", "DIR24_8"}

VARIABLES
  fib_list,  \* rte_fib_tailq, the objects in the order of their creation
  heap,      \* pairs of a kind of block and the object it belongs to
  fib,       \* the name and the type of each object, of no account while it is free
  writer,    \* the thread that holds the lock to write, or NULL
  readers,   \* the threads that hold it to read
  call,      \* the running call of each thread
  ret        \* what its last call returned, until it begins another

vars == <<fib_list, heap, fib, writer, readers, call, ret>>

Kinds == {"rib", "te", "fib", "dp"}

\* The blocks of a complete object; the dummy data plane is the object itself.
Whole(i) == {"rib", "te", "fib"} \cup (IF fib[i].type = "DUMMY" THEN {} ELSE {"dp"})
Blocks(i) == {k \in Kinds : <<k, i>> \in heap}

Listed == Range(fib_list)

\* strncmp compares the whole name with the one that was stored.
Found(name) == {i \in Listed : Stored[fib[i].name] = name}

Unlocked == writer = NULL /\ readers = {}

-----------------------------------------------------------------------------
(* Calls *)

Blank == [name |-> NULL, type |-> NULL]
Idle == [pc |-> "idle", name |-> NULL, type |-> NULL, obj |-> NULL]

At(t, pc) == call[t].pc = pc
Goto(t, pc) == call' = [call EXCEPT ![t].pc = pc] /\ UNCHANGED ret

Return(t, answer) ==
  /\ call' = [call EXCEPT ![t] = Idle]
  /\ ret' = [ret EXCEPT ![t] = answer]

Mine(t, kinds) == {<<k, call[t].obj>> : k \in kinds}
Given(t) == [name |-> call[t].name, type |-> call[t].type]

Busy(t) == ~At(t, "idle")

Init ==
  /\ fib_list = <<>>
  /\ heap = {}
  /\ fib = [i \in Objects |-> Blank]
  /\ writer = NULL
  /\ readers = {}
  /\ call = [t \in Threads |-> Idle]
  /\ ret = [t \in Threads |-> NULL]

write_lock(t, from, to) ==
  /\ At(t, from)
  /\ Unlocked
  /\ writer' = t
  /\ Goto(t, to)
  /\ UNCHANGED <<fib_list, heap, fib, readers>>

Locals == <<fib_list, fib, writer, readers>>

\* An allocation that may fail, and the label where the error path starts.
Allocate(t, from, kind, to, failed) ==
  /\ At(t, from)
  /\ \/ heap' = heap \cup Mine(t, {kind}) /\ Goto(t, to)
     \/ Goto(t, failed) /\ UNCHANGED heap

Release(t, from, kind, to) ==
  /\ At(t, from)
  /\ heap' = heap \ Mine(t, {kind})
  /\ fib' = IF kind = "fib" THEN [fib EXCEPT ![call[t].obj] = Blank] ELSE fib
  /\ Goto(t, to)
  /\ UNCHANGED <<fib_list, writer, readers>>

-----------------------------------------------------------------------------
(* rte_fib_create *)

\* Nothing has been allocated at i, and no call is about to.
Fresh(i) ==
  /\ Blocks(i) = {}
  /\ \A t \in Threads : call[t].obj # i

rte_fib_create(t) ==
  /\ At(t, "idle")
  /\ \E name \in Names, type \in Types, i \in {j \in Objects : Fresh(j)} :
       call' = [call EXCEPT ![t] =
                  [pc |-> "create_rib", name |-> name, type |-> type, obj |-> i]]
  /\ ret' = [ret EXCEPT ![t] = NULL]
  /\ UNCHANGED <<Locals, heap>>

\* rte_rib_create may refuse for any reason; fib_create relies on none.
CreateRib(t) ==
  /\ At(t, "create_rib")
  /\ Unlocked
  /\ \/ heap' = heap \cup Mine(t, {"rib"}) /\ Goto(t, "lock")
     \/ Return(t, NULL) /\ UNCHANGED heap
  /\ UNCHANGED Locals

\* Mutant of Exists: the list is not searched.
ExistsNever(name) == FALSE
Exists(name) == Found(name) # {}

Scan(t) ==
  /\ At(t, "scan")
  /\ Goto(t, IF Exists(call[t].name) THEN "exit" ELSE "alloc_te")
  /\ UNCHANGED <<Locals, heap>>

AllocEntry(t) == Allocate(t, "alloc_te", "te", "alloc_fib", "exit") /\ UNCHANGED Locals

AllocFib(t) ==
  /\ Allocate(t, "alloc_fib", "fib", "init_dataplane", "free_te")
  /\ fib' = IF heap' = heap THEN fib ELSE [fib EXCEPT ![call[t].obj] = Given(t)]
  /\ UNCHANGED <<fib_list, writer, readers>>

init_dataplane(t) ==
  /\ \/ /\ call[t].type = "DUMMY"
        /\ At(t, "init_dataplane")
        /\ Goto(t, "insert")
        /\ UNCHANGED heap
     \/ /\ call[t].type = "DIR24_8"
        /\ Allocate(t, "init_dataplane", "dp", "insert", "free_fib")
  /\ UNCHANGED Locals

Insert(t) ==
  /\ At(t, "insert")
  /\ fib_list' = Append(fib_list, call[t].obj)
  /\ writer' = NULL
  /\ Return(t, call[t].obj)
  /\ UNCHANGED <<heap, fib, readers>>

\* Mutant of Unwind: the entry of the list is not freed.
UnwindToExit(t) ==
  Release(t, "free_fib", "fib", "exit") \/ Release(t, "free_te", "te", "exit")
Unwind(t) ==
  Release(t, "free_fib", "fib", "free_te") \/ Release(t, "free_te", "te", "exit")

\* Mutant of Exit: the RIB is freed under the lock.
ExitLocked(t) == At(t, "exit") /\ Goto(t, "exit_rib") /\ UNCHANGED <<Locals, heap>>
Exit(t) ==
  /\ At(t, "exit")
  /\ writer' = NULL
  /\ Goto(t, "exit_rib")
  /\ UNCHANGED <<fib_list, heap, fib, readers>>

ExitRib(t) ==
  /\ At(t, "exit_rib")
  /\ Unlocked
  /\ heap' = heap \ Mine(t, {"rib"})
  /\ Return(t, NULL)
  /\ UNCHANGED Locals

-----------------------------------------------------------------------------
(* rte_fib_find_existing *)

rte_fib_find_existing(t) ==
  /\ At(t, "idle")
  /\ \E name \in Names :
       call' = [call EXCEPT ![t].pc = "find", ![t].name = name]
  /\ ret' = [ret EXCEPT ![t] = NULL]
  /\ UNCHANGED <<Locals, heap>>

read_lock(t) ==
  /\ At(t, "find")
  /\ writer = NULL
  /\ readers' = readers \cup {t}
  /\ Goto(t, "search")
  /\ UNCHANGED <<fib_list, heap, fib, writer>>

\* The first object of that name in the list.
Search(t) ==
  LET first == SelectInSeq(fib_list, LAMBDA i : i \in Found(call[t].name))
  IN  /\ At(t, "search")
      /\ readers' = readers \ {t}
      /\ Return(t, IF first = 0 THEN NULL ELSE fib_list[first])
      /\ UNCHANGED <<fib_list, heap, fib, writer>>

-----------------------------------------------------------------------------
(* rte_fib_free *)

\* The caller has the object from create or find, and frees it once.
rte_fib_free(t) ==
  /\ At(t, "idle")
  /\ \E i \in Listed :
       /\ \A u \in Threads : call[u].obj # i
       /\ call' = [call EXCEPT ![t].pc = "free", ![t].obj = i]
  /\ ret' = [ret EXCEPT ![t] = NULL]
  /\ UNCHANGED <<Locals, heap>>

Unlist(t) ==
  /\ At(t, "unlist")
  /\ \E n \in DOMAIN fib_list : /\ fib_list[n] = call[t].obj
                               /\ fib_list' = RemoveAt(fib_list, n)
  /\ writer' = NULL
  /\ Goto(t, "free_dataplane")
  /\ UNCHANGED <<heap, fib, readers>>

free_dataplane(t) == Release(t, "free_dataplane", "dp", "free_rib")

FreeRib(t) == Unlocked /\ Release(t, "free_rib", "rib", "free_fib_te")

FreeObject(t) ==
  /\ At(t, "free_fib_te")
  /\ heap' = heap \ Mine(t, {"fib", "te"})
  /\ fib' = [fib EXCEPT ![call[t].obj] = Blank]
  /\ Return(t, NULL)
  /\ UNCHANGED <<fib_list, writer, readers>>

-----------------------------------------------------------------------------
(* The specification *)

Begin(t) == rte_fib_create(t) \/ rte_fib_find_existing(t) \/ rte_fib_free(t)

Step(t) ==
  \/ CreateRib(t)
  \/ write_lock(t, "lock", "scan")
  \/ Scan(t)
  \/ AllocEntry(t)
  \/ AllocFib(t)
  \/ init_dataplane(t)
  \/ Insert(t)
  \/ Unwind(t)
  \/ Exit(t)
  \/ ExitRib(t)
  \/ read_lock(t)
  \/ Search(t)
  \/ write_lock(t, "free", "unlist")
  \/ Unlist(t)
  \/ free_dataplane(t)
  \/ FreeRib(t)
  \/ FreeObject(t)

Next == \E t \in Threads : Begin(t) \/ Step(t)

Spec == Init /\ [][Next]_vars

\* A thread within a call goes on as soon as the lock lets it.
FairSpec == Spec /\ \A t \in Threads : WF_vars(Step(t))

-----------------------------------------------------------------------------
(* Properties *)

Call == [pc : {"idle", "create_rib", "lock", "scan", "alloc_te", "alloc_fib",
               "init_dataplane", "insert", "free_fib", "free_te", "exit", "exit_rib",
               "find", "search",
               "free", "unlist", "free_dataplane", "free_rib", "free_fib_te"},
         name : Names \cup {NULL}, type : Types \cup {NULL}, obj : Objects \cup {NULL}]

\* Every variable has its type.
TypeOK ==
  /\ fib_list \in Seq(Objects)
  /\ heap \subseteq Kinds \X Objects
  /\ fib \in [Objects -> [name : Names \cup {NULL}, type : Types \cup {NULL}]]
  /\ writer \in Threads \cup {NULL}
  /\ readers \subseteq Threads
  /\ call \in [Threads -> Call]
  /\ ret \in [Threads -> Objects \cup {NULL}]

\* Two objects on the list never have the same name, however their creations
\* interleave, unless it is one that has been cut when it was stored
\* (rte_fib_create, the search under the lock).
NamesUnique ==
  \A m, n \in DOMAIN fib_list :
    LET name == fib[fib_list[m]].name
    IN  name = fib[fib_list[n]].name /\ Stored[name] = name => m = n

\* No block is lost, whatever fails: each belongs to an object on the list or
\* to one that a running call creates or frees.  An object on the list is
\* complete (the labels of rte_fib_create, rte_fib_free).
MemoryAccounted ==
  /\ \A i \in Listed : Blocks(i) = Whole(i)
  /\ \A i \in Objects \ Listed :
       Blocks(i) # {} => \E t \in Threads : Busy(t) /\ call[t].obj = i

\* No call waits for ever: once threads begin no more calls, all of those that
\* run return.  None needs the lock while it holds it (the RIB of an object
\* is created before, and freed after).
CallsReturn ==
  <>[][\A t \in Threads : ~Begin(t)]_vars => <>[](\A t \in Threads : ~Busy(t))

\* "Name of the fib object as passed to rte_fib_create()" (rte_fib.h): a search
\* for the name of an object on the list does not answer that there is none.
FindsWhatWasCreated ==
  [][\A t \in Threads :
       At(t, "search") /\ Search(t) /\ (\E i \in Listed : fib[i].name = call[t].name)
         => ret'[t] # NULL]_vars
=============================================================================
