------------------------------ MODULE SharedMem ------------------------------
(***************************************************************************)
(* The shared pages of part1: shmem_access(), shmem_count()'s counters,    *)
(* and what fork(), exec(), exit() and wait() do to them.                  *)
(*                                                                         *)
(* sm_counts[i]++ and -- are an addl or subl without a lock prefix.  An    *)
(* interrupt cannot split it; another CPU's update can fall between its    *)
(* load and its store.                                                     *)
(***************************************************************************)
EXTENDS Integers, FiniteSets

CONSTANTS
  Table,        \* the slots of ptable.proc, numbers; init has slot 1
  NSHAREPAGE,   \* shared pages
  SMP,          \* do processes run on several CPUs
  MaxDrift      \* bound: how far a counter is let stray from the truth

ASSUME SharedMemAssumption ==
  /\ Table \subseteq Nat \ {0} /\ IsFiniteSet(Table) /\ 1 \in Table
  /\ NSHAREPAGE \in Nat \ {0}
  /\ MaxDrift \in Nat
  /\ SMP \in BOOLEAN

VARIABLES
  life,        \* p->state, LIVE for every one between fork() and exit()
  shared_page,  \* the pages whose p->shared_page is not 0
  mapped,       \* the shared pages that p->pgdir maps
  sm_counts,    \* sm_counts
  freed,        \* the frames sm_addr that kfree() has been given
  pc,           \* where the process is in the kernel
  np,           \* fork()'s child, wait()'s zombie
  k,            \* the page at hand
  loaded,       \* the value the addl has read, NotLoaded before
  strayed       \* history: an exec() dropped a page, or a fork() that ran out of
                \* memory left one in its slot, and no counter was changed

shmvars == <<life, shared_page, mapped, sm_counts, freed, pc, np, k, loaded,
          strayed>>

Pages == 0..(NSHAREPAGE - 1)
MaxCount == Cardinality(Table) + MaxDrift
NotLoaded == -(MaxCount + 1)

\* access, copy_count, reap_count: before the update of sm_counts in
\* shmem_access(), copyuvm() and wait(); copy, reap: in the loops of the last
\* two; panic: mappages() failed in shmem_access().
PCs == {"user", "access", "copy", "copy_count", "reap", "reap_count", "panic"}
Counting == {"access", "copy_count", "reap_count"}

\* shmem_init() and userinit().
shmem_init ==
  /\ life = [p \in Table |-> IF p = 1 THEN "LIVE" ELSE "UNUSED"]
  /\ shared_page = [p \in Table |-> {}]
  /\ mapped = [p \in Table |-> {}]
  /\ sm_counts = [i \in Pages |-> 0]
  /\ freed = {}
  /\ pc = [p \in Table |-> "user"]
  /\ np = [p \in Table |-> 0]
  /\ k = [p \in Table |-> 0]
  /\ loaded = [p \in Table |-> NotLoaded]
  /\ strayed = FALSE

\* p may take a step: no panic, and on one CPU nobody is inside an addl.
MayStep(p) ==
  /\ life[p] = "LIVE"
  /\ \A q \in Table : pc[q] # "panic"
  /\ SMP \/ \A q \in Table \ {p} : loaded[q] = NotLoaded

In(p, l) == MayStep(p) /\ pc[p] = l

\* wait() holds ptable.lock through its loop.
LockFree == \A q \in Table : pc[q] \notin {"reap", "reap_count"}

\* mappages() needs a new page table for the first shared page only: all of
\* them lie under the same entry of the page directory.
MapMayFail(p) == mapped[p] = {}

\* The processes, zombies included, that have page i.
Users(i) == {p \in Table : life[p] # "UNUSED" /\ i \in shared_page[p]}

\* The calls that make a counter stray are made up to MaxDrift.
Bounded ==
  \A i \in Pages :
    sm_counts[i] - Cardinality(Users(i)) \in (1 - MaxDrift)..(MaxDrift - 1)

\* Mutant: one shared page too many is freed.
Limit_OffByOne == -(NSHAREPAGE - 1)

\* freevm() frees the user pages below KERNBASE - NSHAREPAGE * PGSIZE; in
\* pages, counted from KERNBASE.
Limit == -NSHAREPAGE

\* Page i is mapped at KERNBASE - (i + 1) * PGSIZE.
freevm(p) == {i \in mapped[p] : -(i + 1) < Limit}
-----------------------------------------------------------------------------
(* The counters.                                                           *)

\* addl, subl: the load.
load(p) ==
  /\ MayStep(p)
  /\ pc[p] \in Counting
  /\ loaded[p] = NotLoaded
  /\ loaded' = [loaded EXCEPT ![p] = sm_counts[k[p]]]
  /\ UNCHANGED <<life, shared_page, mapped, sm_counts, freed, pc, np, k, strayed>>

\* Mutant: the child's page is not counted.
Delta_NoCopy == [access |-> 1, copy_count |-> 0, reap_count |-> -1]

Delta == [access |-> 1, copy_count |-> 1, reap_count |-> -1]

\* The store, and what follows: shmem_access() returns, the loops go on.
store(p) ==
  /\ MayStep(p)
  /\ pc[p] \in Counting
  /\ loaded[p] # NotLoaded
  /\ sm_counts' = [sm_counts EXCEPT ![k[p]] = loaded[p] + Delta[pc[p]]]
  /\ loaded' = [loaded EXCEPT ![p] = NotLoaded]
  /\ \/ /\ pc[p] = "access"
        /\ shared_page' = [shared_page EXCEPT ![p] = @ \cup {k[p]}]
        /\ pc' = [pc EXCEPT ![p] = "user"]
        /\ k' = [k EXCEPT ![p] = 0]
     \/ /\ pc[p] # "access"
        /\ pc' = [pc EXCEPT ![p] = IF @ = "copy_count" THEN "copy" ELSE "reap"]
        /\ k' = [k EXCEPT ![p] = @ + 1]
        /\ UNCHANGED shared_page
  /\ UNCHANGED <<life, mapped, freed, np, strayed>>
-----------------------------------------------------------------------------
(* The system calls.                                                       *)

\* shmem_access() of a page that p has not got yet.
shmem_access(p, i) ==
  /\ In(p, "user")
  /\ i \notin shared_page[p]
  /\ \/ /\ mapped' = [mapped EXCEPT ![p] = @ \cup {i}]
        /\ pc' = [pc EXCEPT ![p] = "access"]
        /\ k' = [k EXCEPT ![p] = i]
     \/ /\ MapMayFail(p)
        /\ pc' = [pc EXCEPT ![p] = "panic"]
        /\ UNCHANGED <<mapped, k>>
  /\ UNCHANGED <<life, shared_page, sm_counts, freed, np, loaded, strayed>>

\* fork() up to the shared pages in copyuvm().  The slot's shared_page is as
\* its last user left it.
fork_shared(p) ==
  /\ In(p, "user")
  /\ LockFree
  /\ \E c \in Table :
       /\ life[c] = "UNUSED"
       /\ \A d \in Table : life[d] = "UNUSED" => c <= d
       /\ life' = [life EXCEPT ![c] = "EMBRYO"]
       /\ np' = [np EXCEPT ![p] = c]
       /\ mapped' = [mapped EXCEPT ![c] = {}]
  /\ pc' = [pc EXCEPT ![p] = "copy"]
  /\ k' = [k EXCEPT ![p] = 0]
  /\ UNCHANGED <<shared_page, sm_counts, freed, loaded, strayed>>

\* copyuvm() fails before or at a shared page: fork() gives the slot back.
\* Its pages below the limit are freed with the page table.
ForkFails(p) ==
  /\ life' = [life EXCEPT ![np[p]] = "UNUSED"]
  /\ mapped' = [mapped EXCEPT ![np[p]] = {}]
  /\ freed' = freed \cup freevm(np[p])
  /\ pc' = [pc EXCEPT ![p] = "user"]
  /\ np' = [np EXCEPT ![p] = 0]
  /\ k' = [k EXCEPT ![p] = 0]

\* The shared pages of the child's page table after mappages().
copy_maps(c, i) == mapped[c] \cup {i}

\* One turn of copyuvm()'s loop over the shared pages, or its end.
copyuvm(p) ==
  LET c == np[p]
  IN  /\ In(p, "copy")
      /\ \/ /\ k[p] = 0
            /\ ForkFails(p)
            /\ UNCHANGED <<shared_page, strayed>>
         \/ /\ k[p] \in shared_page[p]
            /\ MapMayFail(c) /\ Bounded
            /\ shared_page' = [shared_page EXCEPT ![c] = @ \cup {k[p]}]
            /\ strayed' = TRUE
            /\ ForkFails(p)
         \/ /\ k[p] \in shared_page[p]
            /\ shared_page' = [shared_page EXCEPT ![c] = @ \cup {k[p]}]
            /\ mapped' = [mapped EXCEPT ![c] = copy_maps(c, k[p])]
            /\ pc' = [pc EXCEPT ![p] = "copy_count"]
            /\ UNCHANGED <<life, freed, np, k, strayed>>
         \/ /\ k[p] \in Pages \ shared_page[p]
            /\ k' = [k EXCEPT ![p] = @ + 1]
            /\ UNCHANGED <<life, shared_page, mapped, freed, pc, np, strayed>>
         \/ /\ k[p] = NSHAREPAGE
            /\ LockFree
            /\ life' = [life EXCEPT ![c] = "LIVE"]
            /\ pc' = [pc EXCEPT ![p] = "user"]
            /\ np' = [np EXCEPT ![p] = 0]
            /\ k' = [k EXCEPT ![p] = 0]
            /\ UNCHANGED <<shared_page, mapped, freed, strayed>>
      /\ UNCHANGED <<sm_counts, loaded>>

\* The shared pages that the page table of the new image maps.
exec_maps(p) == {}

\* exec(), from its last test on.
exec(p) ==
  /\ In(p, "user") /\ Bounded
  /\ shared_page' = [shared_page EXCEPT ![p] = {}]
  /\ freed' = freed \cup freevm(p)
  /\ mapped' = [mapped EXCEPT ![p] = exec_maps(p)]
  /\ strayed' = (strayed \/ shared_page[p] # {})
  /\ UNCHANGED <<life, sm_counts, pc, np, k, loaded>>

\* exit() leaves the pages to wait().
exit_shared(p) ==
  /\ In(p, "user")
  /\ p # 1
  /\ LockFree
  /\ life' = [life EXCEPT ![p] = "ZOMBIE"]
  /\ UNCHANGED <<shared_page, mapped, sm_counts, freed, pc, np, k, loaded, strayed>>

\* wait() finds a zombie; whose child it is does not matter here.
wait_shared(p) ==
  /\ In(p, "user")
  /\ LockFree
  /\ \E z \in Table : life[z] = "ZOMBIE" /\ np' = [np EXCEPT ![p] = z]
  /\ pc' = [pc EXCEPT ![p] = "reap"]
  /\ k' = [k EXCEPT ![p] = 0]
  /\ UNCHANGED <<life, shared_page, mapped, sm_counts, freed, loaded, strayed>>

\* One turn of wait()'s loop over the shared pages, or what follows it.
reap(p) ==
  LET z == np[p]
  IN  /\ In(p, "reap")
      /\ \/ /\ k[p] \in shared_page[z]
            /\ shared_page' = [shared_page EXCEPT ![z] = @ \ {k[p]}]
            /\ pc' = [pc EXCEPT ![p] = "reap_count"]
            /\ UNCHANGED <<life, mapped, freed, np, k>>
         \/ /\ k[p] \in Pages \ shared_page[z]
            /\ k' = [k EXCEPT ![p] = @ + 1]
            /\ UNCHANGED <<life, shared_page, mapped, freed, pc, np>>
         \/ /\ k[p] = NSHAREPAGE
            /\ freed' = freed \cup freevm(z)
            /\ mapped' = [mapped EXCEPT ![z] = {}]
            /\ life' = [life EXCEPT ![z] = "UNUSED"]
            /\ pc' = [pc EXCEPT ![p] = "user"]
            /\ np' = [np EXCEPT ![p] = 0]
            /\ k' = [k EXCEPT ![p] = 0]
            /\ UNCHANGED shared_page
      /\ UNCHANGED <<sm_counts, loaded, strayed>>

ShmemNext == \E p \in Table :
  \/ load(p) \/ store(p)
  \/ \E i \in Pages : shmem_access(p, i)
  \/ fork_shared(p) \/ copyuvm(p) \/ exec(p) \/ exit_shared(p) \/ wait_shared(p) \/ reap(p)

ShmemSpec == shmem_init /\ [][ShmemNext]_shmvars
-----------------------------------------------------------------------------
(* Properties.                                                             *)

\* "count how many processes are using the same share page": between calls a
\* counter is the number of processes that have the page.
CountsExact ==
  (\A p \in Table : pc[p] = "user") =>
    \A i \in Pages : sm_counts[i] = Cardinality(Users(i))

\* Every page that shmem_access() would return without mapping it is mapped:
\* across fork() and the reuse of a slot the two records of a page agree.
AccessMapped ==
  \A p \in Table : life[p] = "LIVE" /\ pc[p] # "access" =>
    shared_page[p] \subseteq mapped[p]

\* Both on one CPU, as long as no exec() and no failing fork() met a page.
SharesCounted == SMP \/ strayed \/ (CountsExact /\ AccessMapped)

\* No page that shmem_access() would map is mapped already, which mappages()
\* answers with panic("remap"): across exec() and failing fork()s too.
NoRemap ==
  \A p \in Table : life[p] = "LIVE" /\ pc[p] # "access" =>
    mapped[p] \subseteq shared_page[p]

\* The frames outlive every process that mapped them: no freevm() gives one
\* back to the allocator.
FramesKept == freed = {}

\* Both, whatever exec() and failing fork()s do: a page can be accessed again
\* without a panic, and its frame is still there.
PagesKept == NoRemap /\ FramesKept
=============================================================================
