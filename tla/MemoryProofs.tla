---------------------------- MODULE MemoryProofs ----------------------------
(***************************************************************************)
(* Proofs about the two modules of memory, for any number of processes:    *)
(* SharedMem, for any number of shared pages, and VM, for any amount of    *)
(* memory and any sizes of pages, page tables and programs.                *)
(***************************************************************************)
EXTENDS SharedMem, VM, FiniteSetTheorems, TLAPS
-----------------------------------------------------------------------------
(* SharedMem.                                                              *)

Forking(p) == pc[p] \in {"copy", "copy_count"}
Reaping(p) == pc[p] \in {"reap", "reap_count"}

\* The type of the state; how far the counters stray is not bounded here.
ShmTypes ==
  /\ life \in [Table -> {"UNUSED", "EMBRYO", "LIVE", "ZOMBIE"}]
  /\ shared_page \in [Table -> SUBSET Pages]
  /\ mapped \in [Table -> SUBSET Pages]
  /\ sm_counts \in [Pages -> Int]
  /\ pc \in [Table -> PCs]
  /\ np \in [Table -> {0} \cup Table]
  /\ k \in [Table -> 0..NSHAREPAGE]
  /\ loaded \in [Table -> Int]
  /\ strayed \in BOOLEAN

\* Only a live process is in the kernel.  Who forks has an embryo of its own;
\* who reaps is alone and has a zombie.
Calls ==
  /\ \A p \in Table :
       /\ pc[p] # "user" => life[p] = "LIVE"
       /\ pc[p] \in Counting => k[p] \in Pages
       /\ Forking(p) => np[p] \in Table /\ life[np[p]] = "EMBRYO"
       /\ Reaping(p) => np[p] \in Table /\ life[np[p]] = "ZOMBIE"
  /\ \A p, q \in Table : Forking(p) /\ Forking(q) /\ np[p] = np[q] => p = q
  /\ \A p, q \in Table : Reaping(p) /\ Reaping(q) => p = q

\* What a page table maps is on record, but for the page that shmem_access()
\* is about to record.
Maps ==
  \A p \in Table :
    /\ life[p] = "EMBRYO" \/ (life[p] = "LIVE" /\ pc[p] # "access")
         => mapped[p] \subseteq shared_page[p]
    /\ pc[p] = "access" => mapped[p] \subseteq shared_page[p] \cup {k[p]}
    /\ pc[p] = "access" => k[p] \in mapped[p] \ shared_page[p]

\* As long as no counter has strayed: a free slot has no page on record, what
\* is on record is mapped, the child has the pages before the one at hand, and
\* the zombie those behind it.
Records ==
  \A p \in Table :
    /\ life[p] = "UNUSED" => shared_page[p] = {}
    /\ life[p] \in {"EMBRYO", "LIVE"} => shared_page[p] \subseteq mapped[p]
    /\ pc[p] = "copy" => \A i \in shared_page[np[p]] : i < k[p]
    /\ pc[p] = "copy_count" => /\ k[p] \in shared_page[np[p]]
                               /\ \A i \in shared_page[np[p]] : i <= k[p]
    /\ pc[p] = "reap" => \A i \in shared_page[np[p]] : k[p] <= i
    /\ pc[p] = "reap_count" => \A i \in shared_page[np[p]] : k[p] < i

\* On one CPU no update is in the middle of another.
Loads ==
  /\ \A p \in Table : loaded[p] # NotLoaded => /\ pc[p] \in Counting
                                               /\ loaded[p] = sm_counts[k[p]]
  /\ \A p, q \in Table : loaded[p] # NotLoaded /\ loaded[q] # NotLoaded => p = q

\* Those that the counter of page i has in it: who has the page, but for the
\* child that copyuvm() is about to count, and the zombie that wait() has not
\* counted off.
Counted(i) ==
  {q \in Table :
     \/ /\ q \in Users(i)
        /\ \A p \in Table : ~(pc[p] = "copy_count" /\ k[p] = i /\ np[p] = q)
     \/ \E p \in Table : pc[p] = "reap_count" /\ k[p] = i /\ np[p] = q}

Exact == \A i \in Pages : sm_counts[i] = Cardinality(Counted(i))

\* The inductive invariant.
ShmInv ==
  /\ ShmTypes /\ Calls /\ Maps /\ freed = {}
  /\ SMP \/ Loads
  /\ strayed \/ Records
  /\ SMP \/ strayed \/ Exact
-----------------------------------------------------------------------------
LEMMA ShmSizes ==
  /\ NSHAREPAGE \in Nat \ {0} /\ IsFiniteSet(Table)
  /\ 1 \in Table /\ 0 \notin Table /\ NSHAREPAGE \notin Pages
  /\ SMP \in BOOLEAN /\ NotLoaded \in Int
<1>1. Cardinality(Table) \in Nat
  BY SharedMemAssumption, FS_CardinalityType
<1> QED BY <1>1, SharedMemAssumption DEF Pages, NotLoaded, MaxCount

\* All shared pages lie above the limit of freevm().
LEMMA FreesNothing ==
  ASSUME ShmTypes, NEW p \in Table
  PROVE  freevm(p) = {}
BY ShmSizes DEF ShmTypes, freevm, Limit, Pages

\* The sets that the counters stand for are finite.
LEMMA CountedFinite ==
  ASSUME NEW i
  PROVE  IsFiniteSet(Counted(i)) /\ Counted(i) \subseteq Table
<1>1. Counted(i) \subseteq Table
  BY DEF Counted
<1> QED BY <1>1, ShmSizes, FS_Subset

\* shmem_init() establishes the invariant.
LEMMA InitShmInv == shmem_init => ShmInv
<1> SUFFICES ASSUME shmem_init PROVE ShmInv
  OBVIOUS
<1> USE ShmSizes DEF shmem_init
<1>1. ShmTypes
  <2>1. life \in [Table -> {"UNUSED", "EMBRYO", "LIVE", "ZOMBIE"}]
    OBVIOUS
  <2>2. pc \in [Table -> PCs] /\ np \in [Table -> {0} \cup Table]
    BY DEF PCs
  <2>3. k \in [Table -> 0..NSHAREPAGE] /\ loaded \in [Table -> Int]
    OBVIOUS
  <2>4. shared_page \in [Table -> SUBSET Pages] /\ mapped \in [Table -> SUBSET Pages]
    OBVIOUS
  <2>5. sm_counts \in [Pages -> Int]
    OBVIOUS
  <2>6. strayed \in BOOLEAN
    OBVIOUS
  <2> QED BY <2>1, <2>2, <2>3, <2>4, <2>5, <2>6 DEF ShmTypes
<1>2. Calls
  BY DEF Calls, Forking, Reaping, Counting
<1>3. Maps
  BY DEF Maps
<1>4. Loads
  BY DEF Loads
<1>5. Records
  BY DEF Records
<1>6. Exact
  <2> SUFFICES ASSUME NEW i \in Pages PROVE sm_counts[i] = Cardinality(Counted(i))
    BY DEF Exact
  <2>1. Counted(i) = {}
    BY DEF Counted, Users
  <2> QED BY <2>1, FS_EmptySet
<1> QED BY <1>1, <1>2, <1>3, <1>4, <1>5, <1>6 DEF ShmInv

\* A step that changes no counter and nobody's part in one.
LEMMA SameCounts ==
  ASSUME UNCHANGED <<sm_counts, strayed>>,
         ~SMP /\ ~strayed => \A i \in Pages : Counted(i)' = Counted(i),
         SMP \/ strayed \/ Exact
  PROVE  (SMP \/ strayed \/ Exact)'
<1> SUFFICES ASSUME ~SMP, ~strayed PROVE Exact'
  OBVIOUS
<1>1. \A i \in Pages : Counted(i)' = Counted(i)
  OBVIOUS
<1>2. \A i \in Pages : sm_counts[i] = Cardinality(Counted(i))
  BY DEF Exact
<1>3. ASSUME NEW i \in Pages PROVE sm_counts'[i] = Cardinality(Counted(i)')
  BY <1>1, <1>2
<1> QED BY <1>3 DEF Exact

-----------------------------------------------------------------------------
(* The counters.                                                           *)

\* Reading a counter.
LEMMA LoadKeeps ==
  ASSUME ShmInv, NEW p \in Table, load(p)
  PROVE  ShmInv'
<1> USE ShmSizes DEF ShmInv, load
<1>0. MayStep(p) /\ k[p] \in Pages
  BY DEF Calls
<1>1. ShmTypes'
  BY <1>0 DEF ShmTypes
<1>2. Calls'
  BY DEF Calls, Forking, Reaping
<1>3. Maps'
  BY DEF Maps
<1>4. (SMP \/ Loads)'
  BY <1>0 DEF Loads, MayStep, ShmTypes
<1>5. (strayed \/ Records)'
  BY DEF Records
<1>6. (SMP \/ strayed \/ Exact)'
  <2>1. \A i \in Pages : Counted(i)' = Counted(i)
    BY DEF Counted, Users
  <2> QED BY <2>1, SameCounts
<1> QED BY <1>1, <1>2, <1>3, <1>4, <1>5, <1>6

\* The store of shmem_access(), which records the page in the same step.
LEMMA AccessStoreKeeps ==
  ASSUME ShmInv, NEW p \in Table, store(p), pc[p] = "access"
  PROVE  ShmInv'
<1> USE ShmSizes DEF ShmInv
<1>0. /\ k[p] \in Pages /\ k[p] \notin shared_page[p] /\ life[p] = "LIVE"
      /\ sm_counts' = [sm_counts EXCEPT ![k[p]] = loaded[p] + 1]
      /\ loaded' = [loaded EXCEPT ![p] = NotLoaded] /\ loaded[p] # NotLoaded
      /\ shared_page' = [shared_page EXCEPT ![p] = shared_page[p] \cup {k[p]}]
      /\ pc' = [pc EXCEPT ![p] = "user"] /\ k' = [k EXCEPT ![p] = 0]
      /\ MayStep(p) /\ UNCHANGED <<life, mapped, freed, np, strayed>>
  BY DEF store, Calls, Maps, Counting, Delta
<1>1. ShmTypes'
  BY <1>0 DEF ShmTypes, PCs
<1>2. Calls'
  BY <1>0 DEF Calls, Forking, Reaping, ShmTypes, Counting
<1>3. Maps'
  BY <1>0 DEF Maps, ShmTypes
<1>4. (SMP \/ Loads)'
  BY <1>0 DEF Loads, ShmTypes
<1>5. (strayed \/ Records)'
  <2> SUFFICES ASSUME ~strayed PROVE Records'
    BY <1>0
  <2>1. Records
    OBVIOUS
  <2>2. \A q \in Table : Forking(q) \/ Reaping(q) => np[q] \in Table /\ np[q] # p
    BY <1>0 DEF Calls
  <2>3. k[p] \in mapped[p]
    BY DEF Maps
  <2> QED BY <1>0, <2>1, <2>2, <2>3 DEF Records, ShmTypes, Forking, Reaping
<1>6. (SMP \/ strayed \/ Exact)'
  <2> SUFFICES ASSUME ~SMP, ~strayed, NEW i \in Pages
               PROVE  sm_counts'[i] = Cardinality(Counted(i)')
    BY <1>0 DEF Exact
  <2>1. sm_counts[i] = Cardinality(Counted(i)) /\ IsFiniteSet(Counted(i))
    BY CountedFinite DEF Exact
  <2>2. CASE i = k[p]
    <3>1. Counted(i)' = Counted(i) \cup {p} /\ p \notin Counted(i)
      BY <1>0, <2>2 DEF Counted, Users, ShmTypes, Calls, Forking, Reaping
    <3>2. sm_counts'[i] = sm_counts[i] + 1
      BY <1>0, <2>2 DEF ShmTypes, Loads
    <3> QED BY <2>1, <3>1, <3>2, FS_AddElement
  <2>3. CASE i # k[p]
    <3>1. Counted(i)' = Counted(i)
      BY <1>0, <2>3 DEF Counted, Users, ShmTypes
    <3>2. sm_counts'[i] = sm_counts[i]
      BY <1>0, <2>3 DEF ShmTypes
    <3> QED BY <2>1, <3>1, <3>2
  <2> QED BY <2>2, <2>3
<1> QED BY <1>0, <1>1, <1>2, <1>3, <1>4, <1>5, <1>6

\* The store of copyuvm(), which has recorded the page of the child before.
LEMMA CopyStoreKeeps ==
  ASSUME ShmInv, NEW p \in Table, store(p), pc[p] = "copy_count"
  PROVE  ShmInv'
<1> USE ShmSizes DEF ShmInv
<1> DEFINE c == np[p]
<1>0. /\ k[p] \in Pages /\ life[p] = "LIVE"
      /\ c \in Table /\ life[c] = "EMBRYO"
      /\ sm_counts' = [sm_counts EXCEPT ![k[p]] = loaded[p] + 1]
      /\ loaded' = [loaded EXCEPT ![p] = NotLoaded] /\ loaded[p] # NotLoaded
      /\ pc' = [pc EXCEPT ![p] = "copy"] /\ k' = [k EXCEPT ![p] = k[p] + 1]
      /\ UNCHANGED <<shared_page, life, mapped, freed, np, strayed>>
  BY DEF store, Calls, Forking, Counting, Delta
<1>1. ShmTypes'
  <2>1. k[p] + 1 \in 0..NSHAREPAGE
    BY <1>0 DEF Pages
  <2> QED BY <1>0, <2>1 DEF ShmTypes, PCs
<1>2. Calls'
  BY <1>0 DEF Calls, Forking, Reaping, ShmTypes, Counting
<1>3. Maps'
  BY <1>0 DEF Maps, ShmTypes
<1>4. (SMP \/ Loads)'
  BY <1>0 DEF Loads, ShmTypes
<1>5. (strayed \/ Records)'
  <2> SUFFICES ASSUME ~strayed PROVE Records'
    BY <1>0
  <2>1. \A i \in shared_page[c] : i < k[p] + 1
    BY <1>0 DEF Records, ShmTypes, Pages
  <2> QED BY <1>0, <2>1 DEF Records, ShmTypes
<1>6. (SMP \/ strayed \/ Exact)'
  <2> SUFFICES ASSUME ~SMP, ~strayed, NEW i \in Pages
               PROVE  sm_counts'[i] = Cardinality(Counted(i)')
    BY <1>0 DEF Exact
  <2>1. sm_counts[i] = Cardinality(Counted(i)) /\ IsFiniteSet(Counted(i))
    BY CountedFinite DEF Exact
  <2>2. CASE i = k[p]
    <3>1. Counted(i)' = Counted(i) \cup {c} /\ c \notin Counted(i)
      BY <1>0, <2>2 DEF Counted, Users, ShmTypes, Calls, Forking, Reaping, Records
    <3>2. sm_counts'[i] = sm_counts[i] + 1
      BY <1>0, <2>2 DEF ShmTypes, Loads
    <3> QED BY <2>1, <3>1, <3>2, FS_AddElement
  <2>3. CASE i # k[p]
    <3>1. Counted(i)' = Counted(i)
      BY <1>0, <2>3 DEF Counted, Users, ShmTypes
    <3>2. sm_counts'[i] = sm_counts[i]
      BY <1>0, <2>3 DEF ShmTypes
    <3> QED BY <2>1, <3>1, <3>2
  <2> QED BY <2>2, <2>3
<1> QED BY <1>0, <1>1, <1>2, <1>3, <1>4, <1>5, <1>6

\* The store of wait(), which has taken the page from the zombie before.
LEMMA ReapStoreKeeps ==
  ASSUME ShmInv, NEW p \in Table, store(p), pc[p] = "reap_count"
  PROVE  ShmInv'
<1> USE ShmSizes DEF ShmInv
<1> DEFINE z == np[p]
<1>0. /\ k[p] \in Pages /\ life[p] = "LIVE"
      /\ z \in Table /\ life[z] = "ZOMBIE"
      /\ sm_counts' = [sm_counts EXCEPT ![k[p]] = loaded[p] - 1]
      /\ loaded' = [loaded EXCEPT ![p] = NotLoaded] /\ loaded[p] # NotLoaded
      /\ pc' = [pc EXCEPT ![p] = "reap"] /\ k' = [k EXCEPT ![p] = k[p] + 1]
      /\ UNCHANGED <<shared_page, life, mapped, freed, np, strayed>>
  <2>1. loaded[p] + Delta[pc[p]] = loaded[p] - 1
    BY DEF Delta, ShmTypes
  <2> QED BY <2>1 DEF store, Calls, Reaping, Counting
<1>1. ShmTypes'
  <2>1. k[p] + 1 \in 0..NSHAREPAGE
    BY <1>0 DEF Pages
  <2> QED BY <1>0, <2>1 DEF ShmTypes, PCs
<1>2. Calls'
  BY <1>0 DEF Calls, Forking, Reaping, ShmTypes, Counting
<1>3. Maps'
  BY <1>0 DEF Maps, ShmTypes
<1>4. (SMP \/ Loads)'
  BY <1>0 DEF Loads, ShmTypes
<1>5. (strayed \/ Records)'
  <2> SUFFICES ASSUME ~strayed PROVE Records'
    BY <1>0
  <2>1. \A i \in shared_page[z] : k[p] + 1 <= i
    BY <1>0 DEF Records, ShmTypes, Pages
  <2> QED BY <1>0, <2>1 DEF Records, ShmTypes
<1>6. (SMP \/ strayed \/ Exact)'
  <2> SUFFICES ASSUME ~SMP, ~strayed, NEW i \in Pages
               PROVE  sm_counts'[i] = Cardinality(Counted(i)')
    BY <1>0 DEF Exact
  <2>1. sm_counts[i] = Cardinality(Counted(i)) /\ IsFiniteSet(Counted(i))
    BY CountedFinite DEF Exact
  <2>2. CASE i = k[p]
    <3>0. i \notin shared_page[z]
      BY <1>0, <2>2 DEF Records, ShmTypes, Pages
    <3>1. Counted(i)' = Counted(i) \ {z} /\ z \in Counted(i)
      BY <1>0, <2>2, <3>0 DEF Counted, Users, ShmTypes, Calls, Forking, Reaping
    <3>2. sm_counts'[i] = sm_counts[i] - 1
      BY <1>0, <2>2 DEF ShmTypes, Loads
    <3>3. Cardinality(Counted(i) \ {z}) = Cardinality(Counted(i)) - 1
      BY <2>1, <3>1, FS_RemoveElement
    <3> QED BY <2>1, <3>1, <3>2, <3>3
  <2>3. CASE i # k[p]
    <3>1. Counted(i)' = Counted(i)
      BY <1>0, <2>3 DEF Counted, Users, ShmTypes
    <3>2. sm_counts'[i] = sm_counts[i]
      BY <1>0, <2>3 DEF ShmTypes
    <3> QED BY <2>1, <3>1, <3>2
  <2> QED BY <2>2, <2>3
<1> QED BY <1>0, <1>1, <1>2, <1>3, <1>4, <1>5, <1>6
-----------------------------------------------------------------------------
(* The system calls.                                                       *)

\* shmem_access() maps a page before it records it.
LEMMA AccessKeeps ==
  ASSUME ShmInv, NEW p \in Table, NEW i \in Pages, shmem_access(p, i)
  PROVE  ShmInv'
<1> USE ShmSizes DEF ShmInv, shmem_access, In
<1>1. ShmTypes'
  <2>1. i \in 0..NSHAREPAGE
    BY DEF Pages
  <2>2. mapped' \in [Table -> SUBSET Pages] /\ k' \in [Table -> 0..NSHAREPAGE]
    BY <2>1 DEF ShmTypes
  <2>3. pc' \in [Table -> PCs]
    BY DEF ShmTypes, PCs
  <2> QED BY <2>2, <2>3 DEF ShmTypes
<1>2. Calls'
  BY DEF Calls, Forking, Reaping, ShmTypes, Counting, MayStep
<1>3. Maps'
  BY DEF Maps, ShmTypes, MayStep
<1>4. (SMP \/ Loads)'
  BY DEF Loads, ShmTypes, Counting
<1>5. (strayed \/ Records)'
  BY DEF Records, ShmTypes, MayStep
<1>6. (SMP \/ strayed \/ Exact)'
  <2>1. \A j \in Pages : Counted(j)' = Counted(j)
    BY DEF Counted, Users, ShmTypes
  <2> QED BY <2>1, SameCounts
<1> QED BY <1>1, <1>2, <1>3, <1>4, <1>5, <1>6

\* fork() takes a slot; the pages are copied later.
LEMMA ForkKeeps ==
  ASSUME ShmInv, NEW p \in Table, fork_shared(p)
  PROVE  ShmInv'
<1> USE ShmSizes DEF ShmInv
<1>0. PICK c \in Table :
        /\ life[c] = "UNUSED" /\ life[p] = "LIVE" /\ pc[p] = "user"
        /\ life' = [life EXCEPT ![c] = "EMBRYO"]
        /\ np' = [np EXCEPT ![p] = c]
        /\ mapped' = [mapped EXCEPT ![c] = {}]
        /\ pc' = [pc EXCEPT ![p] = "copy"] /\ k' = [k EXCEPT ![p] = 0]
        /\ UNCHANGED <<shared_page, sm_counts, freed, loaded, strayed>>
  BY DEF fork_shared, In, MayStep
<1>1. ShmTypes'
  BY <1>0 DEF ShmTypes, PCs
<1>2. Calls'
  BY <1>0 DEF Calls, Forking, Reaping, ShmTypes, Counting
<1>3. Maps'
  BY <1>0 DEF Maps, ShmTypes, Calls
<1>4. (SMP \/ Loads)'
  BY <1>0 DEF Loads, ShmTypes, Counting
<1>5. (strayed \/ Records)'
  BY <1>0 DEF Records, ShmTypes, Calls, Forking, Reaping
<1>6. (SMP \/ strayed \/ Exact)'
  <2>1. ASSUME ~strayed, NEW j \in Pages PROVE Counted(j)' = Counted(j)
    BY <1>0, <2>1 DEF Counted, Users, ShmTypes, Records
  <2> QED BY <1>0, <2>1, SameCounts
<1> QED BY <1>0, <1>1, <1>2, <1>3, <1>4, <1>5, <1>6

\* exec() replaces the page table, and the records stay.
LEMMA ExecKeeps ==
  ASSUME ShmInv, NEW p \in Table, exec(p)
  PROVE  ShmInv'
<1> USE ShmSizes DEF ShmInv, exec, In
<1>0. freed' = {}
  BY FreesNothing
<1>1. ShmTypes'
  <2>1. strayed' \in BOOLEAN
    BY DEF ShmTypes
  <2> QED BY <2>1 DEF ShmTypes, exec_maps
<1>2. Calls'
  BY DEF Calls, Forking, Reaping
<1>3. Maps'
  BY DEF Maps, ShmTypes, exec_maps
<1>4. (SMP \/ Loads)'
  BY DEF Loads
<1>5. (strayed \/ Records)'
  <2> SUFFICES ASSUME ~strayed' PROVE Records'
    OBVIOUS
  <2>1. ~strayed /\ shared_page[p] = {} /\ shared_page' = shared_page
    BY DEF ShmTypes
  <2> QED BY <2>1 DEF Records, ShmTypes, exec_maps
<1>6. (SMP \/ strayed \/ Exact)'
  <2> SUFFICES ASSUME ~SMP, ~strayed' PROVE Exact'
    OBVIOUS
  <2>1. ~strayed /\ shared_page[p] = {} /\ shared_page' = shared_page
    BY DEF ShmTypes
  <2>2. UNCHANGED <<sm_counts, strayed>>
    BY <2>1 DEF ShmTypes
  <2>3. \A j \in Pages : Counted(j)' = Counted(j)
    BY <2>1 DEF Counted, Users
  <2> QED BY <2>1, <2>2, <2>3, SameCounts
<1> QED BY <1>0, <1>1, <1>2, <1>3, <1>4, <1>5, <1>6

\* exit() leaves the records to wait().
LEMMA ExitKeeps ==
  ASSUME ShmInv, NEW p \in Table, exit_shared(p)
  PROVE  ShmInv'
<1> USE ShmSizes DEF ShmInv, exit_shared, In
<1>0. life[p] = "LIVE" /\ pc[p] = "user"
  BY DEF MayStep
<1>1. ShmTypes'
  BY DEF ShmTypes
<1>2. Calls'
  BY <1>0 DEF Calls, Forking, Reaping, ShmTypes
<1>3. Maps'
  BY <1>0 DEF Maps, ShmTypes
<1>4. (SMP \/ Loads)'
  BY DEF Loads
<1>5. (strayed \/ Records)'
  BY <1>0 DEF Records, ShmTypes
<1>6. (SMP \/ strayed \/ Exact)'
  <2>1. \A j \in Pages : Counted(j)' = Counted(j)
    BY <1>0 DEF Counted, Users, ShmTypes
  <2> QED BY <2>1, SameCounts
<1> QED BY <1>1, <1>2, <1>3, <1>4, <1>5, <1>6

\* wait() finds a zombie; its pages are counted off later.
LEMMA WaitKeeps ==
  ASSUME ShmInv, NEW p \in Table, wait_shared(p)
  PROVE  ShmInv'
<1> USE ShmSizes DEF ShmInv
<1>0. PICK z \in Table :
        /\ life[z] = "ZOMBIE" /\ life[p] = "LIVE" /\ pc[p] = "user" /\ LockFree
        /\ np' = [np EXCEPT ![p] = z]
        /\ pc' = [pc EXCEPT ![p] = "reap"] /\ k' = [k EXCEPT ![p] = 0]
        /\ UNCHANGED <<life, shared_page, mapped, sm_counts, freed, loaded, strayed>>
  BY DEF wait_shared, In, MayStep
<1>1. ShmTypes'
  BY <1>0 DEF ShmTypes, PCs
<1>2. Calls'
  BY <1>0 DEF Calls, Forking, Reaping, ShmTypes, Counting, LockFree
<1>3. Maps'
  BY <1>0 DEF Maps, ShmTypes
<1>4. (SMP \/ Loads)'
  BY <1>0 DEF Loads, ShmTypes, Counting
<1>5. (strayed \/ Records)'
  <2>1. \A i \in shared_page[z] : 0 <= i
    BY DEF ShmTypes, Pages
  <2> QED BY <1>0, <2>1 DEF Records, ShmTypes
<1>6. (SMP \/ strayed \/ Exact)'
  <2>1. \A j \in Pages : Counted(j)' = Counted(j)
    BY <1>0 DEF Counted, Users, ShmTypes
  <2> QED BY <1>0, <2>1, SameCounts
<1> QED BY <1>0, <1>1, <1>2, <1>3, <1>4, <1>5, <1>6

\* fork() gives its child's slot back.  The child has no page on record, or the
\* fork() met one and strayed says so.
LEMMA ForkFailsKeeps ==
  ASSUME ShmInv, NEW p \in Table, pc[p] = "copy", ForkFails(p),
         UNCHANGED <<sm_counts, loaded>>,
         \/ k[p] = 0 /\ UNCHANGED <<shared_page, strayed>>
         \/ /\ shared_page' = [shared_page EXCEPT ![np[p]] = @ \cup {k[p]}]
            /\ k[p] \in shared_page[p] /\ strayed' = TRUE
  PROVE  ShmInv'
<1> USE ShmSizes DEF ShmInv, ForkFails
<1> DEFINE c == np[p]
<1>0. c \in Table /\ life[c] = "EMBRYO" /\ life[p] = "LIVE" /\ freevm(c) = {}
  BY FreesNothing DEF Calls, Forking
<1>1. ShmTypes'
  <2>1. shared_page' \in [Table -> SUBSET Pages]
    BY <1>0 DEF ShmTypes
  <2>2. strayed' \in BOOLEAN
    BY DEF ShmTypes
  <2>3. life' \in [Table -> {"UNUSED", "EMBRYO", "LIVE", "ZOMBIE"}]
    BY <1>0 DEF ShmTypes
  <2>4. mapped' \in [Table -> SUBSET Pages] /\ pc' \in [Table -> PCs]
    BY <1>0 DEF ShmTypes, PCs
  <2>5. np' \in [Table -> {0} \cup Table] /\ k' \in [Table -> 0..NSHAREPAGE]
    BY <1>0 DEF ShmTypes
  <2> QED BY <2>1, <2>2, <2>3, <2>4, <2>5 DEF ShmTypes
<1>2. Calls'
  BY <1>0 DEF Calls, Forking, Reaping, ShmTypes, Counting
<1>3. Maps'
  BY <1>0 DEF Maps, ShmTypes, Calls
<1>4. (SMP \/ Loads)'
  BY <1>0 DEF Loads, ShmTypes, Counting
<1>5. CASE k[p] = 0 /\ UNCHANGED <<shared_page, strayed>>
  <2>0. ~strayed => shared_page[c] = {}
    BY <1>0, <1>5 DEF Records, ShmTypes, Pages
  <2>1. (strayed \/ Records)'
    BY <1>0, <1>5, <2>0 DEF Records, ShmTypes, Calls, Forking, Reaping
  <2>2. (SMP \/ strayed \/ Exact)'
    <3>1. ASSUME ~strayed, NEW j \in Pages PROVE Counted(j)' = Counted(j)
      BY <1>0, <1>5, <2>0, <3>1 DEF Counted, Users, ShmTypes
    <3> QED BY <1>5, <3>1, SameCounts
  <2> QED BY <1>0, <1>1, <1>2, <1>3, <1>4, <2>1, <2>2
<1>6. CASE strayed' = TRUE
  BY <1>0, <1>1, <1>2, <1>3, <1>4, <1>6
<1> QED BY <1>5, <1>6

\* A page goes to the child's record and page table.
LEMMA CopyPageKeeps ==
  ASSUME ShmInv, NEW p \in Table, pc[p] = "copy", k[p] \in shared_page[p],
         shared_page' = [shared_page EXCEPT ![np[p]] = @ \cup {k[p]}],
         mapped' = [mapped EXCEPT ![np[p]] = copy_maps(np[p], k[p])],
         pc' = [pc EXCEPT ![p] = "copy_count"],
         UNCHANGED <<life, freed, np, k, strayed, sm_counts, loaded>>
  PROVE  ShmInv'
<1> USE ShmSizes DEF ShmInv, copy_maps
<1> DEFINE c == np[p]
<1>0. /\ c \in Table /\ life[c] = "EMBRYO" /\ life[p] = "LIVE" /\ k[p] \in Pages
      /\ pc[c] = "user"
  BY DEF Calls, Forking, ShmTypes
<1>1. ShmTypes'
  BY <1>0 DEF ShmTypes, PCs
<1>2. Calls'
  BY <1>0 DEF Calls, Forking, Reaping, ShmTypes, Counting
<1>3. Maps'
  BY <1>0 DEF Maps, ShmTypes
<1>4. (SMP \/ Loads)'
  BY <1>0 DEF Loads, ShmTypes, Counting
<1>5. (strayed \/ Records)'
  <2> SUFFICES ASSUME ~strayed PROVE Records'
    OBVIOUS
  <2>1. \A q \in Table : Forking(q) /\ q # p => np[q] # c
    BY DEF Calls, Forking
  <2>2. \A q \in Table : Reaping(q) => np[q] # c
    BY <1>0 DEF Calls
  <2>3. \A i \in shared_page[c] \cup {k[p]} : i <= k[p]
    BY <1>0 DEF Records, ShmTypes, Pages
  <2> QED BY <1>0, <2>1, <2>2, <2>3 DEF Records, ShmTypes, Forking, Reaping
<1>6. (SMP \/ strayed \/ Exact)'
  <2>1. ASSUME ~strayed, NEW j \in Pages PROVE Counted(j)' = Counted(j)
    <3>1. k[p] \notin shared_page[c]
      BY <1>0, <2>1 DEF Records, ShmTypes, Pages
    <3> QED BY <1>0, <3>1 DEF Counted, Users, ShmTypes
  <2> QED BY <2>1, SameCounts
<1> QED BY <1>1, <1>2, <1>3, <1>4, <1>5, <1>6

\* copyuvm() goes from page to page.
LEMMA CopyKeeps ==
  ASSUME ShmInv, NEW p \in Table, copyuvm(p)
  PROVE  ShmInv'
<1> USE ShmSizes DEF ShmInv, In
<1> DEFINE c == np[p]
<1>0. /\ pc[p] = "copy" /\ UNCHANGED <<sm_counts, loaded>>
      /\ c \in Table /\ life[c] = "EMBRYO" /\ life[p] = "LIVE"
  BY DEF copyuvm, Calls, Forking
<1>1. CASE k[p] = 0 /\ ForkFails(p) /\ UNCHANGED <<shared_page, strayed>>
  BY <1>0, <1>1, ForkFailsKeeps
<1>2. CASE /\ k[p] \in shared_page[p] /\ ForkFails(p) /\ strayed' = TRUE
           /\ shared_page' = [shared_page EXCEPT ![c] = @ \cup {k[p]}]
  BY <1>0, <1>2, ForkFailsKeeps
<1>3. CASE /\ k[p] \in shared_page[p]
           /\ shared_page' = [shared_page EXCEPT ![c] = @ \cup {k[p]}]
           /\ mapped' = [mapped EXCEPT ![c] = copy_maps(c, k[p])]
           /\ pc' = [pc EXCEPT ![p] = "copy_count"]
           /\ UNCHANGED <<life, freed, np, k, strayed>>
  BY <1>0, <1>3, CopyPageKeeps
<1>4. CASE /\ k[p] \in Pages \ shared_page[p]
           /\ k' = [k EXCEPT ![p] = @ + 1]
           /\ UNCHANGED <<life, shared_page, mapped, freed, pc, np, strayed>>
  <2>1. k[p] + 1 \in 0..NSHAREPAGE /\ \A i \in Pages : i < k[p] => i < k[p] + 1
    BY <1>4 DEF Pages
  <2>2. ShmTypes'
    BY <1>0, <1>4, <2>1 DEF ShmTypes
  <2>3. Calls' /\ Maps'
    BY <1>0, <1>4 DEF Calls, Maps, Forking, Reaping, ShmTypes, Counting
  <2>4. (SMP \/ Loads)'
    BY <1>0, <1>4 DEF Loads, ShmTypes, Counting
  <2>5. (strayed \/ Records)'
    BY <1>0, <1>4, <2>1 DEF Records, ShmTypes
  <2>6. (SMP \/ strayed \/ Exact)'
    <3>1. \A j \in Pages : Counted(j)' = Counted(j)
      BY <1>0, <1>4 DEF Counted, Users, ShmTypes
    <3> QED BY <1>0, <1>4, <3>1, SameCounts
  <2> QED BY <1>4, <2>2, <2>3, <2>4, <2>5, <2>6
<1>5. CASE /\ life' = [life EXCEPT ![c] = "LIVE"]
           /\ pc' = [pc EXCEPT ![p] = "user"]
           /\ np' = [np EXCEPT ![p] = 0] /\ k' = [k EXCEPT ![p] = 0]
           /\ UNCHANGED <<shared_page, mapped, freed, strayed>>
  <2>1. ShmTypes'
    BY <1>0, <1>5 DEF ShmTypes, PCs
  <2>2. Calls'
    BY <1>0, <1>5 DEF Calls, Forking, Reaping, ShmTypes, Counting
  <2>3. Maps'
    BY <1>0, <1>5 DEF Maps, ShmTypes
  <2>4. (SMP \/ Loads)'
    BY <1>0, <1>5 DEF Loads, ShmTypes, Counting
  <2>5. (strayed \/ Records)'
    BY <1>0, <1>5 DEF Records, ShmTypes
  <2>6. (SMP \/ strayed \/ Exact)'
    <3>1. \A j \in Pages : Counted(j)' = Counted(j)
      BY <1>0, <1>5 DEF Counted, Users, ShmTypes
    <3> QED BY <1>0, <1>5, <3>1, SameCounts
  <2> QED BY <1>5, <2>1, <2>2, <2>3, <2>4, <2>5, <2>6
<1> QED BY <1>1, <1>2, <1>3, <1>4, <1>5 DEF copyuvm

\* wait() goes from page to page.
LEMMA ReapKeeps ==
  ASSUME ShmInv, NEW p \in Table, reap(p)
  PROVE  ShmInv'
<1> USE ShmSizes DEF ShmInv, In
<1> DEFINE z == np[p]
<1>0. /\ pc[p] = "reap" /\ UNCHANGED <<sm_counts, loaded, strayed>>
      /\ z \in Table /\ life[z] = "ZOMBIE" /\ life[p] = "LIVE" /\ freevm(z) = {}
      /\ \A q \in Table : Reaping(q) => q = p
      /\ \A q \in Table : Forking(q) => np[q] # z
  BY FreesNothing DEF reap, Calls, Reaping
<1>1. CASE /\ k[p] \in shared_page[z]
           /\ shared_page' = [shared_page EXCEPT ![z] = @ \ {k[p]}]
           /\ pc' = [pc EXCEPT ![p] = "reap_count"]
           /\ UNCHANGED <<life, mapped, freed, np, k>>
  <2>0. k[p] \in Pages
    BY <1>0, <1>1 DEF ShmTypes
  <2>1. ShmTypes'
    BY <1>0, <1>1 DEF ShmTypes, PCs
  <2>2. Calls'
    BY <1>0, <1>1, <2>0 DEF Calls, Forking, Reaping, ShmTypes, Counting
  <2>3. Maps'
    BY <1>0, <1>1 DEF Maps, ShmTypes, Calls
  <2>4. (SMP \/ Loads)'
    BY <1>0, <1>1 DEF Loads, ShmTypes, Counting
  <2>5. (strayed \/ Records)'
    <3> SUFFICES ASSUME ~strayed PROVE Records'
      BY <1>0
    <3>1. \A i \in shared_page[z] \ {k[p]} : k[p] < i
      BY <1>0, <2>0 DEF Records, ShmTypes, Pages
    <3> QED BY <1>0, <1>1, <3>1 DEF Records, ShmTypes, Forking, Reaping
  <2>6. (SMP \/ strayed \/ Exact)'
    <3>1. \A j \in Pages : Counted(j)' = Counted(j)
      BY <1>0, <1>1 DEF Counted, Users, ShmTypes, Forking, Reaping
    <3> QED BY <1>0, <1>1, <3>1, SameCounts
  <2> QED BY <1>1, <2>1, <2>2, <2>3, <2>4, <2>5, <2>6
<1>2. CASE /\ k[p] \in Pages \ shared_page[z]
           /\ k' = [k EXCEPT ![p] = @ + 1]
           /\ UNCHANGED <<life, shared_page, mapped, freed, pc, np>>
  <2>1. k[p] + 1 \in 0..NSHAREPAGE
        /\ \A i \in Pages : k[p] <= i /\ i # k[p] => k[p] + 1 <= i
    BY <1>2 DEF Pages
  <2>2. ShmTypes'
    BY <1>0, <1>2, <2>1 DEF ShmTypes
  <2>3. Calls' /\ Maps'
    BY <1>0, <1>2 DEF Calls, Maps, Forking, Reaping, ShmTypes, Counting
  <2>4. (SMP \/ Loads)'
    BY <1>0, <1>2 DEF Loads, ShmTypes, Counting
  <2>5. (strayed \/ Records)'
    BY <1>0, <1>2, <2>1 DEF Records, ShmTypes
  <2>6. (SMP \/ strayed \/ Exact)'
    <3>1. \A j \in Pages : Counted(j)' = Counted(j)
      BY <1>0, <1>2 DEF Counted, Users, ShmTypes
    <3> QED BY <1>0, <1>2, <3>1, SameCounts
  <2> QED BY <1>2, <2>2, <2>3, <2>4, <2>5, <2>6
<1>3. CASE /\ k[p] = NSHAREPAGE
           /\ freed' = freed \cup freevm(z)
           /\ mapped' = [mapped EXCEPT ![z] = {}]
           /\ life' = [life EXCEPT ![z] = "UNUSED"]
           /\ pc' = [pc EXCEPT ![p] = "user"]
           /\ np' = [np EXCEPT ![p] = 0] /\ k' = [k EXCEPT ![p] = 0]
           /\ UNCHANGED shared_page
  <2>0. ~strayed => shared_page[z] = {}
    BY <1>0, <1>3 DEF Records, ShmTypes, Pages
  <2>1. ShmTypes'
    BY <1>0, <1>3 DEF ShmTypes, PCs
  <2>2. Calls'
    BY <1>0, <1>3 DEF Calls, Forking, Reaping, ShmTypes, Counting
  <2>3. Maps'
    BY <1>0, <1>3 DEF Maps, ShmTypes, Calls
  <2>4. (SMP \/ Loads)'
    BY <1>0, <1>3 DEF Loads, ShmTypes, Counting
  <2>5. (strayed \/ Records)'
    BY <1>0, <1>3, <2>0 DEF Records, ShmTypes
  <2>6. (SMP \/ strayed \/ Exact)'
    <3>1. ASSUME ~strayed, NEW j \in Pages PROVE Counted(j)' = Counted(j)
      BY <1>0, <1>3, <2>0, <3>1 DEF Counted, Users, ShmTypes
    <3> QED BY <1>0, <1>3, <3>1, SameCounts
  <2> QED BY <1>0, <1>3, <2>1, <2>2, <2>3, <2>4, <2>5, <2>6
<1> QED BY <1>1, <1>2, <1>3 DEF reap

LEMMA ShmNextKeeps == ShmInv /\ [ShmemNext]_shmvars => ShmInv'
<1> SUFFICES ASSUME ShmInv, [ShmemNext]_shmvars PROVE ShmInv'
  OBVIOUS
<1>1. CASE UNCHANGED shmvars
  <2>1. \A i \in Pages : Counted(i)' = Counted(i)
    BY <1>1 DEF shmvars, Counted, Users
  <2>2. (SMP \/ strayed \/ Exact)'
    BY <1>1, <2>1, SameCounts DEF shmvars, ShmInv
  <2> QED BY <1>1, <2>2 DEF shmvars, ShmInv, ShmTypes, Calls, Maps, Loads, Records,
                            Forking, Reaping
<1>2. ASSUME NEW p \in Table, store(p) PROVE ShmInv'
  <2>1. pc[p] \in {"access", "copy_count", "reap_count"}
    BY <1>2 DEF store, Counting
  <2> QED BY <1>2, <2>1, AccessStoreKeeps, CopyStoreKeeps, ReapStoreKeeps
<1>3. ASSUME NEW p \in Table, NEW i \in Pages, shmem_access(p, i) PROVE ShmInv'
  BY <1>3, AccessKeeps
<1>4. ASSUME NEW p \in Table,
             \/ load(p) \/ fork_shared(p) \/ copyuvm(p) \/ exec(p) \/ exit_shared(p)
             \/ wait_shared(p) \/ reap(p)
      PROVE  ShmInv'
  BY <1>4, LoadKeeps, ForkKeeps, CopyKeeps, ExecKeeps, ExitKeeps, WaitKeeps,
     ReapKeeps
<1> QED BY <1>1, <1>2, <1>3, <1>4 DEF ShmemNext
-----------------------------------------------------------------------------
\* Each page on the record of fork(), exec(), exit() and wait() stays where the
\* inductive invariant says.
THEOREM PagesInvariant == ShmemSpec => []ShmInv
BY InitShmInv, ShmNextKeeps, PTL DEF ShmemSpec

\* PagesKept: whatever exec() and failing fork()s do, shmem_access() never maps
\* a page that is mapped and freevm() never frees a shared frame, on any number
\* of CPUs.
THEOREM PagesAreKept == ShmemSpec => []PagesKept
<1>1. ShmInv => PagesKept
  BY DEF ShmInv, Maps, PagesKept, NoRemap, FramesKept
<1> QED BY <1>1, PagesInvariant, PTL

\* SharesCounted: on one CPU, as long as no exec() and no failing fork() met a
\* page, sm_counts is right between calls and who has a page has it mapped.
THEOREM CountsAreRight == ShmemSpec => []SharesCounted
<1>1. ShmInv => SharesCounted
  <2> SUFFICES ASSUME ShmInv, ~SMP, ~strayed PROVE CountsExact /\ AccessMapped
    BY DEF SharesCounted
  <2>1. AccessMapped
    BY DEF ShmInv, Records, AccessMapped
  <2>2. CountsExact
    <3> SUFFICES ASSUME \A p \in Table : pc[p] = "user", NEW i \in Pages
                 PROVE  sm_counts[i] = Cardinality(Users(i))
      BY DEF CountsExact
    <3>1. Counted(i) = Users(i)
      BY DEF Counted, Users
    <3> QED BY <3>1 DEF ShmInv, Exact
  <2> QED BY <2>1, <2>2
<1> QED BY <1>1, PagesInvariant, PTL
-----------------------------------------------------------------------------
(* VM: the inductive invariant.                                            *)

TaskStates == {"UNUSED", "EMBRYO", "RUN", "FAULT", "ZOMBIE"}
Ops == {"user", "sbrk", "fork kvm", "fork", "exec kvm", "exec seg", "exec",
        "exec stack"}
InFork(p) == op[p] \in {"fork kvm", "fork"}
InKvm(p) == op[p] \in {"fork kvm", "exec kvm"}
Copies(p) == op[p] \in {"fork", "exec seg", "exec", "exec stack"}
UserSizes == 0..(KERNBASE - 1)
Holders == {"kvm", "table", "page"} \X Nat

\* Every variable has its type, and no call has panicked.
VMTypes ==
  /\ free \in Nat
  /\ pstate \in [Tasks -> TaskStates]
  /\ sz \in [Tasks -> UserSizes]
  /\ kstack \in [Tasks -> SUBSET {"stack"}]
  /\ pgdir \in [Tasks -> SUBSET Holders]
  /\ op \in [Tasks -> Ops]
  /\ new \in [Tasks -> SUBSET Holders]
  /\ mem \in [Tasks -> SUBSET {"page"}]
  /\ va \in [Tasks -> Nat]
  /\ lim \in [Tasks -> UserSizes]
  /\ segs \in [Tasks -> Nat]
  /\ child \in [Tasks -> Tasks \cup {NoChild}]
  /\ ~remapped

\* Directories are finite, so that their pages can be counted.
Finites == \A p \in Tasks : IsFiniteSet(pgdir[p]) /\ IsFiniteSet(new[p])

\* No page is lost, and none has two owners.
Conserved == free + Held(kstack) + Held(mem) + Held(pgdir) + Held(new) = NFRAMES

\* What a process has in each state: a stack while its slot is taken, a directory
\* once it runs; only a running process is in a call.
SlotOK(p) ==
  /\ kstack[p] = IF pstate[p] = "UNUSED" THEN NoPages ELSE {"stack"}
  /\ pstate[p] \in {"UNUSED", "EMBRYO"} => pgdir[p] = NoPages
  /\ op[p] # "user" => pstate[p] = "RUN"

\* What a call has in hand, and what its loop has done.
CallOK(p) ==
  /\ op[p] \in {"user", "sbrk"} => new[p] = NoPages
  /\ ~Loops(p) => mem[p] = NoPages
  /\ mem[p] # NoPages => More(p)
  /\ op[p] = "user" => va[p] = 0 /\ lim[p] = 0
  /\ op[p] = "exec kvm" => lim[p] = 0
  /\ InFork(p) => child[p] \in Tasks /\ lim[p] = sz[p]
  /\ InKvm(p) => va[p] <= KTABS /\ \A x \in new[p] : x[1] = "kvm" /\ x[2] < va[p]
  /\ op[p] = "sbrk" => \A a \in Nat : a * PGSIZE < sz[p] => a < va[p]
  /\ Loops(p) => \A a \in Nat : a < va[p] => a * PGSIZE < lim[p]

\* The pages of a process: those of its size, and those that sbrk has added.
OldPage(p, a) == IF op[p] = "sbrk" THEN a < va[p] ELSE a * PGSIZE < sz[p]
OldOK(p) ==
  \A a \in Nat :
    /\ PageAt(a) \in pgdir[p] => OldPage(p, a) /\ TableAt(PDX(a)) \in pgdir[p]
    /\ pstate[p] = "RUN" /\ OldPage(p, a) => PageAt(a) \in pgdir[p]

\* The pages of the image that fork or exec is making.
NewPage(p, a) == IF op[p] = "exec seg" THEN a * PGSIZE < lim[p] ELSE a < va[p]
NewOK(p) ==
  \A a \in Nat :
    /\ PageAt(a) \in new[p] => NewPage(p, a) /\ TableAt(PDX(a)) \in new[p]
    /\ Copies(p) /\ NewPage(p, a) => PageAt(a) \in new[p]

\* Two forks do not fill the same slot.
ChildrenApart ==
  /\ \A p \in Tasks : InFork(p) => pstate[child[p]] = "EMBRYO"
  /\ \A p, q \in Tasks :
       InFork(p) /\ InFork(q) /\ child[p] = child[q] => p = q

RowOK(p) == SlotOK(p) /\ CallOK(p) /\ OldOK(p) /\ NewOK(p)

VMInv ==
  /\ VMTypes /\ Finites /\ Conserved /\ ChildrenApart
  /\ \A p \in Tasks : RowOK(p)
-----------------------------------------------------------------------------
(* Sizes and pages.                                                        *)

\* What is assumed of the constants.
LEMMA VMSizes ==
  /\ PGSIZE \in Nat /\ PGSIZE >= 1 /\ PTSPAN \in Nat /\ PTSPAN >= 1
  /\ KTABS \in Nat /\ KERNBASE \in Nat /\ PGSIZE < KERNBASE
  /\ NFRAMES \in Nat /\ 4 + KTABS <= NFRAMES /\ Segments \in Nat
  /\ 1 \in Tasks /\ IsFiniteSet(Tasks)
BY VMAssumption

\* A page begins before a size iff it is among the first PGROUNDUP of that size.
LEMMA RoundUp ==
  ASSUME NEW s \in Nat
  PROVE  /\ PGROUNDUP(s) \in Nat
         /\ \A a \in Nat : a < PGROUNDUP(s) <=> a * PGSIZE < s
<1> DEFINE n == s + PGSIZE - 1
           q == n \div PGSIZE
<1>1. n \in Nat /\ PGSIZE \in Nat \ {0}
  BY VMSizes
<1>2. q \in Nat /\ q * PGSIZE <= n /\ n < (q + 1) * PGSIZE
  <2> HIDE DEF n
  <2> QED BY <1>1, Z3T(30)
<1>3. ASSUME NEW a \in Nat PROVE a < q <=> a * PGSIZE < s
  <2>1. CASE a < q
    <3>1. PICK r \in Nat : q = a + 1 + r
      <4>1. q - a - 1 \in Nat
        BY <1>2, <2>1
      <4> QED BY <4>1, <1>2
    <3>2. r * PGSIZE \in Nat /\ a * PGSIZE \in Nat
      BY <1>1
    <3>3. q * PGSIZE = a * PGSIZE + PGSIZE + r * PGSIZE
      BY <1>1, <3>1, Z3
    <3> QED BY <1>1, <1>2, <2>1, <3>2, <3>3
  <2>2. CASE ~(a < q)
    <3>1. PICK r \in Nat : a = q + r
      <4>1. a - q \in Nat
        BY <1>2, <2>2
      <4> QED BY <4>1, <1>2
    <3>2. r * PGSIZE \in Nat /\ q * PGSIZE \in Nat
      BY <1>1, <1>2
    <3>3. a * PGSIZE = q * PGSIZE + r * PGSIZE /\ (q + 1) * PGSIZE = q * PGSIZE + PGSIZE
      BY <1>1, <1>2, <3>1, Z3
    <3> QED BY <1>1, <1>2, <2>2, <3>2, <3>3
  <2> QED BY <2>1, <2>2
<1> QED BY <1>2, <1>3 DEF PGROUNDUP

\* A later page begins later.
LEMMA PagesOrdered ==
  ASSUME NEW a \in Nat, NEW b \in Nat, a <= b
  PROVE  a * PGSIZE \in Nat /\ a * PGSIZE <= b * PGSIZE
<1>1. PICK r \in Nat : b = a + r
  <2>1. b - a \in Nat /\ b = a + (b - a)
    OBVIOUS
  <2> QED BY <2>1
<1>2. r * PGSIZE \in Nat /\ a * PGSIZE \in Nat
  BY VMSizes
<1>3. b * PGSIZE = a * PGSIZE + r * PGSIZE
  BY VMSizes, <1>1, Z3
<1> QED BY <1>2, <1>3

\* The page table of a page.
LEMMA PdxType == ASSUME NEW a \in Nat PROVE PDX(a) \in Nat
BY VMSizes DEF PDX

\* Pages, tables and the kernel part have different places.
LEMMA PlacesDiffer ==
  ASSUME NEW a \in Nat, NEW b \in Nat
  PROVE  /\ PageAt(a) \in Holders /\ TableAt(a) \in Holders /\ KvmAt(a) \in Holders
         /\ IsPage(PageAt(a)) /\ ~IsPage(TableAt(a)) /\ ~IsPage(KvmAt(a))
         /\ PageAt(a)[2] = a /\ KvmAt(a)[1] = "kvm" /\ KvmAt(a)[2] = a
         /\ PageAt(a) # TableAt(b) /\ PageAt(a) # KvmAt(b)
         /\ PageAt(a) = PageAt(b) => a = b
BY DEF PageAt, TableAt, KvmAt, IsPage, Holders

\* A place of a page is that of its number.
LEMMA PageNamed ==
  ASSUME NEW x \in Holders, IsPage(x)
  PROVE  x[2] \in Nat /\ x = PageAt(x[2])
BY DEF Holders, IsPage, PageAt
-----------------------------------------------------------------------------
(* Counting.                                                               *)

\* If no process holds infinitely many pages they can be counted.
LEMMA PlacesFinite ==
  ASSUME NEW f, \A p \in Tasks : IsFiniteSet(f[p])
  PROVE  IsFiniteSet(Places(f)) /\ Held(f) \in Nat
<1> DEFINE g == [p \in Tasks |-> {p} \X f[p]]
           T == {{p} \X f[p] : p \in Tasks}
<1>1. g \in Surjection(Tasks, T)
  BY DEF Surjection
<1>2. IsFiniteSet(T)
  BY <1>1, VMSizes, FS_Surjection
<1>3. ASSUME NEW S \in T PROVE IsFiniteSet(S)
  <2>1. PICK p \in Tasks : S = {p} \X f[p]
    OBVIOUS
  <2>2. IsFiniteSet({p}) /\ IsFiniteSet(f[p])
    BY FS_Singleton
  <2> QED BY <2>1, <2>2, FS_Product
<1>4. IsFiniteSet(UNION T)
  <2> HIDE DEF T
  <2> QED BY <1>2, <1>3, FS_UNION
<1>5. IsFiniteSet(Places(f))
  BY <1>4 DEF Places
<1> QED BY <1>5, FS_CardinalityType DEF Held

\* What a process holds counts for itself.
LEMMA HeldChanges ==
  ASSUME NEW f, NEW g, NEW p \in Tasks, \A q \in Tasks : IsFiniteSet(f[q]),
         IsFiniteSet(g[p]), \A q \in Tasks \ {p} : g[q] = f[q]
  PROVE  /\ Held(g) = Held(f) - Cardinality(f[p]) + Cardinality(g[p])
         /\ Held(f) \in Nat /\ Held(g) \in Nat
         /\ Cardinality(f[p]) \in Nat /\ Cardinality(g[p]) \in Nat
<1> DEFINE Old == {p} \X f[p]
           New == {p} \X g[p]
           Rest == Places(f) \ Old
<1>1. IsFiniteSet({p}) /\ Cardinality({p}) = 1 /\ IsFiniteSet(f[p])
  BY FS_Singleton
<1>2. IsFiniteSet(Old) /\ Cardinality(Old) = 1 * Cardinality(f[p])
  BY <1>1, FS_Product
<1>3. IsFiniteSet(New) /\ Cardinality(New) = 1 * Cardinality(g[p])
  BY <1>1, FS_Product
<1>4. Cardinality(f[p]) \in Nat /\ Cardinality(g[p]) \in Nat
  BY <1>1, FS_CardinalityType
<1>5. IsFiniteSet(Places(f)) /\ Held(f) \in Nat
  BY PlacesFinite
<1>6. \A q \in Tasks : IsFiniteSet(g[q])
  OBVIOUS
<1>7. Held(g) \in Nat
  BY <1>6, PlacesFinite
<1>8. Places(f) \cap Old = Old
  BY DEF Places
<1>9. IsFiniteSet(Rest) /\ Cardinality(Rest) = Held(f) - Cardinality(Old)
  <2> HIDE DEF Old
  <2>1. /\ IsFiniteSet(Places(f) \ Old)
        /\ Cardinality(Places(f) \ Old) = Cardinality(Places(f)) - Cardinality(Places(f) \cap Old)
    BY <1>5, FS_Difference
  <2> QED BY <1>8, <2>1 DEF Held
<1>10. Places(g) = Rest \cup New
  <2>1. ASSUME NEW x PROVE x \in Places(g) <=> x \in Rest \cup New
    <3>1. x \in Places(g) <=> \E q \in Tasks : x \in {q} \X g[q]
      BY DEF Places
    <3>2. x \in Places(f) <=> \E q \in Tasks : x \in {q} \X f[q]
      BY DEF Places
    <3>3. ASSUME NEW q \in Tasks, q # p, x \in {q} \X f[q] PROVE x \notin Old /\ x \notin New
      BY <3>3
    <3> QED BY <3>1, <3>2, <3>3
  <2> QED BY <2>1
<1>11. Rest \cap New = {}
  <2>1. ASSUME NEW x \in Rest, x \in New PROVE FALSE
    <3>1. PICK q \in Tasks : x \in {q} \X f[q]
      BY <2>1 DEF Places
    <3>2. q = p
      BY <3>1, <2>1
    <3> QED BY <3>1, <3>2, <2>1
  <2> QED BY <2>1
<1>12. Cardinality(Rest \cup New) = Cardinality(Rest) + Cardinality(New) - Cardinality({})
  <2> HIDE DEF Rest, New
  <2> QED BY <1>3, <1>9, <1>11, FS_Union
<1>13. Held(g) = Cardinality(Rest) + Cardinality(New)
  <2>1. Cardinality(Rest) \in Nat /\ Cardinality(New) \in Nat
    BY <1>3, <1>9, FS_CardinalityType
  <2>2. Held(g) = Cardinality(Rest \cup New)
    BY <1>10 DEF Held
  <2> HIDE DEF Rest, New
  <2> QED BY <2>1, <2>2, <1>12, FS_EmptySet
<1> HIDE DEF Old, New, Rest
<1>14. Held(g) = Held(f) - Cardinality(f[p]) + Cardinality(g[p])
  BY <1>2, <1>3, <1>4, <1>5, <1>9, <1>13
<1> QED BY <1>4, <1>5, <1>7, <1>14
-----------------------------------------------------------------------------
(* What the invariant says of one process.                                 *)

\* Every page of a process is of user memory, as is every one of a new image.
LEMMA PagesBounded ==
  ASSUME VMInv, NEW p \in Tasks, NEW a \in Nat
  PROVE  /\ PageAt(a) \in pgdir[p] => a * PGSIZE < KERNBASE
         /\ PageAt(a) \in new[p] => a * PGSIZE < KERNBASE
<1> DEFINE m == a * PGSIZE
<1>1. RowOK(p) /\ VMTypes
  BY DEF VMInv
<1>2. /\ m \in Nat /\ KERNBASE \in Nat
      /\ sz[p] \in Nat /\ sz[p] < KERNBASE /\ lim[p] \in Nat /\ lim[p] < KERNBASE
  BY <1>1, VMSizes DEF VMTypes, UserSizes
<1> HIDE DEF m
<1>3. ASSUME NEW n \in Nat, n < KERNBASE, m < n PROVE m < KERNBASE
  BY <1>2, <1>3
<1> USE DEF m
<1>4. ASSUME PageAt(a) \in pgdir[p] PROVE m < KERNBASE
  <2>1. OldPage(p, a)
    BY <1>1, <1>4 DEF RowOK, OldOK
  <2>2. CASE op[p] = "sbrk"
    <3>1. a < va[p] /\ Loops(p)
      BY <2>1, <2>2 DEF OldPage, Loops
    <3>2. m < lim[p]
      BY <1>1, <3>1 DEF RowOK, CallOK
    <3> QED BY <1>2, <1>3, <3>2
  <2>3. CASE op[p] # "sbrk"
    <3>1. m < sz[p]
      BY <2>1, <2>3 DEF OldPage
    <3> QED BY <1>2, <1>3, <3>1
  <2> QED BY <2>2, <2>3
<1>5. ASSUME PageAt(a) \in new[p] PROVE m < KERNBASE
  <2>1. NewPage(p, a)
    BY <1>1, <1>5 DEF RowOK, NewOK
  <2>2. op[p] \notin {"user", "sbrk"}
    BY <1>1, <1>5 DEF RowOK, CallOK, NoPages
  <2>3. ~InKvm(p)
    <3>1. PageAt(a)[1] # "kvm"
      BY DEF PageAt
    <3> QED BY <1>1, <1>5, <3>1 DEF RowOK, CallOK
  <2>4. op[p] \in {"exec seg", "fork", "exec", "exec stack"}
    BY <1>1, <2>2, <2>3 DEF VMTypes, Ops, InKvm
  <2>5. CASE op[p] = "exec seg"
    <3>1. m < lim[p]
      BY <2>1, <2>5 DEF NewPage
    <3> QED BY <1>2, <1>3, <3>1
  <2>6. CASE op[p] # "exec seg"
    <3>1. a < va[p] /\ Loops(p)
      BY <2>1, <2>4, <2>6 DEF NewPage, Loops
    <3>2. m < lim[p]
      BY <1>1, <3>1 DEF RowOK, CallOK
    <3> QED BY <1>2, <1>3, <3>2
  <2> QED BY <2>5, <2>6
<1> QED BY <1>4, <1>5

\* freevm() leaves nothing behind.
LEMMA FreedAll ==
  ASSUME NEW d \in SUBSET Holders,
         \A a \in Nat : PageAt(a) \in d => a * PGSIZE < KERNBASE
  PROVE  Freed(d) = d
<1>1. ASSUME NEW x \in d, IsPage(x) PROVE x \in Dropped(d, KERNBASE, 0)
  <2>1. x[2] \in Nat /\ x = PageAt(x[2])
    BY <1>1, PageNamed
  <2>2. x[2] * PGSIZE < KERNBASE /\ x[2] * PGSIZE \in Nat
    BY <1>1, <2>1, VMSizes
  <2>3. PGROUNDUP(0) \in Nat /\ ~(x[2] < PGROUNDUP(0))
    <3>1. 0 \in Nat
      OBVIOUS
    <3> QED BY <2>1, <2>2, <3>1, RoundUp
  <2> QED BY <1>1, <2>1, <2>2, <2>3 DEF Dropped
<1>2. ASSUME NEW x \in Freed(d) PROVE x \in d
  BY <1>2 DEF Freed, Dropped
<1>3. ASSUME NEW x \in d PROVE x \in Freed(d)
  BY <1>1, <1>3 DEF Freed
<1> QED BY <1>2, <1>3

\* freevm() of the image of a process, old or new, frees all of it.
LEMMA FreesBoth ==
  ASSUME VMInv, NEW p \in Tasks
  PROVE  Freed(pgdir[p]) = pgdir[p] /\ Freed(new[p]) = new[p]
<1>1. pgdir[p] \in SUBSET Holders /\ new[p] \in SUBSET Holders
  BY DEF VMInv, VMTypes
<1> QED BY <1>1, PagesBounded, FreedAll

\* What deallocuvm() leaves of a finite directory.
LEMMA DropCounts ==
  ASSUME NEW d, IsFiniteSet(d), NEW s, NEW t
  PROVE  /\ IsFiniteSet(deallocuvm(d, s, t))
         /\ Cardinality(deallocuvm(d, s, t)) = Cardinality(d) - Cardinality(Dropped(d, s, t))
         /\ Cardinality(Dropped(d, s, t)) \in Nat
<1>1. Dropped(d, s, t) \in SUBSET d /\ d \cap Dropped(d, s, t) = Dropped(d, s, t)
  BY DEF Dropped
<1>2. IsFiniteSet(Dropped(d, s, t))
  BY <1>1, FS_Subset
<1>3. /\ IsFiniteSet(d \ Dropped(d, s, t))
      /\ Cardinality(d \ Dropped(d, s, t)) = Cardinality(d) - Cardinality(d \cap Dropped(d, s, t))
  BY FS_Difference
<1> QED BY <1>1, <1>2, <1>3, FS_CardinalityType DEF deallocuvm

\* The places of one page are finite.
LEMMA SmallFinite ==
  ASSUME VMInv
  PROVE  /\ \A p \in Tasks : IsFiniteSet(kstack[p]) /\ IsFiniteSet(mem[p])
         /\ \A p \in Tasks : IsFiniteSet(pgdir[p]) /\ IsFiniteSet(new[p])
<1>1. ASSUME NEW p \in Tasks PROVE IsFiniteSet(kstack[p]) /\ IsFiniteSet(mem[p])
  <2>1. kstack[p] \in SUBSET {"stack"} /\ mem[p] \in SUBSET {"page"}
    BY DEF VMInv, VMTypes
  <2>2. IsFiniteSet({"stack"}) /\ IsFiniteSet({"page"})
    BY FS_Singleton
  <2> QED BY <2>1, <2>2, FS_Subset
<1> QED BY <1>1 DEF VMInv, Finites

\* The counts of the invariant are numbers.
LEMMA HeldTypes ==
  ASSUME VMInv
  PROVE  Held(kstack) \in Nat /\ Held(mem) \in Nat /\ Held(pgdir) \in Nat /\ Held(new) \in Nat
BY SmallFinite, PlacesFinite
-----------------------------------------------------------------------------
(* A step of one process.                                                  *)

Same(q) ==
  /\ pstate'[q] = pstate[q] /\ sz'[q] = sz[q] /\ kstack'[q] = kstack[q]
  /\ pgdir'[q] = pgdir[q] /\ op'[q] = op[q] /\ new'[q] = new[q]
  /\ mem'[q] = mem[q] /\ va'[q] = va[q] /\ lim'[q] = lim[q]
  /\ child'[q] = child[q]

\* A process that a step does not touch keeps its row.
LEMMA SameKeeps ==
  ASSUME NEW q \in Tasks, RowOK(q), Same(q)
  PROVE  RowOK(q)'
<1>1. SlotOK(q)'
  BY DEF RowOK, SlotOK, Same, NoPages
<1>2. CallOK(q)'
  BY DEF RowOK, CallOK, Same, NoPages, Loops, More, InFork, InKvm
<1>3. OldOK(q)'
  BY DEF RowOK, OldOK, OldPage, Same
<1>4. NewOK(q)'
  BY DEF RowOK, NewOK, NewPage, Same, Copies
<1> QED BY <1>1, <1>2, <1>3, <1>4 DEF RowOK

\* A step that touches one process: its row and the counts are left to show.
LEMMA OneTaskKeeps ==
  ASSUME VMInv, VMTypes', Finites', Conserved', NEW p \in Tasks, RowOK(p)',
         \A q \in Tasks \ {p} : Same(q), pstate[p] # "EMBRYO",
         InFork(p)' => InFork(p) /\ child'[p] = child[p]
  PROVE  VMInv'
<1>1. ASSUME NEW q \in Tasks PROVE RowOK(q)'
  <2>1. CASE q = p
    BY <2>1
  <2>2. CASE q # p
    <3>1. RowOK(q) /\ Same(q)
      BY <2>2 DEF VMInv
    <3> QED BY <3>1, SameKeeps
  <2> QED BY <2>1, <2>2
<1>2. \A q \in Tasks : InFork(q)' => InFork(q) /\ child'[q] = child[q]
  BY DEF Same, InFork
<1>3. ASSUME NEW q \in Tasks, InFork(q)' PROVE pstate'[child'[q]] = "EMBRYO"
  <2>1. InFork(q) /\ child'[q] = child[q]
    BY <1>2, <1>3
  <2>2. child[q] \in Tasks /\ pstate[child[q]] = "EMBRYO"
    BY <2>1 DEF VMInv, ChildrenApart, RowOK, CallOK
  <2> QED BY <2>1, <2>2 DEF Same
<1>4. ChildrenApart'
  BY <1>2, <1>3 DEF VMInv, ChildrenApart
<1> QED BY <1>1, <1>4 DEF VMInv
-----------------------------------------------------------------------------
(* The end of a call.                                                      *)

\* A process that returns is in no call.
LEMMA ReturnCalls ==
  ASSUME VMInv, NEW p \in Tasks, Return(p)
  PROVE  /\ op' \in [Tasks -> Ops] /\ new' \in [Tasks -> SUBSET Holders]
         /\ mem' \in [Tasks -> SUBSET {"page"}] /\ va' \in [Tasks -> Nat]
         /\ lim' \in [Tasks -> UserSizes] /\ segs' \in [Tasks -> Nat]
         /\ child' \in [Tasks -> Tasks \cup {NoChild}]
         /\ op'[p] = "user"
         /\ \A q \in Tasks \ {p} :
              /\ op'[q] = op[q] /\ new'[q] = new[q] /\ mem'[q] = mem[q]
              /\ va'[q] = va[q] /\ lim'[q] = lim[q] /\ child'[q] = child[q]
         /\ CallOK(p)' /\ NewOK(p)' /\ ~InFork(p)'
<1>1. /\ op \in [Tasks -> Ops] /\ new \in [Tasks -> SUBSET Holders]
      /\ mem \in [Tasks -> SUBSET {"page"}] /\ va \in [Tasks -> Nat]
      /\ lim \in [Tasks -> UserSizes] /\ segs \in [Tasks -> Nat]
      /\ child \in [Tasks -> Tasks \cup {NoChild}] /\ 0 \in UserSizes
  BY VMSizes DEF VMInv, VMTypes, UserSizes
<1>2. /\ op' \in [Tasks -> Ops] /\ new' \in [Tasks -> SUBSET Holders]
      /\ mem' \in [Tasks -> SUBSET {"page"}] /\ va' \in [Tasks -> Nat]
      /\ lim' \in [Tasks -> UserSizes] /\ segs' \in [Tasks -> Nat]
      /\ child' \in [Tasks -> Tasks \cup {NoChild}]
  BY <1>1 DEF Return, NoPages, Ops
<1>3. \A q \in Tasks \ {p} :
        /\ op'[q] = op[q] /\ new'[q] = new[q] /\ mem'[q] = mem[q]
        /\ va'[q] = va[q] /\ lim'[q] = lim[q] /\ child'[q] = child[q]
  BY <1>1 DEF Return
<1>4. op'[p] = "user" /\ new'[p] = {} /\ mem'[p] = {} /\ va'[p] = 0 /\ lim'[p] = 0
  BY <1>1 DEF Return, NoPages
<1>5. CallOK(p)'
  BY <1>4 DEF CallOK, NoPages, Loops, InFork, InKvm
<1>6. NewOK(p)'
  BY <1>4 DEF NewOK, Copies
<1>7. ~InFork(p)'
  BY <1>4 DEF InFork
<1> QED BY <1>2, <1>3, <1>4, <1>5, <1>6, <1>7

\* A process that returns has no page in hand and no new image.
LEMMA ReturnCounts ==
  ASSUME VMInv, NEW p \in Tasks, Return(p)
  PROVE  /\ Held(new') = Held(new) - Cardinality(new[p])
         /\ Held(mem') = Held(mem) - Cardinality(mem[p])
         /\ Held(new') \in Nat /\ Held(mem') \in Nat
         /\ Cardinality(new[p]) \in Nat /\ Cardinality(mem[p]) \in Nat
         /\ \A q \in Tasks : IsFiniteSet(new'[q])
<1>1. new \in [Tasks -> SUBSET Holders] /\ mem \in [Tasks -> SUBSET {"page"}]
  BY DEF VMInv, VMTypes
<1>2. IsFiniteSet(NoPages) /\ Cardinality(NoPages) = 0
  BY FS_EmptySet DEF NoPages
<1>3. new' = [new EXCEPT ![p] = NoPages] /\ mem' = [mem EXCEPT ![p] = NoPages]
  BY DEF Return
<1>4. \A q \in Tasks : IsFiniteSet(new[q]) /\ IsFiniteSet(mem[q])
  BY SmallFinite
<1>5. /\ new'[p] = NoPages /\ \A q \in Tasks \ {p} : new'[q] = new[q]
      /\ mem'[p] = NoPages /\ \A q \in Tasks \ {p} : mem'[q] = mem[q]
  BY <1>1, <1>3
<1>6. /\ Held(new') = Held(new) - Cardinality(new[p]) + Cardinality(NoPages)
      /\ Held(new) \in Nat /\ Held(new') \in Nat /\ Cardinality(new[p]) \in Nat
  <2>1. IsFiniteSet(new'[p]) /\ \A q \in Tasks : IsFiniteSet(new[q])
    BY <1>2, <1>4, <1>5
  <2>2. /\ Held(new') = Held(new) - Cardinality(new[p]) + Cardinality(new'[p])
        /\ Held(new) \in Nat /\ Held(new') \in Nat /\ Cardinality(new[p]) \in Nat
    BY <1>5, <2>1, HeldChanges
  <2> QED BY <1>5, <2>2
<1>7. /\ Held(mem') = Held(mem) - Cardinality(mem[p]) + Cardinality(NoPages)
      /\ Held(mem) \in Nat /\ Held(mem') \in Nat /\ Cardinality(mem[p]) \in Nat
  <2>1. IsFiniteSet(mem'[p]) /\ \A q \in Tasks : IsFiniteSet(mem[q])
    BY <1>2, <1>4, <1>5
  <2>2. /\ Held(mem') = Held(mem) - Cardinality(mem[p]) + Cardinality(mem'[p])
        /\ Held(mem) \in Nat /\ Held(mem') \in Nat /\ Cardinality(mem[p]) \in Nat
    BY <1>5, <2>1, HeldChanges
  <2> QED BY <1>5, <2>2
<1>8. \A q \in Tasks : IsFiniteSet(new'[q])
  BY <1>2, <1>4, <1>5
<1> QED BY <1>2, <1>6, <1>7, <1>8

\* What deallocuvm() leaves of a directory.
LEMMA DropMembers ==
  ASSUME NEW d \in SUBSET Holders, NEW s \in Nat, NEW t \in Nat
  PROVE  /\ deallocuvm(d, s, t) \in SUBSET Holders
         /\ \A a \in Nat :
              /\ PageAt(a) \in deallocuvm(d, s, t) <=>
                   PageAt(a) \in d /\ (a * PGSIZE < t \/ ~(a * PGSIZE < s))
              /\ TableAt(a) \in deallocuvm(d, s, t) <=> TableAt(a) \in d
<1>1. ASSUME NEW a \in Nat
      PROVE  PageAt(a) \in deallocuvm(d, s, t) <=>
               PageAt(a) \in d /\ (a * PGSIZE < t \/ ~(a * PGSIZE < s))
  <2>1. PGROUNDUP(t) \in Nat /\ (a < PGROUNDUP(t) <=> a * PGSIZE < t)
    BY RoundUp
  <2>2. PGROUNDUP(t) <= a <=> ~(a * PGSIZE < t)
    BY <2>1
  <2>3. IsPage(PageAt(a)) /\ PageAt(a)[2] = a
    BY PlacesDiffer
  <2> QED BY <2>2, <2>3 DEF deallocuvm, Dropped
<1>2. ASSUME NEW a \in Nat
      PROVE  TableAt(a) \in deallocuvm(d, s, t) <=> TableAt(a) \in d
  <2>1. ~IsPage(TableAt(a))
    BY PlacesDiffer
  <2> QED BY <2>1 DEF deallocuvm, Dropped
<1> QED BY <1>1, <1>2 DEF deallocuvm

\* sbrk without memory: the pages it has added go back, the size stays.
LEMMA FailSbrkKeeps ==
  ASSUME VMInv, NEW p \in Tasks, FailSbrk(p), ~remapped'
  PROVE  VMInv'
<1> DEFINE d == deallocuvm(pgdir[p], lim[p], sz[p])
<1>1. VMTypes /\ Finites /\ Conserved /\ RowOK(p)
  BY DEF VMInv
<1>2. /\ op[p] = "sbrk" /\ Return(p) /\ pstate' = pstate /\ sz' = sz /\ kstack' = kstack
      /\ pgdir' = [pgdir EXCEPT ![p] = d]
      /\ free' = free + Cardinality(Dropped(pgdir[p], lim[p], sz[p])) + Cardinality(mem[p])
  BY DEF FailSbrk, kfree
<1>3. /\ pgdir \in [Tasks -> SUBSET Holders] /\ pgdir[p] \in SUBSET Holders
      /\ IsFiniteSet(pgdir[p]) /\ lim[p] \in Nat /\ sz[p] \in Nat /\ free \in Nat
  BY <1>1, VMSizes DEF VMTypes, Finites, UserSizes
<1>4. /\ IsFiniteSet(d) /\ Cardinality(Dropped(pgdir[p], lim[p], sz[p])) \in Nat
      /\ Cardinality(d) = Cardinality(pgdir[p]) - Cardinality(Dropped(pgdir[p], lim[p], sz[p]))
  BY <1>3, DropCounts
<1>5. /\ d \in SUBSET Holders
      /\ \A a \in Nat : PageAt(a) \in d <=>
           PageAt(a) \in pgdir[p] /\ (a * PGSIZE < sz[p] \/ ~(a * PGSIZE < lim[p]))
      /\ \A a \in Nat : TableAt(a) \in d <=> TableAt(a) \in pgdir[p]
  BY <1>3, DropMembers
<1> HIDE DEF d
<1>6. VMTypes'
  <2>1. free' \in Nat /\ pgdir' \in [Tasks -> SUBSET Holders]
    BY <1>2, <1>3, <1>4, <1>5, ReturnCounts
  <2> QED BY <1>1, <1>2, <2>1, ReturnCalls DEF VMTypes
<1>7. Finites'
  BY <1>1, <1>2, <1>3, <1>4, ReturnCounts DEF Finites
<1>8. Conserved'
  <2>1. pgdir'[p] = d /\ \A q \in Tasks \ {p} : pgdir'[q] = pgdir[q]
    BY <1>2, <1>3
  <2>2. /\ Held(pgdir') = Held(pgdir) - Cardinality(pgdir[p]) + Cardinality(d)
        /\ Cardinality(pgdir[p]) \in Nat /\ Held(pgdir') \in Nat
    BY <1>1, <1>4, <2>1, HeldChanges DEF Finites
  <2>3. /\ Held(new') = Held(new) /\ Held(mem') = Held(mem) - Cardinality(mem[p])
        /\ Cardinality(mem[p]) \in Nat
    <3>1. new[p] = NoPages
      BY <1>1, <1>2 DEF RowOK, CallOK
    <3>2. Cardinality(NoPages) = 0
      BY FS_EmptySet DEF NoPages
    <3> QED BY <1>2, <3>1, <3>2, ReturnCounts, HeldTypes
  <2> QED BY <1>1, <1>2, <1>3, <1>4, <2>2, <2>3, HeldTypes DEF Conserved
<1>9. op'[p] = "user" /\ pgdir'[p] = d /\ pstate[p] = "RUN" /\ Loops(p)
  BY <1>1, <1>2, <1>3, ReturnCalls DEF RowOK, SlotOK, Loops
<1>10. OldOK(p)'
  <2>1. ASSUME NEW a \in Nat, PageAt(a) \in d
        PROVE  a * PGSIZE < sz[p] /\ TableAt(PDX(a)) \in d
    <3>1. PageAt(a) \in pgdir[p] /\ (a * PGSIZE < sz[p] \/ ~(a * PGSIZE < lim[p]))
      BY <1>5, <2>1
    <3>2. a < va[p] /\ TableAt(PDX(a)) \in pgdir[p]
      BY <1>1, <1>2, <3>1 DEF RowOK, OldOK, OldPage
    <3>3. a * PGSIZE < lim[p]
      BY <1>1, <1>9, <3>2 DEF RowOK, CallOK
    <3> QED BY <1>5, <3>1, <3>2, <3>3, PdxType
  <2>2. ASSUME NEW a \in Nat, a * PGSIZE < sz[p] PROVE PageAt(a) \in d
    <3>1. a < va[p]
      BY <1>1, <1>2, <2>2 DEF RowOK, CallOK
    <3>2. PageAt(a) \in pgdir[p]
      BY <1>1, <1>2, <1>9, <3>1 DEF RowOK, OldOK, OldPage
    <3> QED BY <1>5, <2>2, <3>2
  <2> QED BY <1>2, <1>9, <2>1, <2>2 DEF OldOK, OldPage
<1>11. SlotOK(p)'
  BY <1>1, <1>2, <1>9 DEF RowOK, SlotOK, NoPages
<1>12. RowOK(p)' /\ (InFork(p)' => InFork(p) /\ child'[p] = child[p])
  BY <1>2, <1>10, <1>11, ReturnCalls DEF RowOK
<1>13. \A q \in Tasks \ {p} : Same(q)
  BY <1>2, <1>3, ReturnCalls DEF Same
<1> QED BY <1>6, <1>7, <1>8, <1>9, <1>12, <1>13, OneTaskKeeps

\* exec without memory: the new image goes back, the old one stays.
LEMMA FailExecKeeps ==
  ASSUME VMInv, NEW p \in Tasks, FailExec(p), ~remapped'
  PROVE  VMInv'
<1>1. VMTypes /\ Finites /\ Conserved /\ RowOK(p)
  BY DEF VMInv
<1>2. /\ op[p] \in {"exec kvm", "exec seg", "exec", "exec stack"} /\ Return(p)
      /\ pstate' = pstate /\ sz' = sz /\ kstack' = kstack /\ pgdir' = pgdir
      /\ free' = free + Cardinality(new[p]) + Cardinality(mem[p])
  BY FreesBoth DEF FailExec, kfree, taskvars
<1>3. /\ free \in Nat /\ free' \in Nat
      /\ Cardinality(new[p]) \in Nat /\ Cardinality(mem[p]) \in Nat
      /\ Held(new') = Held(new) - Cardinality(new[p])
      /\ Held(mem') = Held(mem) - Cardinality(mem[p])
      /\ free' = free + Cardinality(new[p]) + Cardinality(mem[p])
  <2>1. free \in Nat
    BY <1>1 DEF VMTypes
  <2>2. /\ Cardinality(new[p]) \in Nat /\ Cardinality(mem[p]) \in Nat
        /\ Held(new') = Held(new) - Cardinality(new[p])
        /\ Held(mem') = Held(mem) - Cardinality(mem[p])
    BY <1>2, ReturnCounts
  <2>3. free' = free + Cardinality(new[p]) + Cardinality(mem[p])
    BY <1>2
  <2>4. free' \in Nat
    BY <2>1, <2>2, <2>3
  <2> QED BY <2>1, <2>2, <2>3, <2>4
<1>4. VMTypes'
  BY <1>1, <1>2, <1>3, ReturnCalls DEF VMTypes
<1>5. Finites'
  BY <1>1, <1>2, ReturnCounts DEF Finites
<1>6. Conserved'
  <2>1. /\ Held(kstack) \in Nat /\ Held(mem) \in Nat /\ Held(pgdir) \in Nat /\ Held(new) \in Nat
        /\ Held(kstack') = Held(kstack) /\ Held(pgdir') = Held(pgdir)
    BY <1>2, HeldTypes
  <2> QED BY <1>1, <1>3, <2>1 DEF Conserved
<1>7. op'[p] = "user" /\ pstate[p] = "RUN"
  BY <1>1, <1>2, ReturnCalls DEF RowOK, SlotOK
<1>8. OldOK(p)'
  BY <1>1, <1>2, <1>7 DEF RowOK, OldOK, OldPage
<1>9. SlotOK(p)'
  BY <1>1, <1>2, <1>7 DEF RowOK, SlotOK, NoPages
<1>10. RowOK(p)' /\ (InFork(p)' => InFork(p) /\ child'[p] = child[p])
  BY <1>2, <1>8, <1>9, ReturnCalls DEF RowOK
<1>11. \A q \in Tasks \ {p} : Same(q)
  BY <1>2, ReturnCalls DEF Same
<1> QED BY <1>4, <1>5, <1>6, <1>7, <1>10, <1>11, OneTaskKeeps

\* The process that forks, and the slot that it fills.
LEMMA TwoTasksKeep ==
  ASSUME VMInv, VMTypes', Finites', Conserved', ChildrenApart',
         NEW p \in Tasks, NEW c \in Tasks, RowOK(p)', RowOK(c)',
         \A q \in Tasks \ {p, c} : Same(q)
  PROVE  VMInv'
<1>1. ASSUME NEW q \in Tasks PROVE RowOK(q)'
  <2>1. CASE q \in {p, c}
    BY <2>1
  <2>2. CASE q \notin {p, c}
    <3>1. RowOK(q) /\ Same(q)
      BY <2>2 DEF VMInv
    <3> QED BY <3>1, SameKeeps
  <2> QED BY <2>1, <2>2
<1> QED BY <1>1 DEF VMInv

\* What fork has taken for the child.
LEMMA ChildFacts ==
  ASSUME VMInv, NEW p \in Tasks, InFork(p)
  PROVE  /\ child[p] \in Tasks /\ child[p] # p /\ pstate[child[p]] = "EMBRYO"
         /\ op[child[p]] = "user" /\ pgdir[child[p]] = NoPages
         /\ kstack[child[p]] = {"stack"} /\ pstate[p] = "RUN"
         /\ \A q \in Tasks \ {p} : InFork(q) => child[q] # child[p]
<1>1. child[p] \in Tasks /\ pstate[child[p]] = "EMBRYO"
  BY DEF VMInv, RowOK, CallOK, ChildrenApart
<1>2. SlotOK(p) /\ SlotOK(child[p])
  BY <1>1 DEF VMInv, RowOK
<1>3. op[p] # "user"
  BY DEF InFork
<1>4. pstate[p] = "RUN" /\ pgdir[child[p]] = NoPages
      /\ op[child[p]] = "user" /\ kstack[child[p]] = {"stack"}
  BY <1>1, <1>2, <1>3 DEF SlotOK
<1>5. \A q \in Tasks \ {p} : InFork(q) => child[q] # child[p]
  BY DEF VMInv, ChildrenApart
<1> QED BY <1>1, <1>4, <1>5

\* fork without memory: the image, the stack and the slot go back.
LEMMA FailForkKeeps ==
  ASSUME VMInv, NEW p \in Tasks, FailFork(p), ~remapped'
  PROVE  VMInv'
<1>1. VMTypes /\ Finites /\ Conserved /\ RowOK(p)
  BY DEF VMInv
<1>2. InFork(p)
  BY DEF FailFork, InFork
<1>3. PICK c \in Tasks :
        /\ child[p] = c /\ c # p /\ pstate[c] = "EMBRYO" /\ op[c] = "user"
        /\ pgdir[c] = NoPages /\ kstack[c] = {"stack"} /\ pstate[p] = "RUN"
        /\ \A q \in Tasks \ {p} : InFork(q) => child[q] # c
  BY <1>2, ChildFacts
<1>4. /\ Return(p) /\ sz' = sz /\ pgdir' = pgdir
      /\ kstack' = [kstack EXCEPT ![c] = NoPages]
      /\ pstate' = [pstate EXCEPT ![c] = "UNUSED"]
  BY <1>3 DEF FailFork
<1>5. free' = free + Cardinality(new[p]) + Cardinality(mem[p]) + Cardinality(kstack[c])
  BY <1>3, FreesBoth DEF FailFork, kfree
<1>6. /\ kstack \in [Tasks -> SUBSET {"stack"}] /\ pstate \in [Tasks -> TaskStates]
      /\ free \in Nat
  BY <1>1 DEF VMTypes
<1>7. /\ kstack'[c] = NoPages /\ \A q \in Tasks \ {c} : kstack'[q] = kstack[q]
      /\ pstate'[c] = "UNUSED" /\ \A q \in Tasks \ {c} : pstate'[q] = pstate[q]
      /\ kstack' \in [Tasks -> SUBSET {"stack"}] /\ pstate' \in [Tasks -> TaskStates]
  BY <1>4, <1>6 DEF NoPages, TaskStates
<1>8. /\ Held(kstack') = Held(kstack) - Cardinality(kstack[c])
      /\ Cardinality(kstack[c]) \in Nat /\ Held(kstack') \in Nat
  <2>1. IsFiniteSet(NoPages) /\ Cardinality(NoPages) = 0
    BY FS_EmptySet DEF NoPages
  <2>2. IsFiniteSet(kstack'[c]) /\ \A q \in Tasks : IsFiniteSet(kstack[q])
    BY <1>7, <2>1, SmallFinite
  <2>3. /\ Held(kstack') = Held(kstack) - Cardinality(kstack[c]) + Cardinality(kstack'[c])
        /\ Held(kstack) \in Nat /\ Held(kstack') \in Nat /\ Cardinality(kstack[c]) \in Nat
    <3>1. \A q \in Tasks \ {c} : kstack'[q] = kstack[q]
      BY <1>7
    <3> QED BY <2>2, <3>1, HeldChanges
  <2>4. kstack'[c] = NoPages
    BY <1>7
  <2> QED BY <2>1, <2>3, <2>4
<1>9. /\ Cardinality(new[p]) \in Nat /\ Cardinality(mem[p]) \in Nat
      /\ Held(new') = Held(new) - Cardinality(new[p])
      /\ Held(mem') = Held(mem) - Cardinality(mem[p])
  BY <1>4, ReturnCounts
<1>10. free' \in Nat
  BY <1>5, <1>6, <1>8, <1>9
<1>11. VMTypes'
  BY <1>1, <1>4, <1>7, <1>10, ReturnCalls DEF VMTypes
<1>12. Finites'
  BY <1>1, <1>4, ReturnCounts DEF Finites
<1>13. Conserved'
  <2>1. /\ Held(kstack) \in Nat /\ Held(mem) \in Nat /\ Held(pgdir) \in Nat /\ Held(new) \in Nat
        /\ Held(pgdir') = Held(pgdir)
    BY <1>4, HeldTypes
  <2> QED BY <1>1, <1>5, <1>6, <1>8, <1>9, <2>1 DEF Conserved
<1>14. /\ op'[p] = "user" /\ CallOK(p)' /\ NewOK(p)' /\ ~InFork(p)'
       /\ \A q \in Tasks \ {p} :
            /\ op'[q] = op[q] /\ new'[q] = new[q] /\ mem'[q] = mem[q]
            /\ va'[q] = va[q] /\ lim'[q] = lim[q] /\ child'[q] = child[q]
  BY <1>4, ReturnCalls
<1>15. ChildrenApart'
  <2>1. ASSUME NEW q \in Tasks, InFork(q)'
        PROVE  InFork(q) /\ child'[q] = child[q] /\ pstate'[child'[q]] = "EMBRYO"
    <3>1. q # p
      BY <1>14, <2>1
    <3>2. InFork(q) /\ child'[q] = child[q]
      BY <1>14, <2>1, <3>1 DEF InFork
    <3>3. child[q] # c /\ child[q] \in Tasks /\ pstate[child[q]] = "EMBRYO"
      BY <1>3, <3>1, <3>2, ChildFacts
    <3> QED BY <1>7, <3>2, <3>3
  <2> QED BY <2>1 DEF ChildrenApart, VMInv
<1>16. RowOK(p)'
  <2>1. SlotOK(p)'
    BY <1>1, <1>3, <1>4, <1>7, <1>14 DEF RowOK, SlotOK, NoPages
  <2>2. OldOK(p)'
    BY <1>1, <1>2, <1>3, <1>4, <1>7, <1>14 DEF RowOK, OldOK, OldPage, InFork
  <2> QED BY <1>14, <2>1, <2>2 DEF RowOK
<1>17. RowOK(c)'
  <2>1. RowOK(c)
    BY DEF VMInv
  <2>2. SlotOK(c)'
    BY <1>3, <1>4, <1>7, <1>14, <2>1 DEF RowOK, SlotOK
  <2>3. CallOK(c)'
    BY <1>3, <1>4, <1>14, <2>1 DEF RowOK, CallOK, NoPages, Loops, More, InFork, InKvm
  <2>4. OldOK(c)'
    BY <1>3, <1>4, <1>7 DEF OldOK, NoPages
  <2>5. NewOK(c)'
    BY <1>3, <1>14, <2>1 DEF RowOK, NewOK, NewPage, Copies
  <2> QED BY <2>2, <2>3, <2>4, <2>5 DEF RowOK
<1>18. \A q \in Tasks \ {p, c} : Same(q)
  BY <1>4, <1>7, <1>14 DEF Same
<1> QED BY <1>11, <1>12, <1>13, <1>15, <1>16, <1>17, <1>18, TwoTasksKeep

\* A call that fails, wherever it is.
LEMMA FailKeeps ==
  ASSUME VMInv, NEW p \in Tasks, Fail(p), ~remapped'
  PROVE  VMInv'
BY FailSbrkKeeps, FailExecKeeps, FailForkKeeps DEF Fail
-----------------------------------------------------------------------------
(* The loops over pages.                                                   *)

\* setupkvm() has got a page.
LEMMA KvmStepKeeps ==
  ASSUME VMInv, NEW p \in Tasks, setupkvm(p), ~Fail(p)
  PROVE  VMInv'
<1> DEFINE x == KvmAt(va[p])
<1>1. VMTypes /\ Finites /\ Conserved /\ RowOK(p)
  BY DEF VMInv
<1>2. InKvm(p) /\ op[p] \notin {"user", "sbrk"} /\ ~Loops(p) /\ pstate[p] = "RUN"
  BY <1>1 DEF setupkvm, InKvm, Loops, RowOK, SlotOK
<1>3. /\ free > 0 /\ free' = free - 1
      /\ new' = [new EXCEPT ![p] = @ \cup {x}]
      /\ pstate' = pstate /\ sz' = sz /\ kstack' = kstack /\ pgdir' = pgdir
      /\ mem' = mem /\ lim' = lim /\ segs' = segs /\ child' = child
      /\ remapped' = remapped
  BY DEF setupkvm, kalloc, taskvars
<1>4. \/ /\ va[p] < KTABS /\ va' = [va EXCEPT ![p] = @ + 1] /\ op' = op
      \/ /\ va[p] = KTABS /\ va' = [va EXCEPT ![p] = 0]
         /\ op' = [op EXCEPT ![p] = IF @ = "fork kvm" THEN "fork" ELSE "exec seg"]
  BY DEF setupkvm
<1>5. /\ free \in Nat /\ new \in [Tasks -> SUBSET Holders] /\ va \in [Tasks -> Nat]
      /\ op \in [Tasks -> Ops] /\ IsFiniteSet(new[p]) /\ KTABS \in Nat /\ va[p] \in Nat
  BY <1>1, VMSizes DEF VMTypes, Finites
<1>6. x \in Holders /\ x[1] = "kvm" /\ x[2] = va[p]
  BY <1>5, PlacesDiffer
<1>7. x \notin new[p] /\ \A y \in new[p] : y[1] = "kvm" /\ y[2] < va[p]
  <2>1. \A y \in new[p] : y[1] = "kvm" /\ y[2] < va[p]
    BY <1>1, <1>2 DEF RowOK, CallOK
  <2>2. ~(x[2] < va[p])
    BY <1>5, <1>6
  <2> QED BY <2>1, <2>2
<1> HIDE DEF x
<1>8. /\ new'[p] = new[p] \cup {x} /\ \A q \in Tasks \ {p} : new'[q] = new[q]
      /\ new' \in [Tasks -> SUBSET Holders]
  BY <1>3, <1>5, <1>6
<1>9. IsFiniteSet(new'[p]) /\ Cardinality(new'[p]) = Cardinality(new[p]) + 1
  <2>1. /\ IsFiniteSet(new[p] \cup {x})
        /\ Cardinality(new[p] \cup {x}) = IF x \in new[p] THEN Cardinality(new[p])
                                          ELSE Cardinality(new[p]) + 1
    BY <1>5, FS_AddElement
  <2> QED BY <1>7, <1>8, <2>1
<1>10. Held(new') = Held(new) + 1
  <2>1. IsFiniteSet(new'[p]) /\ \A q \in Tasks : IsFiniteSet(new[q])
    BY <1>1, <1>9 DEF Finites
  <2>2. \A q \in Tasks \ {p} : new'[q] = new[q]
    BY <1>8
  <2>3. /\ Held(new') = Held(new) - Cardinality(new[p]) + Cardinality(new'[p])
        /\ Held(new) \in Nat /\ Cardinality(new[p]) \in Nat
    BY <2>1, <2>2, HeldChanges
  <2> QED BY <1>9, <2>3
<1>11. /\ va' \in [Tasks -> Nat] /\ op' \in [Tasks -> Ops]
       /\ \A q \in Tasks \ {p} : va'[q] = va[q] /\ op'[q] = op[q]
       /\ \/ va[p] < KTABS /\ va'[p] = va[p] + 1 /\ op'[p] = op[p]
          \/ /\ va[p] = KTABS /\ va'[p] = 0
             /\ op'[p] = IF op[p] = "fork kvm" THEN "fork" ELSE "exec seg"
  <2>1. CASE va[p] < KTABS /\ va' = [va EXCEPT ![p] = @ + 1] /\ op' = op
    <3>1. /\ va'[p] = va[p] + 1 /\ \A q \in Tasks \ {p} : va'[q] = va[q]
          /\ va' \in [Tasks -> Nat]
      BY <1>5, <2>1
    <3>2. op' \in [Tasks -> Ops] /\ \A q \in Tasks : op'[q] = op[q]
      BY <1>5, <2>1
    <3> QED BY <2>1, <3>1, <3>2
  <2>2. CASE /\ va[p] = KTABS /\ va' = [va EXCEPT ![p] = 0]
             /\ op' = [op EXCEPT ![p] = IF @ = "fork kvm" THEN "fork" ELSE "exec seg"]
    <3>1. "fork" \in Ops /\ "exec seg" \in Ops
      BY DEF Ops
    <3> QED BY <1>5, <2>2, <3>1
  <2> QED BY <1>4, <2>1, <2>2
<1>12. VMTypes'
  <2>1. free' \in Nat
    BY <1>3, <1>5
  <2> QED BY <1>1, <1>3, <1>8, <1>11, <2>1 DEF VMTypes
<1>13. Finites'
  BY <1>1, <1>3, <1>8, <1>9 DEF Finites
<1>14. Conserved'
  <2>1. /\ Held(kstack) \in Nat /\ Held(mem) \in Nat /\ Held(pgdir) \in Nat /\ Held(new) \in Nat
        /\ Held(kstack') = Held(kstack) /\ Held(pgdir') = Held(pgdir) /\ Held(mem') = Held(mem)
    BY <1>3, HeldTypes
  <2>2. free' = free - 1 /\ free \in Nat
    BY <1>3, <1>5
  <2> QED BY <1>1, <1>10, <2>1, <2>2 DEF Conserved
<1>15. \A a \in Nat : PageAt(a) \notin new'[p]
  <2>1. \A y \in new'[p] : y[1] = "kvm"
    BY <1>6, <1>7, <1>8
  <2>2. \A a \in Nat : PageAt(a)[1] # "kvm"
    BY DEF PageAt
  <2> QED BY <2>1, <2>2
<1>16. RowOK(p)'
  <2>1. SlotOK(p)'
    BY <1>1, <1>2, <1>3, <1>11 DEF RowOK, SlotOK, NoPages
  <2>2. OldOK(p)'
    <3>1. op[p] # "sbrk" /\ op'[p] # "sbrk"
      BY <1>2, <1>11
    <3> QED BY <1>1, <1>3, <3>1 DEF RowOK, OldOK, OldPage
  <2>3. CASE op'[p] = op[p]
    <3>1. va'[p] = va[p] + 1 /\ va'[p] <= KTABS
      <4>1. op'[p] \in {"fork kvm", "exec kvm"}
        BY <1>2, <2>3 DEF InKvm
      <4>2. va[p] < KTABS /\ va'[p] = va[p] + 1
        BY <1>11, <4>1
      <4> QED BY <1>5, <4>2
    <3>2. \A y \in new'[p] : y[1] = "kvm" /\ y[2] < va'[p]
      <4>1. ASSUME NEW y \in new[p] PROVE y[1] = "kvm" /\ y[2] < va'[p]
        <5>1. y[2] \in Nat
          BY <1>5 DEF Holders
        <5> QED BY <1>5, <1>7, <3>1, <4>1, <5>1
      <4>2. x[1] = "kvm" /\ x[2] < va'[p]
        BY <1>5, <1>6, <3>1
      <4> QED BY <1>8, <4>1, <4>2
    <3>3. CallOK(p)'
      BY <1>1, <1>2, <1>3, <2>3, <3>1, <3>2
      DEF RowOK, CallOK, NoPages, Loops, More, InFork, InKvm
    <3>4. NewOK(p)'
      BY <1>2, <1>15, <2>3 DEF NewOK, Copies, InKvm
    <3> QED BY <2>1, <2>2, <3>3, <3>4 DEF RowOK
  <2>4. CASE op'[p] # op[p]
    <3>1. /\ va'[p] = 0
          /\ \/ op[p] = "fork kvm" /\ op'[p] = "fork"
             \/ op[p] = "exec kvm" /\ op'[p] = "exec seg"
      BY <1>2, <1>11, <2>4 DEF InKvm
    <3>2. mem'[p] = NoPages /\ mem[p] = NoPages
      BY <1>1, <1>2, <1>3 DEF RowOK, CallOK
    <3>3. CallOK(p)'
      <4>1. \A a \in Nat : ~(a < va'[p])
        <5>1. va'[p] = 0
          BY <3>1
        <5> QED BY <5>1
      <4>2. InFork(p)' => child'[p] \in Tasks /\ lim'[p] = sz'[p]
        BY <1>1, <1>3, <3>1 DEF RowOK, CallOK, InFork
      <4>3. op'[p] \in {"fork", "exec seg"}
        BY <3>1
      <4> QED BY <3>2, <4>1, <4>2, <4>3 DEF CallOK, InKvm
    <3>4. ASSUME NEW a \in Nat PROVE ~NewPage(p, a)'
      <4>1. CASE op[p] = "fork kvm"
        <5>1. op'[p] = "fork" /\ va'[p] = 0
          BY <3>1, <4>1
        <5>2. ~(a < 0)
          OBVIOUS
        <5> QED BY <5>1, <5>2 DEF NewPage
      <4>2. CASE op[p] = "exec kvm"
        <5>1. lim'[p] = 0
          BY <1>1, <1>3, <4>2 DEF RowOK, CallOK
        <5>2. ~(a * PGSIZE < 0)
          BY VMSizes, PagesOrdered
        <5> QED BY <3>1, <4>2, <5>1, <5>2 DEF NewPage
      <4> QED BY <3>1, <4>1, <4>2
    <3>5. NewOK(p)'
      BY <1>15, <3>4 DEF NewOK
    <3> QED BY <2>1, <2>2, <3>3, <3>5 DEF RowOK
  <2> QED BY <2>3, <2>4
<1>17. InFork(p)' => InFork(p) /\ child'[p] = child[p]
  BY <1>2, <1>3, <1>11 DEF InFork, InKvm
<1>18. \A q \in Tasks \ {p} : Same(q)
  BY <1>3, <1>8, <1>11 DEF Same
<1>19. pstate[p] # "EMBRYO"
  BY <1>2
<1> QED BY <1>12, <1>13, <1>14, <1>16, <1>17, <1>18, <1>19, OneTaskKeeps

\* setupkvm().
LEMMA SetupKeeps ==
  ASSUME VMInv, NEW p \in Tasks, setupkvm(p)
  PROVE  VMInv'
<1>1. ~remapped'
  BY DEF setupkvm, VMInv, VMTypes
<1> QED BY <1>1, FailKeeps, KvmStepKeeps

\* A loop allocates its next page; copyuvm() finds the page to copy.
LEMMA AllocKeeps ==
  ASSUME VMInv, NEW p \in Tasks, allocpage(p)
  PROVE  VMInv'
<1>1. VMTypes /\ Finites /\ Conserved /\ RowOK(p)
  BY DEF VMInv
<1>2. Loops(p) /\ More(p) /\ mem[p] = NoPages /\ pstate[p] = "RUN"
  BY <1>1 DEF allocpage, Loops, RowOK, SlotOK
<1>3. ~(op[p] = "fork" /\ PageAt(va[p]) \notin pgdir[p])
  <2>1. SUFFICES ASSUME op[p] = "fork" PROVE PageAt(va[p]) \in pgdir[p]
    OBVIOUS
  <2>2. va[p] * PGSIZE < sz[p] /\ va[p] \in Nat
    BY <1>1, <1>2, <2>1 DEF RowOK, CallOK, More, InFork, VMTypes
  <2> QED BY <1>1, <1>2, <2>1, <2>2 DEF RowOK, OldOK, OldPage
<1>4. ~remapped'
  BY <1>3 DEF allocpage
<1>5. CASE Fail(p)
  BY <1>4, <1>5, FailKeeps
<1>6. CASE ~Fail(p)
  <2>1. /\ free > 0 /\ free' = free - 1 /\ mem' = [mem EXCEPT ![p] = {"page"}]
        /\ pstate' = pstate /\ sz' = sz /\ kstack' = kstack /\ pgdir' = pgdir
        /\ op' = op /\ new' = new /\ va' = va /\ lim' = lim /\ segs' = segs /\ child' = child
    BY <1>6 DEF allocpage, kalloc, taskvars
  <2>2. free \in Nat /\ mem \in [Tasks -> SUBSET {"page"}]
    BY <1>1 DEF VMTypes
  <2>3. /\ mem'[p] = {"page"} /\ \A q \in Tasks \ {p} : mem'[q] = mem[q]
        /\ mem' \in [Tasks -> SUBSET {"page"}]
    BY <2>1, <2>2
  <2>4. Held(mem') = Held(mem) + 1
    <3>1. Cardinality(mem[p]) = 0
      BY <1>2, FS_EmptySet DEF NoPages
    <3>2. IsFiniteSet(mem'[p]) /\ Cardinality(mem'[p]) = 1
      BY <2>3, FS_Singleton
    <3>3. \A q \in Tasks : IsFiniteSet(mem[q])
      BY SmallFinite
    <3>4. \A q \in Tasks \ {p} : mem'[q] = mem[q]
      BY <2>3
    <3>5. Held(mem') = Held(mem) - Cardinality(mem[p]) + Cardinality(mem'[p])
      BY <3>2, <3>3, <3>4, HeldChanges
    <3> QED BY <3>1, <3>2, <3>5, HeldTypes
  <2>5. VMTypes'
    <3>1. free' \in Nat
      BY <2>1, <2>2
    <3> QED BY <1>1, <1>4, <2>1, <2>3, <3>1 DEF VMTypes
  <2>6. Finites'
    BY <1>1, <2>1 DEF Finites
  <2>7. Conserved'
    <3>1. /\ Held(kstack) \in Nat /\ Held(mem) \in Nat /\ Held(pgdir) \in Nat /\ Held(new) \in Nat
          /\ Held(kstack') = Held(kstack) /\ Held(pgdir') = Held(pgdir) /\ Held(new') = Held(new)
      BY <2>1, HeldTypes
    <3>2. free' = free - 1 /\ free \in Nat
      BY <2>1, <2>2
    <3> QED BY <1>1, <2>4, <3>1, <3>2 DEF Conserved
  <2>8. SlotOK(p)' /\ OldOK(p)' /\ NewOK(p)'
    BY <1>1, <2>1 DEF RowOK, SlotOK, OldOK, OldPage, NewOK, NewPage, Copies, NoPages
  <2>9. CallOK(p)'
    BY <1>1, <1>2, <2>1, <2>3 DEF RowOK, CallOK, Loops, More, InFork, InKvm, NoPages
  <2>10. RowOK(p)' /\ (InFork(p)' => InFork(p) /\ child'[p] = child[p]) /\ pstate[p] # "EMBRYO"
    BY <1>2, <2>1, <2>8, <2>9 DEF RowOK, InFork
  <2>11. \A q \in Tasks \ {p} : Same(q)
    BY <2>1, <2>3 DEF Same
  <2> QED BY <2>5, <2>6, <2>7, <2>10, <2>11, OneTaskKeeps
<1> QED BY <1>5, <1>6

\* What mappages() adds to a finite directory that has no page there.
LEMMA MapCounts ==
  ASSUME NEW d \in SUBSET Holders, IsFiniteSet(d), NEW v \in Nat, PageAt(v) \notin d
  PROVE  /\ Mapped(d, v) \in SUBSET Holders /\ IsFiniteSet(Mapped(d, v))
         /\ Cardinality(Mapped(d, v)) =
              IF TableAt(PDX(v)) \in d THEN Cardinality(d) + 1 ELSE Cardinality(d) + 2
         /\ \A a \in Nat :
              /\ PageAt(a) \in Mapped(d, v) <=> PageAt(a) \in d \/ a = v
              /\ TableAt(PDX(a)) \in d => TableAt(PDX(a)) \in Mapped(d, v)
         /\ TableAt(PDX(v)) \in Mapped(d, v)
<1> DEFINE x == PageAt(v)
           t == TableAt(PDX(v))
           e == d \cup {x}
<1>1. PDX(v) \in Nat
  BY PdxType
<1>2. x \in Holders /\ t \in Holders /\ x # t
  BY <1>1, PlacesDiffer
<1>3. \A a \in Nat : (PageAt(a) = x <=> a = v) /\ PageAt(a) # t
  BY <1>1, PlacesDiffer
<1>4. Mapped(d, v) = e \cup {t}
  BY DEF Mapped
<1> HIDE DEF x, t
<1>5. IsFiniteSet(e) /\ Cardinality(e) = Cardinality(d) + 1
  <2>1. Cardinality(d \cup {x}) = IF x \in d THEN Cardinality(d) ELSE Cardinality(d) + 1
    BY FS_AddElement
  <2>2. IsFiniteSet(d \cup {x}) /\ x \notin d
    BY FS_AddElement DEF x
  <2> QED BY <2>1, <2>2
<1>6. t \in e <=> t \in d
  BY <1>2
<1>7. Cardinality(d) \in Nat
  BY FS_CardinalityType
<1>8. /\ IsFiniteSet(e \cup {t})
      /\ Cardinality(e \cup {t}) = IF t \in d THEN Cardinality(d) + 1 ELSE Cardinality(d) + 2
  <2> HIDE DEF e
  <2>1. /\ IsFiniteSet(e \cup {t})
        /\ Cardinality(e \cup {t}) = IF t \in e THEN Cardinality(e) ELSE Cardinality(e) + 1
    BY <1>5, FS_AddElement
  <2> QED BY <1>5, <1>6, <1>7, <2>1
<1>9. e \cup {t} \in SUBSET Holders
  BY <1>2
<1>10. \A a \in Nat : PageAt(a) \in e \cup {t} <=> PageAt(a) \in d \/ a = v
  BY <1>3
<1> QED BY <1>4, <1>8, <1>9, <1>10 DEF t

\* A page is not mapped where one is, and there is one to map.
LEMMA MapReady ==
  ASSUME VMInv, NEW p \in Tasks, Loops(p), mem[p] # NoPages
  PROVE  /\ PageAt(va[p]) \notin Target(p) /\ Target(p) \in SUBSET Holders
         /\ IsFiniteSet(Target(p)) /\ More(p) /\ va[p] \in Nat /\ pstate[p] = "RUN"
         /\ Cardinality(mem[p]) = 1
<1>1. VMTypes /\ Finites /\ RowOK(p)
  BY DEF VMInv
<1>2. va[p] \in Nat /\ ~(va[p] < va[p])
  BY <1>1 DEF VMTypes
<1>3. PageAt(va[p]) \notin Target(p)
  <2>1. CASE op[p] = "sbrk"
    BY <1>1, <1>2, <2>1 DEF Target, RowOK, OldOK, OldPage
  <2>2. CASE op[p] # "sbrk"
    <3>1. op[p] # "exec seg"
      BY DEF Loops
    <3> QED BY <1>1, <1>2, <2>2, <3>1 DEF Target, RowOK, NewOK, NewPage
  <2> QED BY <2>1, <2>2
<1>4. Target(p) \in SUBSET Holders /\ IsFiniteSet(Target(p))
  BY <1>1 DEF Target, VMTypes, Finites
<1>5. More(p) /\ pstate[p] = "RUN"
  BY <1>1 DEF RowOK, CallOK, SlotOK, Loops
<1>6. Cardinality(mem[p]) = 1
  <2>1. mem[p] = {"page"}
    BY <1>1 DEF VMTypes, NoPages
  <2> QED BY <2>1, FS_Singleton
<1> QED BY <1>2, <1>3, <1>4, <1>5, <1>6

\* The pages counted, and the loop's variables, after a page is mapped.
LEMMA MapStep ==
  ASSUME VMInv, NEW p \in Tasks, mappages(p), ~Fail(p)
  PROVE  /\ free' \in Nat
         /\ free' = IF TableAt(PDX(va[p])) \in Target(p) THEN free ELSE free - 1
         /\ mem'[p] = NoPages /\ (\A q \in Tasks \ {p} : mem'[q] = mem[q])
         /\ mem' \in [Tasks -> SUBSET {"page"}]
         /\ Held(mem') = Held(mem) - 1
         /\ va'[p] = va[p] + 1 /\ (\A q \in Tasks \ {p} : va'[q] = va[q])
         /\ va' \in [Tasks -> Nat]
         /\ pstate' = pstate /\ sz' = sz /\ kstack' = kstack /\ op' = op
         /\ lim' = lim /\ segs' = segs /\ child' = child
         /\ CallOK(p)'
<1>1. VMTypes /\ Finites /\ RowOK(p)
  BY DEF VMInv
<1>2. Loops(p) /\ mem[p] # NoPages
  BY DEF mappages
<1>3. /\ NeedsTable(p) => free > 0
      /\ free' = IF NeedsTable(p) THEN kalloc ELSE free
      /\ mem' = [mem EXCEPT ![p] = NoPages] /\ va' = [va EXCEPT ![p] = @ + 1]
      /\ pstate' = pstate /\ sz' = sz /\ kstack' = kstack /\ op' = op
      /\ lim' = lim /\ segs' = segs /\ child' = child
  BY DEF mappages
<1>4. /\ free \in Nat /\ mem \in [Tasks -> SUBSET {"page"}] /\ va \in [Tasks -> Nat]
      /\ va[p] \in Nat
  BY <1>1 DEF VMTypes
<1>5. free' \in Nat /\ free' = IF TableAt(PDX(va[p])) \in Target(p) THEN free ELSE free - 1
  <2>1. /\ NeedsTable(p) => free > 0 /\ free' = free - 1
        /\ ~NeedsTable(p) => free' = free
    BY <1>3 DEF kalloc
  <2>2. NeedsTable(p) <=> TableAt(PDX(va[p])) \notin Target(p)
    BY DEF NeedsTable
  <2> QED BY <1>4, <2>1, <2>2
<1>6. /\ mem'[p] = NoPages /\ (\A q \in Tasks \ {p} : mem'[q] = mem[q])
      /\ mem' \in [Tasks -> SUBSET {"page"}]
  BY <1>3, <1>4 DEF NoPages
<1>7. /\ va'[p] = va[p] + 1 /\ (\A q \in Tasks \ {p} : va'[q] = va[q])
      /\ va' \in [Tasks -> Nat]
  BY <1>3, <1>4
<1>8. Held(mem') = Held(mem) - 1
  <2>1. Cardinality(mem[p]) = 1
    BY <1>2, MapReady
  <2>2. IsFiniteSet(NoPages) /\ Cardinality(NoPages) = 0
    BY FS_EmptySet DEF NoPages
  <2>3. \A q \in Tasks : IsFiniteSet(mem[q])
    BY SmallFinite
  <2>4. mem'[p] = NoPages /\ IsFiniteSet(mem'[p])
    BY <1>6, <2>2
  <2>5. \A q \in Tasks \ {p} : mem'[q] = mem[q]
    BY <1>6
  <2>6. Held(mem') = Held(mem) - Cardinality(mem[p]) + Cardinality(mem'[p])
    BY <2>3, <2>4, <2>5, HeldChanges
  <2> QED BY <2>1, <2>2, <2>4, <2>6, HeldTypes
<1>9. \A a \in Nat : a < va'[p] => a < va[p] \/ a = va[p]
  BY <1>4, <1>7
<1>10. \A a \in Nat : a < va[p] => a < va'[p]
  BY <1>4, <1>7
<1>11. CallOK(p)'
  <2>1. op[p] # "user" /\ ~InKvm(p) /\ More(p)
    BY <1>2, MapReady DEF Loops, InKvm
  <2>2. InFork(p)' => child'[p] \in Tasks /\ lim'[p] = sz'[p]
    BY <1>1, <1>3 DEF RowOK, CallOK, InFork
  <2>3. \A a \in Nat : a < va'[p] => a * PGSIZE < lim'[p]
    BY <1>1, <1>2, <1>3, <1>9, <2>1 DEF RowOK, CallOK, More
  <2>4. op'[p] = "sbrk" => \A a \in Nat : a * PGSIZE < sz'[p] => a < va'[p]
    BY <1>1, <1>3, <1>10 DEF RowOK, CallOK
  <2>5. op'[p] = "sbrk" => new'[p] = NoPages
    BY <1>1, <1>3 DEF RowOK, CallOK, mappages
  <2>6. op'[p] # "user" /\ op'[p] # "exec kvm" /\ ~InKvm(p)'
    BY <1>2, <1>3, <2>1 DEF Loops, InKvm
  <2> QED BY <1>6, <2>2, <2>3, <2>4, <2>5, <2>6 DEF CallOK
<1> QED BY <1>3, <1>5, <1>6, <1>7, <1>8, <1>11

\* mappages() for sbrk, in the process's own directory.
LEMMA MapOldKeeps ==
  ASSUME VMInv, NEW p \in Tasks, mappages(p), ~Fail(p), op[p] = "sbrk"
  PROVE  VMInv'
<1> DEFINE d == Mapped(pgdir[p], va[p])
<1>1. VMTypes /\ Finites /\ Conserved /\ RowOK(p)
  BY DEF VMInv
<1>2. Loops(p) /\ mem[p] # NoPages /\ pgdir' = [pgdir EXCEPT ![p] = d] /\ new' = new
  BY DEF mappages
<1>3. Target(p) = pgdir[p]
  BY DEF Target
<1>4. /\ PageAt(va[p]) \notin pgdir[p] /\ pgdir[p] \in SUBSET Holders
      /\ IsFiniteSet(pgdir[p]) /\ va[p] \in Nat /\ pstate[p] = "RUN"
  BY <1>2, <1>3, MapReady
<1>5. /\ d \in SUBSET Holders /\ IsFiniteSet(d)
      /\ Cardinality(d) = IF TableAt(PDX(va[p])) \in pgdir[p] THEN Cardinality(pgdir[p]) + 1
                          ELSE Cardinality(pgdir[p]) + 2
      /\ \A a \in Nat :
           /\ PageAt(a) \in d <=> PageAt(a) \in pgdir[p] \/ a = va[p]
           /\ TableAt(PDX(a)) \in pgdir[p] => TableAt(PDX(a)) \in d
      /\ TableAt(PDX(va[p])) \in d
  BY <1>4, MapCounts
<1> HIDE DEF d
<1>6. /\ free' \in Nat
      /\ free' = IF TableAt(PDX(va[p])) \in pgdir[p] THEN free ELSE free - 1
      /\ Held(mem') = Held(mem) - 1
  BY <1>3, MapStep
<1>7. /\ mem'[p] = NoPages /\ (\A q \in Tasks \ {p} : mem'[q] = mem[q])
      /\ mem' \in [Tasks -> SUBSET {"page"}]
      /\ va'[p] = va[p] + 1 /\ (\A q \in Tasks \ {p} : va'[q] = va[q])
      /\ va' \in [Tasks -> Nat]
      /\ pstate' = pstate /\ sz' = sz /\ kstack' = kstack /\ op' = op
      /\ lim' = lim /\ segs' = segs /\ child' = child
      /\ CallOK(p)'
  BY MapStep
<1>8. /\ pgdir'[p] = d /\ (\A q \in Tasks \ {p} : pgdir'[q] = pgdir[q])
      /\ pgdir' \in [Tasks -> SUBSET Holders]
  <2>1. pgdir \in [Tasks -> SUBSET Holders]
    BY <1>1 DEF VMTypes
  <2> QED BY <1>2, <1>5, <2>1
<1>9. VMTypes'
  <2>1. ~remapped'
    BY <1>3, <1>4 DEF mappages
  <2> QED BY <1>1, <1>2, <1>6, <1>7, <1>8, <2>1 DEF VMTypes
<1>10. Finites'
  BY <1>1, <1>2, <1>5, <1>8 DEF Finites
<1>11. Conserved'
  <2>1. \A q \in Tasks \ {p} : pgdir'[q] = pgdir[q]
    BY <1>8
  <2>2. IsFiniteSet(pgdir'[p]) /\ \A q \in Tasks : IsFiniteSet(pgdir[q])
    BY <1>1, <1>5, <1>8 DEF Finites
  <2>3. /\ Held(pgdir') = Held(pgdir) - Cardinality(pgdir[p]) + Cardinality(pgdir'[p])
        /\ Cardinality(pgdir[p]) \in Nat
    BY <2>1, <2>2, HeldChanges
  <2>4. Cardinality(pgdir'[p]) = Cardinality(d)
    BY <1>8
  <2>5. /\ Held(kstack) \in Nat /\ Held(mem) \in Nat /\ Held(pgdir) \in Nat /\ Held(new) \in Nat
        /\ Held(kstack') = Held(kstack) /\ Held(new') = Held(new)
    BY <1>2, <1>7, HeldTypes
  <2>6. free \in Nat
    BY <1>1 DEF VMTypes
  <2>7. CASE TableAt(PDX(va[p])) \in pgdir[p]
    <3>1. free' = free /\ Cardinality(d) = Cardinality(pgdir[p]) + 1
      BY <1>5, <1>6, <2>7
    <3>2. Held(mem') = Held(mem) - 1
      BY <1>6
    <3> QED BY <1>1, <2>3, <2>4, <2>5, <2>6, <3>1, <3>2 DEF Conserved
  <2>8. CASE TableAt(PDX(va[p])) \notin pgdir[p]
    <3>1. free' = free - 1 /\ Cardinality(d) = Cardinality(pgdir[p]) + 2
      BY <1>5, <1>6, <2>8
    <3>2. Held(mem') = Held(mem) - 1
      BY <1>6
    <3> QED BY <1>1, <2>3, <2>4, <2>5, <2>6, <3>1, <3>2 DEF Conserved
  <2> QED BY <2>7, <2>8
<1>12. RowOK(p)'
  <2>1. SlotOK(p)'
    BY <1>1, <1>4, <1>7 DEF RowOK, SlotOK, NoPages
  <2>2. \A a \in Nat : a < va'[p] <=> a < va[p] \/ a = va[p]
    BY <1>4, <1>7
  <2>3. \A a \in Nat : /\ PageAt(a) \in pgdir[p] => a < va[p] /\ TableAt(PDX(a)) \in pgdir[p]
                       /\ a < va[p] => PageAt(a) \in pgdir[p]
    BY <1>1, <1>4 DEF RowOK, OldOK, OldPage
  <2>4. \A a \in Nat : /\ PageAt(a) \in d => a < va'[p] /\ TableAt(PDX(a)) \in d
                       /\ a < va'[p] => PageAt(a) \in d
    BY <1>5, <2>2, <2>3
  <2>5. OldOK(p)'
    BY <1>7, <1>8, <2>4 DEF OldOK, OldPage
  <2>6. NewOK(p)'
    <3>1. new'[p] = {}
      BY <1>1, <1>2 DEF RowOK, CallOK, NoPages
    <3> QED BY <1>7, <3>1 DEF NewOK, Copies
  <2> QED BY <1>7, <2>1, <2>5, <2>6 DEF RowOK
<1>13. (InFork(p)' => InFork(p) /\ child'[p] = child[p]) /\ pstate[p] # "EMBRYO"
  BY <1>4, <1>7 DEF InFork
<1>14. \A q \in Tasks \ {p} : Same(q)
  BY <1>2, <1>7, <1>8 DEF Same
<1> QED BY <1>9, <1>10, <1>11, <1>12, <1>13, <1>14, OneTaskKeeps

\* mappages() for fork and exec, in the directory that they are making.
LEMMA MapNewKeeps ==
  ASSUME VMInv, NEW p \in Tasks, mappages(p), ~Fail(p), op[p] # "sbrk"
  PROVE  VMInv'
<1> DEFINE d == Mapped(new[p], va[p])
<1>1. VMTypes /\ Finites /\ Conserved /\ RowOK(p)
  BY DEF VMInv
<1>2. Loops(p) /\ mem[p] # NoPages /\ new' = [new EXCEPT ![p] = d] /\ pgdir' = pgdir
  BY DEF mappages
<1>3. Target(p) = new[p]
  BY DEF Target
<1>4. /\ PageAt(va[p]) \notin new[p] /\ new[p] \in SUBSET Holders
      /\ IsFiniteSet(new[p]) /\ va[p] \in Nat /\ pstate[p] = "RUN"
  BY <1>2, <1>3, MapReady
<1>5. /\ d \in SUBSET Holders /\ IsFiniteSet(d)
      /\ Cardinality(d) = IF TableAt(PDX(va[p])) \in new[p] THEN Cardinality(new[p]) + 1
                          ELSE Cardinality(new[p]) + 2
      /\ \A a \in Nat :
           /\ PageAt(a) \in d <=> PageAt(a) \in new[p] \/ a = va[p]
           /\ TableAt(PDX(a)) \in new[p] => TableAt(PDX(a)) \in d
      /\ TableAt(PDX(va[p])) \in d
  BY <1>4, MapCounts
<1> HIDE DEF d
<1>6. /\ free' \in Nat
      /\ free' = IF TableAt(PDX(va[p])) \in new[p] THEN free ELSE free - 1
      /\ Held(mem') = Held(mem) - 1
  BY <1>3, MapStep
<1>7. /\ mem'[p] = NoPages /\ (\A q \in Tasks \ {p} : mem'[q] = mem[q])
      /\ mem' \in [Tasks -> SUBSET {"page"}]
      /\ va'[p] = va[p] + 1 /\ (\A q \in Tasks \ {p} : va'[q] = va[q])
      /\ va' \in [Tasks -> Nat]
      /\ pstate' = pstate /\ sz' = sz /\ kstack' = kstack /\ op' = op
      /\ lim' = lim /\ segs' = segs /\ child' = child
      /\ CallOK(p)'
  BY MapStep
<1>8. /\ new'[p] = d /\ (\A q \in Tasks \ {p} : new'[q] = new[q])
      /\ new' \in [Tasks -> SUBSET Holders]
  <2>1. new \in [Tasks -> SUBSET Holders]
    BY <1>1 DEF VMTypes
  <2> QED BY <1>2, <1>5, <2>1
<1>9. VMTypes'
  <2>1. ~remapped'
    BY <1>3, <1>4 DEF mappages
  <2> QED BY <1>1, <1>2, <1>6, <1>7, <1>8, <2>1 DEF VMTypes
<1>10. Finites'
  BY <1>1, <1>2, <1>5, <1>8 DEF Finites
<1>11. Conserved'
  <2>1. \A q \in Tasks \ {p} : new'[q] = new[q]
    BY <1>8
  <2>2. IsFiniteSet(new'[p]) /\ \A q \in Tasks : IsFiniteSet(new[q])
    BY <1>1, <1>5, <1>8 DEF Finites
  <2>3. /\ Held(new') = Held(new) - Cardinality(new[p]) + Cardinality(new'[p])
        /\ Cardinality(new[p]) \in Nat
    BY <2>1, <2>2, HeldChanges
  <2>4. Cardinality(new'[p]) = Cardinality(d)
    BY <1>8
  <2>5. /\ Held(kstack) \in Nat /\ Held(mem) \in Nat /\ Held(pgdir) \in Nat /\ Held(new) \in Nat
        /\ Held(kstack') = Held(kstack) /\ Held(pgdir') = Held(pgdir)
    BY <1>2, <1>7, HeldTypes
  <2>6. free \in Nat
    BY <1>1 DEF VMTypes
  <2>7. CASE TableAt(PDX(va[p])) \in new[p]
    <3>1. free' = free /\ Cardinality(d) = Cardinality(new[p]) + 1
      BY <1>5, <1>6, <2>7
    <3>2. Held(mem') = Held(mem) - 1
      BY <1>6
    <3> QED BY <1>1, <2>3, <2>4, <2>5, <2>6, <3>1, <3>2 DEF Conserved
  <2>8. CASE TableAt(PDX(va[p])) \notin new[p]
    <3>1. free' = free - 1 /\ Cardinality(d) = Cardinality(new[p]) + 2
      BY <1>5, <1>6, <2>8
    <3>2. Held(mem') = Held(mem) - 1
      BY <1>6
    <3> QED BY <1>1, <2>3, <2>4, <2>5, <2>6, <3>1, <3>2 DEF Conserved
  <2> QED BY <2>7, <2>8
<1>12. RowOK(p)'
  <2>1. SlotOK(p)'
    BY <1>1, <1>2, <1>4, <1>7 DEF RowOK, SlotOK, NoPages
  <2>2. \A a \in Nat : a < va'[p] <=> a < va[p] \/ a = va[p]
    BY <1>4, <1>7
  <2>3. op[p] # "exec seg" /\ Copies(p)
    BY <1>2 DEF Loops, Copies
  <2>4. \A a \in Nat : /\ PageAt(a) \in new[p] => a < va[p] /\ TableAt(PDX(a)) \in new[p]
                       /\ a < va[p] => PageAt(a) \in new[p]
    BY <1>1, <2>3 DEF RowOK, NewOK, NewPage
  <2>5. \A a \in Nat : /\ PageAt(a) \in d => a < va'[p] /\ TableAt(PDX(a)) \in d
                       /\ a < va'[p] => PageAt(a) \in d
    BY <1>5, <2>2, <2>4
  <2>6. NewOK(p)'
    BY <1>7, <1>8, <2>3, <2>5 DEF NewOK, NewPage
  <2>7. OldOK(p)'
    BY <1>1, <1>2, <1>7 DEF RowOK, OldOK, OldPage
  <2> QED BY <1>7, <2>1, <2>6, <2>7 DEF RowOK
<1>13. (InFork(p)' => InFork(p) /\ child'[p] = child[p]) /\ pstate[p] # "EMBRYO"
  BY <1>4, <1>7 DEF InFork
<1>14. \A q \in Tasks \ {p} : Same(q)
  BY <1>2, <1>7, <1>8 DEF Same
<1> QED BY <1>9, <1>10, <1>11, <1>12, <1>13, <1>14, OneTaskKeeps

\* mappages() finds the place free.
LEMMA MapKeeps ==
  ASSUME VMInv, NEW p \in Tasks, mappages(p)
  PROVE  VMInv'
<1>1. ~remapped'
  BY MapReady DEF mappages
<1> QED BY <1>1, FailKeeps, MapOldKeeps, MapNewKeeps
-----------------------------------------------------------------------------
(* Steps that change only where a call is.                                 *)

\* A page ends where the next begins.
LEMMA PagesStrict ==
  ASSUME NEW a \in Nat, NEW b \in Nat, a < b
  PROVE  a * PGSIZE < b * PGSIZE
<1>1. a + 1 \in Nat /\ a + 1 <= b
  OBVIOUS
<1>2. (a + 1) * PGSIZE \in Nat /\ (a + 1) * PGSIZE <= b * PGSIZE
  BY <1>1, PagesOrdered
<1>3. (a + 1) * PGSIZE = a * PGSIZE + PGSIZE
  BY VMSizes, Z3
<1>4. a * PGSIZE \in Nat /\ b * PGSIZE \in Nat
  BY VMSizes
<1> QED BY <1>2, <1>3, <1>4, VMSizes

\* A step that moves no page.
LEMMA CallOnlyKeeps ==
  ASSUME VMInv, NEW p \in Tasks, free' = free, pstate' = pstate, sz' = sz,
         kstack' = kstack, pgdir' = pgdir, new' = new, mem' = mem, child' = child,
         op' \in [Tasks -> Ops], va' \in [Tasks -> Nat], lim' \in [Tasks -> UserSizes],
         segs' \in [Tasks -> Nat], ~remapped', pstate[p] = "RUN",
         \A q \in Tasks \ {p} : op'[q] = op[q] /\ va'[q] = va[q] /\ lim'[q] = lim[q],
         InFork(p)' => InFork(p), CallOK(p)', OldOK(p)', NewOK(p)'
  PROVE  VMInv'
<1>1. VMTypes /\ Finites /\ Conserved /\ RowOK(p)
  BY DEF VMInv
<1>2. VMTypes'
  BY <1>1 DEF VMTypes
<1>3. Finites'
  BY <1>1 DEF Finites
<1>4. Conserved'
  BY <1>1 DEF Conserved
<1>5. SlotOK(p)'
  BY <1>1 DEF RowOK, SlotOK, NoPages
<1>6. RowOK(p)'
  BY <1>5 DEF RowOK
<1>7. \A q \in Tasks \ {p} : Same(q)
  BY DEF Same
<1>8. (InFork(p)' => InFork(p) /\ child'[p] = child[p]) /\ pstate[p] # "EMBRYO"
  OBVIOUS
<1> QED BY <1>2, <1>3, <1>4, <1>6, <1>7, <1>8, OneTaskKeeps

\* A loop that is over has done the pages below its size, and has none in hand.
LEMMA LoopDone ==
  ASSUME VMInv, NEW p \in Tasks, Loops(p), ~More(p)
  PROVE  /\ mem[p] = NoPages
         /\ \A a \in Nat : a < va[p] <=> a * PGSIZE < lim[p]
<1>1. RowOK(p) /\ va[p] \in Nat /\ lim[p] \in Nat
  BY VMSizes DEF VMInv, VMTypes, UserSizes
<1>2. mem[p] = NoPages
  BY <1>1 DEF RowOK, CallOK
<1>3. ASSUME NEW a \in Nat, ~(a < va[p]) PROVE ~(a * PGSIZE < lim[p])
  <2>1. va[p] <= a
    BY <1>1, <1>3
  <2>2. va[p] * PGSIZE \in Nat /\ va[p] * PGSIZE <= a * PGSIZE
    BY <1>1, <2>1, PagesOrdered
  <2>3. a * PGSIZE \in Nat
    BY VMSizes
  <2>4. ~(va[p] * PGSIZE < lim[p])
    BY DEF More
  <2> DEFINE m == a * PGSIZE
             n == va[p] * PGSIZE
  <2>5. m \in Nat /\ n \in Nat /\ n <= m /\ ~(n < lim[p])
    BY <2>2, <2>3, <2>4
  <2> HIDE DEF m, n
  <2>6. ~(m < lim[p])
    BY <1>1, <2>5
  <2> QED BY <2>6 DEF m
<1>4. \A a \in Nat : a < va[p] => a * PGSIZE < lim[p]
  BY <1>1 DEF RowOK, CallOK
<1> QED BY <1>2, <1>3, <1>4

\* A page below one size is below a larger one.
LEMMA BelowLarger ==
  ASSUME NEW a \in Nat, NEW s \in Nat, NEW t \in Nat, s <= t, a * PGSIZE < s
  PROVE  a * PGSIZE < t
<1> DEFINE m == a * PGSIZE
<1>1. m \in Nat /\ m < s
  BY VMSizes
<1> HIDE DEF m
<1>2. m < t
  BY <1>1
<1> QED BY <1>2 DEF m

\* growproc() begins.
LEMMA GrowKeeps ==
  ASSUME VMInv, NEW p \in Tasks, NEW n \in 1..KERNBASE, grow(p, n)
  PROVE  VMInv'
<1>1. VMTypes /\ RowOK(p) /\ pstate[p] = "RUN" /\ op[p] = "user"
  BY DEF VMInv, grow, User
<1>2. sz[p] \in Nat /\ sz[p] + n \in UserSizes /\ sz[p] <= sz[p] + n /\ sz[p] + n \in Nat
  BY <1>1, VMSizes DEF VMTypes, UserSizes, grow
<1>3. /\ PGROUNDUP(sz[p]) \in Nat
      /\ \A a \in Nat : a < PGROUNDUP(sz[p]) <=> a * PGSIZE < sz[p]
  BY <1>2, RoundUp
<1>4. /\ op \in [Tasks -> Ops] /\ va \in [Tasks -> Nat] /\ lim \in [Tasks -> UserSizes]
      /\ segs \in [Tasks -> Nat] /\ ~remapped /\ "sbrk" \in Ops
  BY <1>1 DEF VMTypes, Ops
<1>5. /\ op' = [op EXCEPT ![p] = "sbrk"] /\ va' = [va EXCEPT ![p] = PGROUNDUP(sz[p])]
      /\ lim' = [lim EXCEPT ![p] = sz[p] + n] /\ segs' = segs /\ remapped' = remapped
      /\ free' = free /\ pstate' = pstate /\ sz' = sz /\ kstack' = kstack /\ pgdir' = pgdir
      /\ new' = new /\ mem' = mem /\ child' = child
  BY DEF grow, taskvars
<1>6. op' \in [Tasks -> Ops] /\ va' \in [Tasks -> Nat] /\ lim' \in [Tasks -> UserSizes]
  BY <1>2, <1>3, <1>4, <1>5
<1>7. /\ op'[p] = "sbrk" /\ va'[p] = PGROUNDUP(sz[p]) /\ lim'[p] = sz[p] + n
      /\ \A q \in Tasks \ {p} : op'[q] = op[q] /\ va'[q] = va[q] /\ lim'[q] = lim[q]
  BY <1>4, <1>5
<1>8. new'[p] = NoPages /\ mem'[p] = NoPages
  BY <1>1, <1>5 DEF RowOK, CallOK, Loops
<1>9. CallOK(p)'
  <2>1. \A a \in Nat : a * PGSIZE < sz'[p] => a < va'[p]
    BY <1>3, <1>5, <1>7
  <2>2. \A a \in Nat : a < va'[p] => a * PGSIZE < lim'[p]
    BY <1>2, <1>3, <1>7, BelowLarger
  <2> QED BY <1>7, <1>8, <2>1, <2>2 DEF CallOK, InFork, InKvm
<1>10. OldOK(p)'
  <2>1. \A a \in Nat : a < va'[p] <=> a * PGSIZE < sz[p]
    BY <1>3, <1>7
  <2> QED BY <1>1, <1>5, <1>7, <2>1 DEF RowOK, OldOK, OldPage
<1>11. NewOK(p)'
  BY <1>7, <1>8 DEF NewOK, Copies, NoPages
<1>12. InFork(p)' => InFork(p)
  BY <1>7 DEF InFork
<1>13. ~remapped' /\ segs' \in [Tasks -> Nat]
  BY <1>4, <1>5
<1> QED BY <1>1, <1>5, <1>6, <1>7, <1>9, <1>10, <1>11, <1>12, <1>13, CallOnlyKeeps

\* exec() begins.
LEMMA ExecVmKeeps ==
  ASSUME VMInv, NEW p \in Tasks, exec_vm(p)
  PROVE  VMInv'
<1>1. VMTypes /\ RowOK(p) /\ pstate[p] = "RUN" /\ op[p] = "user"
  BY DEF VMInv, exec_vm, User
<1>2. /\ op \in [Tasks -> Ops] /\ va \in [Tasks -> Nat] /\ lim \in [Tasks -> UserSizes]
      /\ segs \in [Tasks -> Nat] /\ ~remapped /\ "exec kvm" \in Ops
  BY <1>1 DEF VMTypes, Ops
<1>3. /\ op' = [op EXCEPT ![p] = "exec kvm"] /\ va' = va /\ lim' = lim
      /\ segs' = [segs EXCEPT ![p] = Segments] /\ remapped' = remapped
      /\ free' = free /\ pstate' = pstate /\ sz' = sz /\ kstack' = kstack /\ pgdir' = pgdir
      /\ new' = new /\ mem' = mem /\ child' = child
  BY DEF exec_vm, taskvars
<1>4. op' \in [Tasks -> Ops] /\ segs' \in [Tasks -> Nat] /\ ~remapped'
  BY <1>2, <1>3, VMSizes
<1>5. op'[p] = "exec kvm" /\ \A q \in Tasks \ {p} : op'[q] = op[q]
  BY <1>2, <1>3
<1>6. new'[p] = {} /\ mem'[p] = NoPages /\ va'[p] = 0 /\ lim'[p] = 0
  BY <1>1, <1>3 DEF RowOK, CallOK, Loops, NoPages
<1>7. CallOK(p)'
  <2>1. va'[p] <= KTABS
    BY <1>6, VMSizes
  <2> QED BY <1>5, <1>6, <2>1 DEF CallOK, InFork, Loops
<1>8. OldOK(p)'
  BY <1>1, <1>3, <1>5 DEF RowOK, OldOK, OldPage
<1>9. NewOK(p)'
  BY <1>5, <1>6 DEF NewOK, Copies
<1>10. InFork(p)' => InFork(p)
  BY <1>5 DEF InFork
<1> QED BY <1>1, <1>2, <1>3, <1>4, <1>5, <1>7, <1>8, <1>9, <1>10, CallOnlyKeeps

\* allocuvm() of a segment begins where the last one ended.
LEMMA SegmentKeeps ==
  ASSUME VMInv, NEW p \in Tasks, NEW e \in 0..KERNBASE, segment(p, e)
  PROVE  VMInv'
<1> DEFINE s == IF e < lim[p] THEN lim[p] ELSE e
<1>1. ~remapped'
  BY DEF VMInv, VMTypes, segment
<1>2. CASE Fail(p)
  BY <1>1, <1>2, FailKeeps
<1>3. CASE ~Fail(p)
  <2>1. VMTypes /\ RowOK(p) /\ op[p] = "exec seg" /\ pstate[p] = "RUN"
    BY DEF VMInv, segment, RowOK, SlotOK
  <2>2. /\ e < KERNBASE /\ segs[p] > 0 /\ op' = [op EXCEPT ![p] = "exec"]
        /\ segs' = [segs EXCEPT ![p] = @ - 1] /\ va' = [va EXCEPT ![p] = PGROUNDUP(lim[p])]
        /\ lim' = [lim EXCEPT ![p] = s]
        /\ free' = free /\ pstate' = pstate /\ sz' = sz /\ kstack' = kstack /\ pgdir' = pgdir
        /\ new' = new /\ mem' = mem /\ child' = child
    BY <1>3 DEF segment, taskvars
  <2>3. /\ op \in [Tasks -> Ops] /\ va \in [Tasks -> Nat] /\ lim \in [Tasks -> UserSizes]
        /\ segs \in [Tasks -> Nat] /\ "exec" \in Ops
    BY <2>1 DEF VMTypes, Ops
  <2>4. lim[p] \in Nat /\ s \in UserSizes /\ s \in Nat /\ lim[p] <= s
    BY <2>2, <2>3, VMSizes DEF UserSizes
  <2>5. /\ PGROUNDUP(lim[p]) \in Nat
        /\ \A a \in Nat : a < PGROUNDUP(lim[p]) <=> a * PGSIZE < lim[p]
    BY <2>4, RoundUp
  <2> HIDE DEF s
  <2>6. op' \in [Tasks -> Ops] /\ va' \in [Tasks -> Nat] /\ lim' \in [Tasks -> UserSizes]
    BY <2>2, <2>3, <2>4, <2>5
  <2>7. segs' \in [Tasks -> Nat]
    BY <2>2, <2>3
  <2>8. /\ op'[p] = "exec" /\ va'[p] = PGROUNDUP(lim[p]) /\ lim'[p] = s
        /\ \A q \in Tasks \ {p} : op'[q] = op[q] /\ va'[q] = va[q] /\ lim'[q] = lim[q]
    BY <2>2, <2>3
  <2>9. mem'[p] = NoPages
    BY <2>1, <2>2 DEF RowOK, CallOK, Loops
  <2>10. CallOK(p)'
    <3>1. \A a \in Nat : a < va'[p] => a * PGSIZE < lim'[p]
      BY <2>4, <2>5, <2>8, BelowLarger
    <3> QED BY <2>8, <2>9, <3>1 DEF CallOK, InFork, InKvm
  <2>11. OldOK(p)'
    BY <2>1, <2>2, <2>8 DEF RowOK, OldOK, OldPage
  <2>12. NewOK(p)'
    <3>1. \A a \in Nat : a < va'[p] <=> a * PGSIZE < lim[p]
      BY <2>5, <2>8
    <3> QED BY <2>1, <2>2, <2>8, <3>1 DEF RowOK, NewOK, NewPage, Copies
  <2>13. InFork(p)' => InFork(p)
    BY <2>8 DEF InFork
  <2> QED BY <1>1, <2>1, <2>2, <2>6, <2>7, <2>8, <2>10, <2>11, <2>12, <2>13, CallOnlyKeeps
<1> QED BY <1>2, <1>3

\* A segment is loaded.
LEMMA LoaduvmKeeps ==
  ASSUME VMInv, NEW p \in Tasks, loaduvm(p)
  PROVE  VMInv'
<1>1. ~remapped'
  BY DEF VMInv, VMTypes, loaduvm
<1>2. CASE Fail(p)
  BY <1>1, <1>2, FailKeeps
<1>3. CASE ~Fail(p)
  <2>1. VMTypes /\ RowOK(p) /\ op[p] = "exec" /\ ~More(p) /\ pstate[p] = "RUN" /\ Loops(p)
    BY DEF VMInv, loaduvm, RowOK, SlotOK, Loops
  <2>2. /\ op' = [op EXCEPT ![p] = "exec seg"]
        /\ segs' = segs /\ va' = va /\ lim' = lim
        /\ free' = free /\ pstate' = pstate /\ sz' = sz /\ kstack' = kstack /\ pgdir' = pgdir
        /\ new' = new /\ mem' = mem /\ child' = child
    BY <1>3 DEF loaduvm, taskvars
  <2>3. /\ op \in [Tasks -> Ops] /\ va \in [Tasks -> Nat] /\ lim \in [Tasks -> UserSizes]
        /\ segs \in [Tasks -> Nat] /\ "exec seg" \in Ops
    BY <2>1 DEF VMTypes, Ops
  <2>4. op' \in [Tasks -> Ops] /\ op'[p] = "exec seg" /\ \A q \in Tasks \ {p} : op'[q] = op[q]
    BY <2>2, <2>3
  <2>5. mem[p] = NoPages /\ \A a \in Nat : a < va[p] <=> a * PGSIZE < lim[p]
    BY <2>1, LoopDone
  <2>6. CallOK(p)'
    BY <2>2, <2>4, <2>5 DEF CallOK, InFork, InKvm, Loops
  <2>7. OldOK(p)'
    BY <2>1, <2>2, <2>4 DEF RowOK, OldOK, OldPage
  <2>8. NewOK(p)'
    BY <2>1, <2>2, <2>4, <2>5 DEF RowOK, NewOK, NewPage, Copies
  <2>9. InFork(p)' => InFork(p)
    BY <2>4 DEF InFork
  <2> QED BY <1>1, <2>1, <2>2, <2>3, <2>4, <2>6, <2>7, <2>8, <2>9, CallOnlyKeeps
<1> QED BY <1>2, <1>3

\* The stack begins at a page boundary behind the segments.
LEMMA StackKeeps ==
  ASSUME VMInv, NEW p \in Tasks, stack(p)
  PROVE  VMInv'
<1>1. ~remapped'
  BY DEF VMInv, VMTypes, stack
<1>2. CASE Fail(p)
  BY <1>1, <1>2, FailKeeps
<1>3. CASE ~Fail(p)
  <2> DEFINE first == PGROUNDUP(lim[p])
             end == (first + 2) * PGSIZE
  <2>1. VMTypes /\ RowOK(p) /\ op[p] = "exec seg" /\ pstate[p] = "RUN"
    BY DEF VMInv, stack, RowOK, SlotOK
  <2>2. /\ end < KERNBASE /\ op' = [op EXCEPT ![p] = "exec stack"] /\ segs' = segs
        /\ va' = [va EXCEPT ![p] = first] /\ lim' = [lim EXCEPT ![p] = end]
        /\ free' = free /\ pstate' = pstate /\ sz' = sz /\ kstack' = kstack /\ pgdir' = pgdir
        /\ new' = new /\ mem' = mem /\ child' = child
    BY <1>3 DEF stack, StackEnd, taskvars
  <2>3. /\ op \in [Tasks -> Ops] /\ va \in [Tasks -> Nat] /\ lim \in [Tasks -> UserSizes]
        /\ segs \in [Tasks -> Nat] /\ "exec stack" \in Ops /\ lim[p] \in Nat
    <3>1. /\ op \in [Tasks -> Ops] /\ va \in [Tasks -> Nat] /\ lim \in [Tasks -> UserSizes]
          /\ segs \in [Tasks -> Nat] /\ "exec stack" \in Ops
      BY <2>1 DEF VMTypes, Ops
    <3>2. lim[p] \in UserSizes
      BY <3>1
    <3>3. lim[p] \in Nat
      BY <3>2, VMSizes DEF UserSizes
    <3> QED BY <3>1, <3>3
  <2>4. /\ first \in Nat /\ \A a \in Nat : a < first <=> a * PGSIZE < lim[p]
    BY <2>3, RoundUp
  <2>5. end \in Nat /\ \A a \in Nat : a < first => a * PGSIZE < end
    <3> HIDE DEF first
    <3>1. end \in Nat /\ first + 2 \in Nat
      BY <2>4, VMSizes
    <3>2. ASSUME NEW a \in Nat, a < first PROVE a * PGSIZE < (first + 2) * PGSIZE
      <4>1. a < first + 2
        BY <2>4, <3>2
      <4> QED BY <3>1, <4>1, PagesStrict
    <3> QED BY <3>1, <3>2
  <2> HIDE DEF end, first
  <2>6. end \in UserSizes
    <3>1. end \in Nat /\ end < KERNBASE /\ KERNBASE \in Nat
      BY <2>2, <2>5, VMSizes
    <3> QED BY <3>1 DEF UserSizes
  <2>7. op' \in [Tasks -> Ops] /\ va' \in [Tasks -> Nat] /\ lim' \in [Tasks -> UserSizes]
    BY <2>2, <2>3, <2>4, <2>6
  <2>8. /\ op'[p] = "exec stack" /\ va'[p] = first /\ lim'[p] = end
        /\ \A q \in Tasks \ {p} : op'[q] = op[q] /\ va'[q] = va[q] /\ lim'[q] = lim[q]
    BY <2>2, <2>3
  <2>9. mem'[p] = NoPages
    BY <2>1, <2>2 DEF RowOK, CallOK, Loops
  <2>10. CallOK(p)'
    BY <2>5, <2>8, <2>9 DEF CallOK, InFork, InKvm
  <2>11. OldOK(p)'
    BY <2>1, <2>2, <2>8 DEF RowOK, OldOK, OldPage
  <2>12. NewOK(p)'
    BY <2>1, <2>2, <2>4, <2>8 DEF RowOK, NewOK, NewPage, Copies
  <2>13. InFork(p)' => InFork(p)
    BY <2>8 DEF InFork
  <2> QED BY <1>1, <2>1, <2>2, <2>3, <2>7, <2>8, <2>10, <2>11, <2>12, <2>13, CallOnlyKeeps
<1> QED BY <1>2, <1>3
-----------------------------------------------------------------------------
(* Sizes and slots that change.                                            *)

\* growproc() has all its pages and sets the size.
LEMMA GrownKeeps ==
  ASSUME VMInv, NEW p \in Tasks, grown(p)
  PROVE  VMInv'
<1>1. /\ VMTypes /\ Finites /\ Conserved /\ RowOK(p) /\ op[p] = "sbrk" /\ ~More(p)
      /\ Loops(p) /\ pstate[p] = "RUN"
  BY DEF VMInv, grown, RowOK, SlotOK, Loops
<1>2. /\ sz' = [sz EXCEPT ![p] = lim[p]] /\ Return(p) /\ free' = free
      /\ pstate' = pstate /\ kstack' = kstack /\ pgdir' = pgdir /\ remapped' = remapped
  BY DEF grown
<1>3. mem[p] = NoPages /\ \A a \in Nat : a < va[p] <=> a * PGSIZE < lim[p]
  BY <1>1, LoopDone
<1>4. /\ sz' \in [Tasks -> UserSizes] /\ sz'[p] = lim[p]
      /\ \A q \in Tasks \ {p} : sz'[q] = sz[q]
  <2>1. sz \in [Tasks -> UserSizes] /\ lim[p] \in UserSizes
    BY <1>1 DEF VMTypes
  <2> QED BY <1>2, <2>1
<1>5. VMTypes'
  BY <1>1, <1>2, <1>4, ReturnCalls DEF VMTypes
<1>6. Finites'
  BY <1>1, <1>2, ReturnCounts DEF Finites
<1>7. Conserved'
  <2>1. Cardinality(NoPages) = 0
    BY FS_EmptySet DEF NoPages
  <2>2. new[p] = NoPages
    BY <1>1 DEF RowOK, CallOK
  <2>3. /\ Held(new') = Held(new) - Cardinality(new[p])
        /\ Held(mem') = Held(mem) - Cardinality(mem[p])
    BY <1>2, ReturnCounts
  <2>4. Held(new') = Held(new) /\ Held(mem') = Held(mem)
    BY <1>3, <2>1, <2>2, <2>3, HeldTypes
  <2>5. Held(kstack') = Held(kstack) /\ Held(pgdir') = Held(pgdir) /\ free' = free
    BY <1>2
  <2> QED BY <1>1, <2>4, <2>5 DEF Conserved
<1>8. /\ op'[p] = "user" /\ CallOK(p)' /\ NewOK(p)' /\ ~InFork(p)'
      /\ \A q \in Tasks \ {p} :
           /\ op'[q] = op[q] /\ new'[q] = new[q] /\ mem'[q] = mem[q]
           /\ va'[q] = va[q] /\ lim'[q] = lim[q] /\ child'[q] = child[q]
  BY <1>2, ReturnCalls
<1>9. SlotOK(p)'
  BY <1>1, <1>2, <1>8 DEF RowOK, SlotOK, NoPages
<1>10. OldOK(p)'
  <2>1. \A a \in Nat : OldPage(p, a) <=> a * PGSIZE < lim[p]
    BY <1>1, <1>3 DEF OldPage
  <2>2. \A a \in Nat : OldPage(p, a)' <=> a * PGSIZE < lim[p]
    BY <1>4, <1>8 DEF OldPage
  <2> QED BY <1>1, <1>2, <2>1, <2>2 DEF RowOK, OldOK
<1>11. RowOK(p)' /\ (InFork(p)' => InFork(p) /\ child'[p] = child[p]) /\ pstate[p] # "EMBRYO"
  BY <1>1, <1>8, <1>9, <1>10 DEF RowOK
<1>12. \A q \in Tasks \ {p} : Same(q)
  BY <1>2, <1>4, <1>8 DEF Same
<1> QED BY <1>5, <1>6, <1>7, <1>11, <1>12, OneTaskKeeps

\* growproc() frees pages, all of them if nothing is left.
LEMMA ShrinkKeeps ==
  ASSUME VMInv, NEW p \in Tasks, NEW n \in 1..KERNBASE, shrink(p, n)
  PROVE  VMInv'
<1> DEFINE t == sz[p] - n
           d == deallocuvm(pgdir[p], sz[p], t)
<1>1. /\ VMTypes /\ Finites /\ Conserved /\ RowOK(p) /\ op[p] = "user"
      /\ pstate[p] = "RUN" /\ n <= sz[p]
  BY DEF VMInv, shrink, User
<1>2. /\ pgdir' = [pgdir EXCEPT ![p] = d]
      /\ free' = free + Cardinality(Dropped(pgdir[p], sz[p], t))
      /\ kstack' = kstack /\ remapped' = remapped
      /\ op' = op /\ new' = new /\ mem' = mem /\ va' = va /\ lim' = lim /\ segs' = segs
      /\ child' = child
  BY DEF shrink, kfree, callvars
<1>3. \/ n < sz[p] /\ sz' = [sz EXCEPT ![p] = t] /\ pstate' = pstate
      \/ n = sz[p] /\ pstate' = [pstate EXCEPT ![p] = "FAULT"] /\ sz' = sz
  BY DEF shrink
<1>4. /\ free \in Nat /\ sz \in [Tasks -> UserSizes] /\ pstate \in [Tasks -> TaskStates]
      /\ pgdir \in [Tasks -> SUBSET Holders] /\ pgdir[p] \in SUBSET Holders
      /\ IsFiniteSet(pgdir[p]) /\ sz[p] \in UserSizes
  BY <1>1 DEF VMTypes, Finites
<1>5. sz[p] \in Nat /\ t \in Nat /\ t <= sz[p] /\ t \in UserSizes
  BY <1>1, <1>4, VMSizes DEF UserSizes
<1>6. /\ IsFiniteSet(d) /\ Cardinality(Dropped(pgdir[p], sz[p], t)) \in Nat
      /\ Cardinality(d) = Cardinality(pgdir[p]) - Cardinality(Dropped(pgdir[p], sz[p], t))
  BY <1>4, DropCounts
<1>7. /\ d \in SUBSET Holders
      /\ \A a \in Nat : PageAt(a) \in d <=>
           PageAt(a) \in pgdir[p] /\ (a * PGSIZE < t \/ ~(a * PGSIZE < sz[p]))
      /\ \A a \in Nat : TableAt(a) \in d <=> TableAt(a) \in pgdir[p]
  BY <1>4, <1>5, DropMembers
<1> HIDE DEF t, d
<1>8. /\ pgdir'[p] = d /\ (\A q \in Tasks \ {p} : pgdir'[q] = pgdir[q])
      /\ pgdir' \in [Tasks -> SUBSET Holders]
  BY <1>2, <1>4, <1>7
<1>9. /\ sz' \in [Tasks -> UserSizes] /\ pstate' \in [Tasks -> TaskStates]
      /\ \A q \in Tasks \ {p} : sz'[q] = sz[q] /\ pstate'[q] = pstate[q]
      /\ \/ sz'[p] = t /\ pstate'[p] = "RUN"
         \/ sz'[p] = sz[p] /\ pstate'[p] = "FAULT"
  <2>1. CASE sz' = [sz EXCEPT ![p] = t] /\ pstate' = pstate
    BY <1>1, <1>4, <1>5, <2>1
  <2>2. CASE pstate' = [pstate EXCEPT ![p] = "FAULT"] /\ sz' = sz
    BY <1>4, <2>2 DEF TaskStates
  <2> QED BY <1>3, <2>1, <2>2
<1>10. VMTypes'
  <2>1. free' \in Nat
    BY <1>2, <1>4, <1>6
  <2> QED BY <1>1, <1>2, <1>8, <1>9, <2>1 DEF VMTypes
<1>11. Finites'
  BY <1>1, <1>2, <1>6, <1>8 DEF Finites
<1>12. Conserved'
  <2>1. \A q \in Tasks \ {p} : pgdir'[q] = pgdir[q]
    BY <1>8
  <2>2. IsFiniteSet(pgdir'[p]) /\ \A q \in Tasks : IsFiniteSet(pgdir[q])
    BY <1>1, <1>6, <1>8 DEF Finites
  <2>3. /\ Held(pgdir') = Held(pgdir) - Cardinality(pgdir[p]) + Cardinality(pgdir'[p])
        /\ Cardinality(pgdir[p]) \in Nat
    BY <2>1, <2>2, HeldChanges
  <2>4. Cardinality(pgdir'[p]) = Cardinality(d)
    BY <1>8
  <2>5. /\ Held(kstack) \in Nat /\ Held(mem) \in Nat /\ Held(pgdir) \in Nat /\ Held(new) \in Nat
        /\ Held(kstack') = Held(kstack) /\ Held(new') = Held(new) /\ Held(mem') = Held(mem)
    BY <1>2, HeldTypes
  <2>6. free' = free + Cardinality(Dropped(pgdir[p], sz[p], t)) /\ free \in Nat
    BY <1>2, <1>4
  <2> QED BY <1>1, <1>6, <2>3, <2>4, <2>5, <2>6 DEF Conserved
<1>13. \A a \in Nat : /\ PageAt(a) \in pgdir[p] <=> a * PGSIZE < sz[p]
                      /\ PageAt(a) \in pgdir[p] => TableAt(PDX(a)) \in pgdir[p]
  BY <1>1 DEF RowOK, OldOK, OldPage
<1>14. \A a \in Nat : /\ PageAt(a) \in d <=> a * PGSIZE < t
                      /\ PageAt(a) \in d => TableAt(PDX(a)) \in d /\ a * PGSIZE < sz[p]
  <2>1. \A a \in Nat : a * PGSIZE < t => a * PGSIZE < sz[p]
    BY <1>5, BelowLarger
  <2> QED BY <1>7, <1>13, <2>1, PdxType
<1>15. OldOK(p)'
  BY <1>1, <1>2, <1>8, <1>9, <1>14 DEF OldOK, OldPage
<1>16. SlotOK(p)'
  BY <1>1, <1>2, <1>9 DEF RowOK, SlotOK, NoPages
<1>17. CallOK(p)' /\ NewOK(p)' /\ ~InFork(p)'
  <2>1. new'[p] = {} /\ mem'[p] = NoPages /\ va'[p] = 0 /\ lim'[p] = 0 /\ op'[p] = "user"
    BY <1>1, <1>2 DEF RowOK, CallOK, NoPages, Loops
  <2> QED BY <2>1 DEF CallOK, NewOK, NoPages, Loops, InFork, InKvm, Copies
<1>18. RowOK(p)' /\ (InFork(p)' => InFork(p) /\ child'[p] = child[p]) /\ pstate[p] # "EMBRYO"
  BY <1>1, <1>15, <1>16, <1>17 DEF RowOK
<1>19. \A q \in Tasks \ {p} : Same(q)
  BY <1>2, <1>8, <1>9 DEF Same
<1> QED BY <1>10, <1>11, <1>12, <1>18, <1>19, OneTaskKeeps

\* exit() keeps the pages for wait().
LEMMA ExitVmKeeps ==
  ASSUME VMInv, NEW p \in Tasks, exit_vm(p)
  PROVE  VMInv'
<1>1. VMTypes /\ Finites /\ Conserved /\ RowOK(p) /\ pstate[p] \in {"RUN", "FAULT"} /\ op[p] = "user"
  BY DEF VMInv, exit_vm, User, RowOK, SlotOK
<1>2. /\ pstate' = [pstate EXCEPT ![p] = "ZOMBIE"] /\ free' = free /\ sz' = sz
      /\ kstack' = kstack /\ pgdir' = pgdir /\ remapped' = remapped
      /\ op' = op /\ new' = new /\ mem' = mem /\ va' = va /\ lim' = lim /\ segs' = segs
      /\ child' = child
  BY DEF exit_vm, callvars
<1>3. /\ pstate' \in [Tasks -> TaskStates] /\ pstate'[p] = "ZOMBIE"
      /\ \A q \in Tasks \ {p} : pstate'[q] = pstate[q]
  BY <1>1, <1>2 DEF VMTypes, TaskStates
<1>4. VMTypes'
  BY <1>1, <1>2, <1>3 DEF VMTypes
<1>5. Finites'
  BY <1>1, <1>2 DEF Finites
<1>6. Conserved'
  BY <1>1, <1>2 DEF Conserved
<1>7. SlotOK(p)' /\ OldOK(p)'
  BY <1>1, <1>2, <1>3 DEF RowOK, SlotOK, OldOK, OldPage
<1>8. CallOK(p)' /\ NewOK(p)'
  BY <1>1, <1>2
  DEF RowOK, CallOK, NewOK, NewPage, NoPages, Loops, More, InFork, InKvm, Copies
<1>9. RowOK(p)' /\ (InFork(p)' => InFork(p) /\ child'[p] = child[p]) /\ pstate[p] # "EMBRYO"
  BY <1>1, <1>2, <1>7, <1>8 DEF RowOK, InFork
<1>10. \A q \in Tasks \ {p} : Same(q)
  BY <1>2, <1>3 DEF Same
<1> QED BY <1>4, <1>5, <1>6, <1>9, <1>10, OneTaskKeeps

\* A process is given another stack, directory or image: what is counted.
LEMMA StackCount ==
  ASSUME VMInv, NEW q \in Tasks, NEW S \in SUBSET {"stack"},
         kstack' = [kstack EXCEPT ![q] = S]
  PROVE  /\ kstack' \in [Tasks -> SUBSET {"stack"}] /\ kstack'[q] = S
         /\ \A r \in Tasks \ {q} : kstack'[r] = kstack[r]
         /\ Held(kstack') = Held(kstack) - Cardinality(kstack[q]) + Cardinality(S)
         /\ Cardinality(kstack[q]) \in Nat /\ Cardinality(S) \in Nat
<1>1. kstack \in [Tasks -> SUBSET {"stack"}]
  BY DEF VMInv, VMTypes
<1>2. /\ kstack' \in [Tasks -> SUBSET {"stack"}] /\ kstack'[q] = S
      /\ \A r \in Tasks \ {q} : kstack'[r] = kstack[r]
  BY <1>1
<1>3. IsFiniteSet(S)
  <2>1. IsFiniteSet({"stack"})
    BY FS_Singleton
  <2> QED BY <2>1, FS_Subset
<1>4. IsFiniteSet(kstack'[q]) /\ \A r \in Tasks : IsFiniteSet(kstack[r])
  BY <1>2, <1>3, SmallFinite
<1>5. \A r \in Tasks \ {q} : kstack'[r] = kstack[r]
  BY <1>2
<1>6. /\ Held(kstack') = Held(kstack) - Cardinality(kstack[q]) + Cardinality(kstack'[q])
      /\ Cardinality(kstack[q]) \in Nat /\ Cardinality(kstack'[q]) \in Nat
  BY <1>4, <1>5, HeldChanges
<1>7. kstack'[q] = S
  BY <1>2
<1>8. /\ Held(kstack') = Held(kstack) - Cardinality(kstack[q]) + Cardinality(S)
      /\ Cardinality(kstack[q]) \in Nat /\ Cardinality(S) \in Nat
  BY <1>6, <1>7
<1> QED BY <1>2, <1>8

\* A directory is replaced.
LEMMA DirCount ==
  ASSUME VMInv, NEW q \in Tasks, NEW S \in SUBSET Holders, IsFiniteSet(S),
         pgdir' = [pgdir EXCEPT ![q] = S]
  PROVE  /\ pgdir' \in [Tasks -> SUBSET Holders] /\ pgdir'[q] = S
         /\ \A r \in Tasks \ {q} : pgdir'[r] = pgdir[r]
         /\ \A r \in Tasks : IsFiniteSet(pgdir'[r])
         /\ Held(pgdir') = Held(pgdir) - Cardinality(pgdir[q]) + Cardinality(S)
         /\ Cardinality(pgdir[q]) \in Nat /\ Cardinality(S) \in Nat
<1>1. pgdir \in [Tasks -> SUBSET Holders]
  BY DEF VMInv, VMTypes
<1>2. /\ pgdir' \in [Tasks -> SUBSET Holders] /\ pgdir'[q] = S
      /\ \A r \in Tasks \ {q} : pgdir'[r] = pgdir[r]
  BY <1>1
<1>3. \A r \in Tasks : IsFiniteSet(pgdir[r])
  BY SmallFinite
<1>4. pgdir'[q] = S /\ IsFiniteSet(pgdir'[q])
  BY <1>2
<1>5. \A r \in Tasks \ {q} : pgdir'[r] = pgdir[r]
  BY <1>2
<1>6. /\ Held(pgdir') = Held(pgdir) - Cardinality(pgdir[q]) + Cardinality(pgdir'[q])
      /\ Cardinality(pgdir[q]) \in Nat /\ Cardinality(pgdir'[q]) \in Nat
  BY <1>3, <1>4, <1>5, HeldChanges
<1>7. /\ Held(pgdir') = Held(pgdir) - Cardinality(pgdir[q]) + Cardinality(S)
      /\ Cardinality(pgdir[q]) \in Nat /\ Cardinality(S) \in Nat
  BY <1>4, <1>6
<1>8. \A r \in Tasks : IsFiniteSet(pgdir'[r])
  BY <1>3, <1>4, <1>5
<1> QED BY <1>2, <1>7, <1>8

\* Nothing is no pages.
LEMMA NoPagesCount == IsFiniteSet(NoPages) /\ Cardinality(NoPages) = 0
BY FS_EmptySet DEF NoPages

\* wait() frees everything that a zombie has.
LEMMA WaitVmKeeps ==
  ASSUME VMInv, NEW p \in Tasks, wait_vm(p)
  PROVE  VMInv'
<1>1. VMTypes /\ Finites /\ Conserved /\ RowOK(p) /\ pstate[p] = "ZOMBIE" /\ op[p] = "user"
  BY DEF VMInv, wait_vm, RowOK, SlotOK
<1>2. /\ kstack' = [kstack EXCEPT ![p] = NoPages] /\ pgdir' = [pgdir EXCEPT ![p] = NoPages]
      /\ sz' = sz /\ pstate' = [pstate EXCEPT ![p] = "UNUSED"]
      /\ remapped' = remapped
      /\ op' = op /\ new' = new /\ mem' = mem /\ va' = va /\ lim' = lim /\ segs' = segs
      /\ child' = child
  BY DEF wait_vm, callvars
<1>3. free' = free + Cardinality(pgdir[p]) + Cardinality(kstack[p]) /\ free \in Nat
  BY <1>1, FreesBoth DEF wait_vm, kfree, VMTypes
<1>4. NoPages \in SUBSET {"stack"} /\ NoPages \in SUBSET Holders
  BY DEF NoPages
<1>5. /\ kstack' \in [Tasks -> SUBSET {"stack"}] /\ kstack'[p] = NoPages
      /\ \A r \in Tasks \ {p} : kstack'[r] = kstack[r]
  BY <1>2, <1>4, StackCount
<1>6. /\ Held(kstack') = Held(kstack) - Cardinality(kstack[p])
      /\ Cardinality(kstack[p]) \in Nat
  <2>1. /\ Held(kstack') = Held(kstack) - Cardinality(kstack[p]) + Cardinality(NoPages)
        /\ Cardinality(kstack[p]) \in Nat
    BY <1>2, <1>4, StackCount
  <2> QED BY <2>1, NoPagesCount, HeldTypes
<1>7. /\ pgdir' \in [Tasks -> SUBSET Holders] /\ pgdir'[p] = NoPages
      /\ \A r \in Tasks \ {p} : pgdir'[r] = pgdir[r]
      /\ \A r \in Tasks : IsFiniteSet(pgdir'[r])
  BY <1>2, <1>4, NoPagesCount, DirCount
<1>8. /\ Held(pgdir') = Held(pgdir) - Cardinality(pgdir[p])
      /\ Cardinality(pgdir[p]) \in Nat
  <2>1. /\ Held(pgdir') = Held(pgdir) - Cardinality(pgdir[p]) + Cardinality(NoPages)
        /\ Cardinality(pgdir[p]) \in Nat
    BY <1>2, <1>4, NoPagesCount, DirCount
  <2> QED BY <2>1, NoPagesCount, HeldTypes
<1>9. /\ pstate' \in [Tasks -> TaskStates] /\ pstate'[p] = "UNUSED"
      /\ \A q \in Tasks \ {p} : pstate'[q] = pstate[q]
  BY <1>1, <1>2 DEF VMTypes, TaskStates
<1>10. VMTypes'
  <2>1. free' \in Nat
    BY <1>3, <1>6, <1>8
  <2> QED BY <1>1, <1>2, <1>5, <1>7, <1>9, <2>1 DEF VMTypes
<1>11. Finites'
  BY <1>1, <1>2, <1>7 DEF Finites
<1>12. Conserved'
  <2>1. Held(new') = Held(new) /\ Held(mem') = Held(mem)
    BY <1>2
  <2> QED BY <1>1, <1>3, <1>6, <1>8, <2>1, HeldTypes DEF Conserved
<1>13. SlotOK(p)' /\ OldOK(p)'
  BY <1>1, <1>2, <1>5, <1>7, <1>9 DEF SlotOK, OldOK, NoPages
<1>14. CallOK(p)' /\ NewOK(p)' /\ ~InFork(p)'
  <2>1. new'[p] = {} /\ mem'[p] = NoPages /\ va'[p] = 0 /\ lim'[p] = 0 /\ op'[p] = "user"
    BY <1>1, <1>2 DEF RowOK, CallOK, NoPages, Loops
  <2> QED BY <2>1 DEF CallOK, NewOK, NoPages, Loops, InFork, InKvm, Copies
<1>15. RowOK(p)' /\ (InFork(p)' => InFork(p) /\ child'[p] = child[p]) /\ pstate[p] # "EMBRYO"
  BY <1>1, <1>13, <1>14 DEF RowOK
<1>16. \A q \in Tasks \ {p} : Same(q)
  BY <1>2, <1>5, <1>7, <1>9 DEF Same
<1> QED BY <1>10, <1>11, <1>12, <1>15, <1>16, OneTaskKeeps

\* exec() frees the old image once the new one is in place.
LEMMA CommitKeeps ==
  ASSUME VMInv, NEW p \in Tasks, commit(p)
  PROVE  VMInv'
<1>1. ~remapped'
  BY DEF VMInv, VMTypes, commit
<1>2. CASE Fail(p)
  BY <1>1, <1>2, FailKeeps
<1>3. CASE ~Fail(p)
  <2>1. /\ VMTypes /\ Finites /\ Conserved /\ RowOK(p) /\ op[p] = "exec stack" /\ ~More(p)
        /\ Loops(p) /\ pstate[p] = "RUN"
    BY DEF VMInv, commit, RowOK, SlotOK, Loops
  <2>2. /\ pgdir' = [pgdir EXCEPT ![p] = new[p]] /\ sz' = [sz EXCEPT ![p] = lim[p]]
        /\ Return(p) /\ pstate' = pstate /\ kstack' = kstack
    BY <1>3 DEF commit
  <2>3. free' = free + Cardinality(pgdir[p]) /\ free \in Nat
    BY <1>3, <2>1, FreesBoth DEF commit, kfree, VMTypes
  <2>4. mem[p] = NoPages /\ \A a \in Nat : a < va[p] <=> a * PGSIZE < lim[p]
    BY <2>1, LoopDone
  <2>5. new[p] \in SUBSET Holders /\ IsFiniteSet(new[p])
    BY <2>1 DEF VMTypes, Finites
  <2>6. /\ pgdir' \in [Tasks -> SUBSET Holders] /\ pgdir'[p] = new[p]
        /\ \A r \in Tasks \ {p} : pgdir'[r] = pgdir[r]
        /\ \A r \in Tasks : IsFiniteSet(pgdir'[r])
    BY <2>2, <2>5, DirCount
  <2>7. /\ Held(pgdir') = Held(pgdir) - Cardinality(pgdir[p]) + Cardinality(new[p])
        /\ Cardinality(pgdir[p]) \in Nat /\ Cardinality(new[p]) \in Nat
    BY <2>2, <2>5, DirCount
  <2>8. /\ sz' \in [Tasks -> UserSizes] /\ sz'[p] = lim[p]
        /\ \A q \in Tasks \ {p} : sz'[q] = sz[q]
    <3>1. sz \in [Tasks -> UserSizes] /\ lim[p] \in UserSizes
      BY <2>1 DEF VMTypes
    <3> QED BY <2>2, <3>1
  <2>9. VMTypes'
    <3>1. free' \in Nat
      BY <2>3, <2>7
    <3> QED BY <1>1, <2>1, <2>2, <2>6, <2>8, <3>1, ReturnCalls DEF VMTypes
  <2>10. Finites'
    BY <2>2, <2>6, ReturnCounts DEF Finites
  <2>11. Conserved'
    <3>1. /\ Held(new') = Held(new) - Cardinality(new[p])
          /\ Held(mem') = Held(mem) - Cardinality(mem[p])
      BY <2>2, ReturnCounts
    <3>2. Held(mem') = Held(mem)
      BY <2>4, <3>1, NoPagesCount, HeldTypes
    <3>3. Held(kstack') = Held(kstack)
      BY <2>2
    <3>4. Conserved
      BY <2>1
    <3>5. Held(kstack) \in Nat /\ Held(mem) \in Nat /\ Held(pgdir) \in Nat /\ Held(new) \in Nat
      BY HeldTypes
    <3>6. Held(new') = Held(new) - Cardinality(new[p])
      BY <3>1
    <3> QED BY <2>3, <2>7, <3>2, <3>3, <3>4, <3>5, <3>6 DEF Conserved
  <2>12. /\ op'[p] = "user" /\ CallOK(p)' /\ NewOK(p)' /\ ~InFork(p)'
         /\ \A q \in Tasks \ {p} :
              /\ op'[q] = op[q] /\ new'[q] = new[q] /\ mem'[q] = mem[q]
              /\ va'[q] = va[q] /\ lim'[q] = lim[q] /\ child'[q] = child[q]
    BY <2>2, ReturnCalls
  <2>13. SlotOK(p)'
    BY <2>1, <2>2, <2>12 DEF RowOK, SlotOK, NoPages
  <2>14. OldOK(p)'
    <3>1. \A a \in Nat : /\ PageAt(a) \in new[p] => a < va[p] /\ TableAt(PDX(a)) \in new[p]
                         /\ a < va[p] => PageAt(a) \in new[p]
      BY <2>1 DEF RowOK, NewOK, NewPage, Copies
    <3>2. \A a \in Nat : OldPage(p, a)' <=> a * PGSIZE < lim[p]
      BY <2>8, <2>12 DEF OldPage
    <3> QED BY <2>4, <2>6, <3>1, <3>2 DEF OldOK
  <2>15. RowOK(p)' /\ (InFork(p)' => InFork(p) /\ child'[p] = child[p]) /\ pstate[p] # "EMBRYO"
    BY <2>1, <2>12, <2>13, <2>14 DEF RowOK
  <2>16. \A q \in Tasks \ {p} : Same(q)
    BY <2>2, <2>6, <2>8, <2>12 DEF Same
  <2> QED BY <2>9, <2>10, <2>11, <2>15, <2>16, OneTaskKeeps
<1> QED BY <1>2, <1>3
-----------------------------------------------------------------------------
(* fork().                                                                 *)

\* fork() takes a slot that no other fork has, and a page for its stack.
LEMMA ForkVmKeeps ==
  ASSUME VMInv, NEW p \in Tasks, NEW q \in Tasks, fork_vm(p, q)
  PROVE  VMInv'
<1>1. /\ VMTypes /\ Finites /\ Conserved /\ RowOK(p) /\ RowOK(q) /\ op[p] = "user"
      /\ pstate[p] = "RUN" /\ pstate[q] = "UNUSED" /\ p # q
  BY DEF VMInv, fork_vm, User
<1>2. /\ kstack' = [kstack EXCEPT ![q] = {"stack"}] /\ pstate' = [pstate EXCEPT ![q] = "EMBRYO"]
      /\ op' = [op EXCEPT ![p] = "fork kvm"] /\ lim' = [lim EXCEPT ![p] = sz[p]]
      /\ child' = [child EXCEPT ![p] = q] /\ sz' = sz /\ pgdir' = pgdir /\ new' = new
      /\ mem' = mem /\ va' = va /\ segs' = segs /\ remapped' = remapped
  BY DEF fork_vm
<1>3. free \in Nat /\ free' = free - 1 /\ free' \in Nat
  <2>1. free \in Nat
    BY <1>1 DEF VMTypes
  <2>2. free > 0 /\ free' = free - 1
    BY DEF fork_vm, kalloc
  <2> QED BY <2>1, <2>2
<1>4. /\ kstack' \in [Tasks -> SUBSET {"stack"}] /\ kstack'[q] = {"stack"}
      /\ \A r \in Tasks \ {q} : kstack'[r] = kstack[r]
  BY <1>2, StackCount
<1>5. Held(kstack') = Held(kstack) + 1
  <2>1. /\ Held(kstack') = Held(kstack) - Cardinality(kstack[q]) + Cardinality({"stack"})
        /\ Cardinality(kstack[q]) \in Nat
    BY <1>2, StackCount
  <2>2. kstack[q] = NoPages
    BY <1>1 DEF RowOK, SlotOK
  <2>3. Cardinality({"stack"}) = 1
    BY FS_Singleton
  <2> QED BY <2>1, <2>2, <2>3, NoPagesCount, HeldTypes
<1>6. /\ pstate' \in [Tasks -> TaskStates] /\ pstate'[q] = "EMBRYO"
      /\ \A r \in Tasks \ {q} : pstate'[r] = pstate[r]
  BY <1>1, <1>2 DEF VMTypes, TaskStates
<1>7. /\ op' \in [Tasks -> Ops] /\ op'[p] = "fork kvm"
      /\ \A r \in Tasks \ {p} : op'[r] = op[r]
  BY <1>1, <1>2 DEF VMTypes, Ops
<1>8. /\ lim' \in [Tasks -> UserSizes] /\ lim'[p] = sz[p]
      /\ \A r \in Tasks \ {p} : lim'[r] = lim[r]
  BY <1>1, <1>2 DEF VMTypes
<1>9. /\ child' \in [Tasks -> Tasks \cup {NoChild}] /\ child'[p] = q
      /\ \A r \in Tasks \ {p} : child'[r] = child[r]
  BY <1>1, <1>2 DEF VMTypes
<1>10. VMTypes'
  BY <1>1, <1>2, <1>3, <1>4, <1>6, <1>7, <1>8, <1>9 DEF VMTypes
<1>11. Finites'
  BY <1>1, <1>2 DEF Finites
<1>12. Conserved'
  <2>1. Conserved
    BY <1>1
  <2>2. Held(pgdir') = Held(pgdir) /\ Held(new') = Held(new) /\ Held(mem') = Held(mem)
    BY <1>2
  <2>3. Held(kstack) \in Nat /\ Held(mem) \in Nat /\ Held(pgdir) \in Nat /\ Held(new) \in Nat
    BY HeldTypes
  <2> QED BY <1>3, <1>5, <2>1, <2>2, <2>3 DEF Conserved
<1>13. \A r \in Tasks : InFork(r)' => r = p \/ (InFork(r) /\ child'[r] = child[r])
  <2> SUFFICES ASSUME NEW r \in Tasks, InFork(r)', r # p
               PROVE  InFork(r) /\ child'[r] = child[r]
    OBVIOUS
  <2>1. op'[r] = op[r] /\ child'[r] = child[r]
    BY <1>7, <1>9
  <2> QED BY <2>1 DEF InFork
<1>14. ChildrenApart'
  <2>1. ASSUME NEW r \in Tasks, InFork(r) PROVE child[r] \in Tasks /\ pstate[child[r]] = "EMBRYO"
    BY <2>1, ChildFacts
  <2>2. \A r \in Tasks : InFork(r)' => pstate'[child'[r]] = "EMBRYO"
    BY <1>1, <1>6, <1>9, <1>13, <2>1
  <2>3. ASSUME NEW r \in Tasks, NEW s \in Tasks, InFork(r)', InFork(s)', child'[r] = child'[s]
        PROVE  r = s
    <3>1. \A u \in Tasks : InFork(u) => child[u] # q
      BY <1>1, <2>1
    <3> QED BY <1>9, <1>13, <2>3, <3>1 DEF VMInv, ChildrenApart
  <2> QED BY <2>2, <2>3 DEF ChildrenApart
<1>15. RowOK(p)'
  <2>1. SlotOK(p)'
    BY <1>1, <1>2, <1>4, <1>6, <1>7 DEF RowOK, SlotOK, NoPages
  <2>2. new'[p] = {} /\ mem'[p] = NoPages /\ va'[p] = 0
    BY <1>1, <1>2 DEF RowOK, CallOK, NoPages, Loops
  <2>3. va'[p] <= KTABS
    BY <2>2, VMSizes
  <2>4. CallOK(p)'
    BY <1>2, <1>7, <1>8, <1>9, <2>2, <2>3 DEF CallOK, NoPages, Loops, InFork, InKvm
  <2>5. OldOK(p)'
    BY <1>1, <1>2, <1>6, <1>7 DEF RowOK, OldOK, OldPage
  <2>6. NewOK(p)'
    BY <1>7, <2>2 DEF NewOK, Copies
  <2> QED BY <2>1, <2>4, <2>5, <2>6 DEF RowOK
<1>16. RowOK(q)'
  <2>1. op[q] = "user" /\ pgdir[q] = NoPages
    BY <1>1 DEF RowOK, SlotOK
  <2>2. SlotOK(q)'
    BY <1>1, <1>2, <1>4, <1>6, <1>7, <2>1 DEF SlotOK
  <2>3. CallOK(q)'
    BY <1>1, <1>2, <1>7, <1>8, <1>9
    DEF RowOK, CallOK, NoPages, Loops, More, InFork, InKvm
  <2>4. OldOK(q)'
    BY <1>2, <1>6, <2>1 DEF OldOK, NoPages
  <2>5. NewOK(q)'
    BY <1>1, <1>2, <1>7, <1>8 DEF RowOK, NewOK, NewPage, Copies
  <2> QED BY <2>2, <2>3, <2>4, <2>5 DEF RowOK
<1>17. \A r \in Tasks \ {p, q} : Same(r)
  BY <1>2, <1>4, <1>6, <1>7, <1>8, <1>9 DEF Same
<1> QED BY <1>10, <1>11, <1>12, <1>14, <1>15, <1>16, <1>17, TwoTasksKeep

\* fork() hands the image to the child.
LEMMA ForkedKeeps ==
  ASSUME VMInv, NEW p \in Tasks, forked(p)
  PROVE  VMInv'
<1>1. /\ VMTypes /\ Finites /\ Conserved /\ RowOK(p) /\ op[p] = "fork" /\ ~More(p)
      /\ Loops(p) /\ InFork(p)
  BY DEF VMInv, forked, Loops, InFork
<1>2. PICK c \in Tasks :
        /\ child[p] = c /\ c # p /\ pstate[c] = "EMBRYO" /\ op[c] = "user"
        /\ pgdir[c] = NoPages /\ kstack[c] = {"stack"} /\ pstate[p] = "RUN"
        /\ \A q \in Tasks \ {p} : InFork(q) => child[q] # c
  BY <1>1, ChildFacts
<1>3. /\ Return(p) /\ pgdir' = [pgdir EXCEPT ![c] = new[p]] /\ sz' = [sz EXCEPT ![c] = sz[p]]
      /\ pstate' = [pstate EXCEPT ![c] = "RUN"] /\ free' = free /\ kstack' = kstack
      /\ remapped' = remapped
  BY <1>2 DEF forked
<1>4. mem[p] = NoPages /\ \A a \in Nat : a < va[p] <=> a * PGSIZE < lim[p]
  BY <1>1, LoopDone
<1>5. new[p] \in SUBSET Holders /\ IsFiniteSet(new[p])
  BY <1>1 DEF VMTypes, Finites
<1>6. /\ pgdir' \in [Tasks -> SUBSET Holders] /\ pgdir'[c] = new[p]
      /\ \A r \in Tasks \ {c} : pgdir'[r] = pgdir[r]
      /\ \A r \in Tasks : IsFiniteSet(pgdir'[r])
  BY <1>3, <1>5, DirCount
<1>7. /\ Held(pgdir') = Held(pgdir) + Cardinality(new[p]) /\ Cardinality(new[p]) \in Nat
  <2>1. /\ Held(pgdir') = Held(pgdir) - Cardinality(pgdir[c]) + Cardinality(new[p])
        /\ Cardinality(new[p]) \in Nat
    BY <1>3, <1>5, DirCount
  <2>2. pgdir[c] = NoPages
    BY <1>2
  <2> QED BY <2>1, <2>2, NoPagesCount, HeldTypes
<1>8. /\ sz' \in [Tasks -> UserSizes] /\ sz'[c] = sz[p] /\ \A r \in Tasks \ {c} : sz'[r] = sz[r]
  BY <1>1, <1>3 DEF VMTypes
<1>9. /\ pstate' \in [Tasks -> TaskStates] /\ pstate'[c] = "RUN"
      /\ \A r \in Tasks \ {c} : pstate'[r] = pstate[r]
  BY <1>1, <1>3 DEF VMTypes, TaskStates
<1>10. VMTypes'
  BY <1>1, <1>3, <1>6, <1>8, <1>9, ReturnCalls DEF VMTypes
<1>11. Finites'
  BY <1>3, <1>6, ReturnCounts DEF Finites
<1>12. Conserved'
  <2>1. Conserved
    BY <1>1
  <2>2. /\ Held(new') = Held(new) - Cardinality(new[p])
        /\ Held(mem') = Held(mem) - Cardinality(mem[p])
    BY <1>3, ReturnCounts
  <2>3. Held(mem') = Held(mem)
    BY <1>4, <2>2, NoPagesCount, HeldTypes
  <2>4. Held(kstack') = Held(kstack) /\ free' = free
    BY <1>3
  <2>5. Held(kstack) \in Nat /\ Held(mem) \in Nat /\ Held(pgdir) \in Nat /\ Held(new) \in Nat
    BY HeldTypes
  <2>6. Held(new') = Held(new) - Cardinality(new[p]) /\ free \in Nat
    BY <1>1, <2>2 DEF VMTypes
  <2> QED BY <1>7, <2>1, <2>3, <2>4, <2>5, <2>6 DEF Conserved
<1>13. /\ op'[p] = "user" /\ CallOK(p)' /\ NewOK(p)' /\ ~InFork(p)'
       /\ \A q \in Tasks \ {p} :
            /\ op'[q] = op[q] /\ new'[q] = new[q] /\ mem'[q] = mem[q]
            /\ va'[q] = va[q] /\ lim'[q] = lim[q] /\ child'[q] = child[q]
  BY <1>3, ReturnCalls
<1>14. ChildrenApart'
  <2>1. ASSUME NEW q \in Tasks, InFork(q)'
        PROVE  InFork(q) /\ child'[q] = child[q] /\ pstate'[child'[q]] = "EMBRYO"
    <3>1. q # p
      BY <1>13, <2>1
    <3>2. InFork(q) /\ child'[q] = child[q]
      BY <1>13, <2>1, <3>1 DEF InFork
    <3>3. child[q] # c /\ child[q] \in Tasks /\ pstate[child[q]] = "EMBRYO"
      BY <1>2, <3>1, <3>2, ChildFacts
    <3> QED BY <1>9, <3>2, <3>3
  <2> QED BY <2>1 DEF ChildrenApart, VMInv
<1>15. RowOK(p)'
  <2>1. SlotOK(p)'
    BY <1>1, <1>2, <1>3, <1>6, <1>9, <1>13 DEF RowOK, SlotOK, NoPages
  <2>2. OldOK(p)'
    BY <1>1, <1>2, <1>6, <1>8, <1>9, <1>13 DEF RowOK, OldOK, OldPage
  <2> QED BY <1>13, <2>1, <2>2 DEF RowOK
<1>16. RowOK(c)'
  <2>1. RowOK(c)
    BY DEF VMInv
  <2>2. SlotOK(c)'
    BY <1>2, <1>3, <1>9, <1>13 DEF SlotOK
  <2>3. CallOK(c)'
    BY <1>2, <1>13, <2>1 DEF RowOK, CallOK, NoPages, Loops, More, InFork, InKvm
  <2>4. NewOK(c)'
    BY <1>2, <1>13, <2>1 DEF RowOK, NewOK, NewPage, Copies
  <2>5. OldOK(c)'
    <3>1. \A a \in Nat : /\ PageAt(a) \in new[p] => a < va[p] /\ TableAt(PDX(a)) \in new[p]
                         /\ a < va[p] => PageAt(a) \in new[p]
      BY <1>1 DEF RowOK, NewOK, NewPage, Copies
    <3>2. lim[p] = sz[p]
      BY <1>1 DEF RowOK, CallOK
    <3>3. \A a \in Nat : OldPage(c, a)' <=> a * PGSIZE < lim[p]
      BY <1>2, <1>8, <1>13, <3>2 DEF OldPage
    <3> QED BY <1>4, <1>6, <3>1, <3>3 DEF OldOK
  <2> QED BY <2>2, <2>3, <2>4, <2>5 DEF RowOK
<1>17. \A q \in Tasks \ {p, c} : Same(q)
  BY <1>3, <1>6, <1>8, <1>9, <1>13 DEF Same
<1> QED BY <1>10, <1>11, <1>12, <1>14, <1>15, <1>16, <1>17, TwoTasksKeep
-----------------------------------------------------------------------------
(* The start.                                                              *)

\* Only initproc has pages.
LEMMA InitHeld ==
  ASSUME NEW S, IsFiniteSet(S)
  PROVE  Held([p \in Tasks |-> IF p = 1 THEN S ELSE NoPages]) = Cardinality(S)
<1> DEFINE f == [p \in Tasks |-> NoPages]
           g == [p \in Tasks |-> IF p = 1 THEN S ELSE NoPages]
<1>1. 1 \in Tasks
  BY VMSizes
<1>2. \A q \in Tasks : IsFiniteSet(f[q])
  BY NoPagesCount
<1>3. IsFiniteSet(g[1]) /\ g[1] = S /\ f[1] = NoPages
  BY <1>1
<1>4. \A q \in Tasks \ {1} : g[q] = f[q]
  OBVIOUS
<1>5. Held(f) = 0
  <2>1. Places(f) = NoPages
    BY DEF Places, NoPages
  <2> QED BY <2>1, NoPagesCount DEF Held
<1> HIDE DEF f, g
<1>6. Held(g) = Held(f) - Cardinality(f[1]) + Cardinality(g[1]) /\ Cardinality(g[1]) \in Nat
  BY <1>1, <1>2, <1>3, <1>4, HeldChanges
<1>7. Held(g) = Cardinality(S)
  BY <1>3, <1>5, <1>6, NoPagesCount
<1> QED BY <1>7 DEF g

\* No process is in a call.
LEMMA InitNoneHeld ==
  Held([p \in Tasks |-> NoPages]) = 0
<1>1. Places([p \in Tasks |-> NoPages]) = NoPages
  BY DEF Places, NoPages
<1> QED BY <1>1, NoPagesCount DEF Held

\* userinit() takes a directory, the kernel's tables, one table and one page.
LEMMA InitPgdirCount ==
  /\ IsFiniteSet(InitPgdir) /\ Cardinality(InitPgdir) = KTABS + 3
  /\ InitPgdir \in SUBSET Holders
<1> DEFINE I == 0..KTABS
           K == {"kvm"} \X I
           T == K \cup {TableAt(0)}
<1>1. IsFiniteSet(I) /\ Cardinality(I) = KTABS + 1
  <2>1. 0 \in Int /\ KTABS \in Int /\ 0 <= KTABS
    BY VMSizes
  <2> QED BY <2>1, FS_Interval
<1>2. IsFiniteSet({"kvm"}) /\ Cardinality({"kvm"}) = 1
  BY FS_Singleton
<1>3. IsFiniteSet(K) /\ Cardinality(K) = KTABS + 1
  <2>1. IsFiniteSet(K) /\ Cardinality(K) = Cardinality({"kvm"}) * Cardinality(I)
    <3> HIDE DEF I
    <3> QED BY <1>1, <1>2, FS_Product
  <2> HIDE DEF K, I
  <2> QED BY <1>1, <1>2, <2>1, VMSizes
<1>4. TableAt(0) \notin K /\ PageAt(0) \notin T
  BY DEF TableAt, PageAt
<1>5. IsFiniteSet(T) /\ Cardinality(T) = KTABS + 2
  <2>1. IsFiniteSet(T) /\ Cardinality(T) = Cardinality(K) + 1
    <3> HIDE DEF K
    <3> QED BY <1>3, <1>4, FS_AddElement
  <2> HIDE DEF T, K
  <2> QED BY <1>3, <2>1, VMSizes
<1>6. IsFiniteSet(T \cup {PageAt(0)}) /\ Cardinality(T \cup {PageAt(0)}) = KTABS + 3
  <2>1. Cardinality(T \cup {PageAt(0)}) = Cardinality(T) + 1 /\ IsFiniteSet(T \cup {PageAt(0)})
    <3> HIDE DEF T
    <3> QED BY <1>4, <1>5, FS_AddElement
  <2> HIDE DEF T
  <2> QED BY <1>5, <2>1, VMSizes
<1>7. InitPgdir = T \cup {PageAt(0)}
  BY DEF InitPgdir
<1>8. InitPgdir \in SUBSET Holders
  BY DEF InitPgdir, Holders, TableAt, PageAt
<1> HIDE DEF T
<1> QED BY <1>6, <1>7, <1>8

\* userinit() establishes the invariant.
LEMMA InitVMInv == userinit => VMInv
<1> SUFFICES ASSUME userinit PROVE VMInv
  OBVIOUS
<1>1. /\ free = NFRAMES - (4 + KTABS)
      /\ pstate = [p \in Tasks |-> IF p = 1 THEN "RUN" ELSE "UNUSED"]
      /\ sz = [p \in Tasks |-> IF p = 1 THEN PGSIZE ELSE 0]
  BY DEF userinit
<1>2. /\ kstack = [p \in Tasks |-> IF p = 1 THEN {"stack"} ELSE NoPages]
      /\ pgdir = [p \in Tasks |-> IF p = 1 THEN InitPgdir ELSE NoPages]
      /\ new = [p \in Tasks |-> NoPages] /\ mem = [p \in Tasks |-> NoPages]
  BY DEF userinit
<1>3. /\ op = [p \in Tasks |-> "user"] /\ va = [p \in Tasks |-> 0]
      /\ lim = [p \in Tasks |-> 0] /\ segs = [p \in Tasks |-> 0]
      /\ child = [p \in Tasks |-> NoChild] /\ ~remapped
  BY DEF userinit
<1>4. NoPages \in SUBSET Holders /\ NoPages \in SUBSET {"page"} /\ NoPages \in SUBSET {"stack"}
  BY DEF NoPages
<1>5. VMTypes
  <2>1. free \in Nat
    BY <1>1, VMSizes
  <2>2. pstate \in [Tasks -> TaskStates] /\ op \in [Tasks -> Ops]
    BY <1>1, <1>3 DEF TaskStates, Ops
  <2>3. 0 \in UserSizes /\ PGSIZE \in UserSizes
    BY VMSizes DEF UserSizes
  <2>4. sz \in [Tasks -> UserSizes] /\ lim \in [Tasks -> UserSizes]
    BY <1>1, <1>3, <2>3
  <2>5. kstack \in [Tasks -> SUBSET {"stack"}] /\ mem \in [Tasks -> SUBSET {"page"}]
    BY <1>2, <1>4
  <2>6. pgdir \in [Tasks -> SUBSET Holders] /\ new \in [Tasks -> SUBSET Holders]
    BY <1>2, <1>4, InitPgdirCount
  <2>7. va \in [Tasks -> Nat] /\ segs \in [Tasks -> Nat] /\ child \in [Tasks -> Tasks \cup {NoChild}]
    BY <1>3
  <2> QED BY <1>3, <2>1, <2>2, <2>4, <2>5, <2>6, <2>7 DEF VMTypes
<1>6. Finites
  BY <1>2, InitPgdirCount, NoPagesCount DEF Finites
<1>7. Conserved
  <2>1. Held(kstack) = 1
    BY <1>2, InitHeld, FS_Singleton
  <2>2. Held(pgdir) = KTABS + 3
    BY <1>2, InitHeld, InitPgdirCount
  <2>3. Held(mem) = 0 /\ Held(new) = 0
    BY <1>2, InitNoneHeld
  <2> QED BY <1>1, <2>1, <2>2, <2>3, VMSizes DEF Conserved
<1>8. ChildrenApart
  BY <1>3 DEF ChildrenApart, InFork
<1>9. ASSUME NEW p \in Tasks PROVE RowOK(p)
  <2>1. op[p] = "user" /\ va[p] = 0 /\ lim[p] = 0 /\ new[p] = NoPages /\ mem[p] = NoPages
    BY <1>2, <1>3
  <2>2. SlotOK(p)
    BY <1>1, <1>2, <2>1 DEF SlotOK
  <2>3. CallOK(p)
    BY <2>1 DEF CallOK, Loops, InFork, InKvm
  <2>4. NewOK(p)
    BY <2>1 DEF NewOK, NoPages, Copies
  <2>5. OldOK(p)
    <3>1. CASE p # 1
      <4>1. pgdir[p] = NoPages /\ pstate[p] = "UNUSED"
        BY <1>1, <1>2, <3>1
      <4> QED BY <4>1 DEF OldOK, NoPages
    <3>2. CASE p = 1
      <4>1. pgdir[p] = InitPgdir /\ sz[p] = PGSIZE
        BY <1>1, <1>2, <3>2
      <4>2. ASSUME NEW a \in Nat
            PROVE  /\ PageAt(a) \in InitPgdir <=> a = 0
                   /\ a * PGSIZE < PGSIZE <=> a = 0
        <5>1. PageAt(a) \in InitPgdir <=> a = 0
          BY DEF InitPgdir, PageAt, TableAt
        <5>2. CASE a = 0
          BY <5>1, <5>2, VMSizes
        <5>3. CASE a # 0
          <6>1. 1 \in Nat /\ 1 <= a
            BY <5>3
          <6>2. 1 * PGSIZE <= a * PGSIZE /\ a * PGSIZE \in Nat
            BY <6>1, PagesOrdered, VMSizes
          <6> DEFINE m == a * PGSIZE
          <6>3. PGSIZE <= m /\ m \in Nat /\ PGSIZE \in Nat
            BY <6>2, VMSizes
          <6> HIDE DEF m
          <6>4. ~(m < PGSIZE)
            BY <6>3
          <6> QED BY <5>1, <5>3, <6>4 DEF m
        <5> QED BY <5>2, <5>3
      <4>3. PDX(0) = 0 /\ TableAt(0) \in InitPgdir
        BY VMSizes DEF PDX, InitPgdir
      <4> QED BY <2>1, <4>1, <4>2, <4>3 DEF OldOK, OldPage
    <3> QED BY <3>1, <3>2
  <2> QED BY <2>2, <2>3, <2>4, <2>5 DEF RowOK
<1> QED BY <1>5, <1>6, <1>7, <1>8, <1>9 DEF VMInv
-----------------------------------------------------------------------------
(* Every step.                                                             *)

\* A step of one process, by the lemma of its action.
LEMMA TaskKeeps ==
  ASSUME VMInv, NEW p \in Tasks, Task(p)
  PROVE  VMInv'
<1>1. CASE setupkvm(p) BY <1>1, SetupKeeps
<1>2. CASE allocpage(p) BY <1>2, AllocKeeps
<1>3. CASE mappages(p) BY <1>3, MapKeeps
<1>4. ASSUME NEW n \in 1..KERNBASE, grow(p, n) PROVE VMInv'
  BY <1>4, GrowKeeps
<1>5. ASSUME NEW n \in 1..KERNBASE, shrink(p, n) PROVE VMInv'
  BY <1>5, ShrinkKeeps
<1>6. CASE grown(p) BY <1>6, GrownKeeps
<1>7. CASE forked(p) BY <1>7, ForkedKeeps
<1>8. CASE exit_vm(p) BY <1>8, ExitVmKeeps
<1>9. CASE wait_vm(p) BY <1>9, WaitVmKeeps
<1>10. CASE exec_vm(p) BY <1>10, ExecVmKeeps
<1>11. ASSUME NEW q \in Tasks, fork_vm(p, q) PROVE VMInv'
  BY <1>11, ForkVmKeeps
<1>12. ASSUME NEW e \in 0..KERNBASE, segment(p, e) PROVE VMInv'
  BY <1>12, SegmentKeeps
<1>13. CASE loaduvm(p) BY <1>13, LoaduvmKeeps
<1>14. CASE stack(p) BY <1>14, StackKeeps
<1>15. CASE commit(p) BY <1>15, CommitKeeps
<1> QED BY <1>1, <1>2, <1>3, <1>4, <1>5, <1>6, <1>7, <1>8, <1>9, <1>10, <1>11, <1>12,
           <1>13, <1>14, <1>15 DEF Task

LEMMA VMNextKeeps == VMInv /\ [VMNext]_vmvars => VMInv'
<1> SUFFICES ASSUME VMInv, [VMNext]_vmvars PROVE VMInv'
  OBVIOUS
<1>1. CASE VMNext
  BY <1>1, TaskKeeps DEF VMNext
<1>2. CASE UNCHANGED vmvars
  <2>1. /\ free' = free /\ pstate' = pstate /\ sz' = sz /\ kstack' = kstack /\ pgdir' = pgdir
        /\ op' = op /\ new' = new /\ mem' = mem /\ va' = va /\ lim' = lim /\ segs' = segs
        /\ child' = child /\ remapped' = remapped
    BY <1>2 DEF vmvars, taskvars, callvars
  <2>2. VMTypes' /\ Finites' /\ Conserved'
    BY <2>1 DEF VMInv, VMTypes, Finites, Conserved
  <2>3. ChildrenApart'
    BY <2>1 DEF VMInv, ChildrenApart, InFork
  <2>4. \A p \in Tasks : Same(p)
    BY <2>1 DEF Same
  <2>5. \A p \in Tasks : RowOK(p)'
    BY <2>4, SameKeeps DEF VMInv
  <2> QED BY <2>2, <2>3, <2>5 DEF VMInv
<1> QED BY <1>1, <1>2

\* The invariant says what VMSound says.
LEMMA VMInvImplies == VMInv => VMSound
<1> SUFFICES ASSUME VMInv PROVE VMSound
  OBVIOUS
<1>1. ASSUME NEW p \in Tasks
      PROVE  /\ pstate[p] = "RUN" =>
                  \A a \in 0..(PGROUNDUP(sz[p]) - 1) : PageAt(a) \in pgdir[p]
             /\ \A x \in pgdir[p] : IsPage(x) =>
                  /\ TableAt(PDX(x[2])) \in pgdir[p]
                  /\ \/ x[2] < PGROUNDUP(sz[p])
                     \/ op[p] = "sbrk" /\ x[2] < va[p]
  <2>1. OldOK(p) /\ CallOK(p) /\ pgdir[p] \in SUBSET Holders
    BY DEF VMInv, RowOK, VMTypes
  <2>2. sz[p] \in Nat
    BY VMSizes DEF VMInv, VMTypes, UserSizes
  <2> DEFINE n == PGROUNDUP(sz[p])
  <2>3. n \in Nat /\ \A a \in Nat : a < n <=> a * PGSIZE < sz[p]
    BY <2>2, RoundUp
  <2> HIDE DEF n
  <2>4. ASSUME pstate[p] = "RUN", NEW a \in 0..(n - 1) PROVE PageAt(a) \in pgdir[p]
    <3>1. a \in Nat /\ a < n
      BY <2>3
    <3>2. a * PGSIZE < sz[p]
      BY <2>3, <3>1
    <3>3. OldPage(p, a)
      BY <2>1, <3>1, <3>2 DEF OldPage, CallOK
    <3> QED BY <2>1, <2>4, <3>1, <3>3 DEF OldOK
  <2>5. ASSUME NEW x \in pgdir[p], IsPage(x)
        PROVE  /\ TableAt(PDX(x[2])) \in pgdir[p]
               /\ x[2] < n \/ (op[p] = "sbrk" /\ x[2] < va[p])
    <3>1. x[2] \in Nat /\ x = PageAt(x[2])
      BY <2>1, <2>5, PageNamed
    <3>2. OldPage(p, x[2]) /\ TableAt(PDX(x[2])) \in pgdir[p]
      BY <2>1, <2>5, <3>1 DEF OldOK
    <3>3. x[2] < n <=> x[2] * PGSIZE < sz[p]
      BY <2>3, <3>1
    <3> QED BY <3>2, <3>3 DEF OldPage
  <2> QED BY <2>4, <2>5 DEF n
<1> QED BY <1>1 DEF VMSound, VMInv, VMTypes, Conserved

\* However the allocations of the processes interleave, and wherever memory
\* runs out, sbrk, fork, exec and wait keep what their loops rely on.
THEOREM VMInvariant == VMSpec => []VMInv
<1>1. userinit => VMInv
  BY InitVMInv
<1>2. VMInv /\ [VMNext]_vmvars => VMInv'
  BY VMNextKeeps
<1> QED BY <1>1, <1>2, PTL DEF VMSpec

\* No page of memory is lost or freed twice, every process has the pages of
\* its size and their tables, and no call panics.
THEOREM VMIsSound == VMSpec => []VMSound
<1>1. VMInv => VMSound
  BY VMInvImplies
<1> QED BY <1>1, VMInvariant, PTL
=============================================================================
