--------------------------------- MODULE VM ---------------------------------
(***************************************************************************)
(* Physical pages and address spaces (kalloc.c, vm.c, exec.c, and what     *)
(* fork, growproc, exit and wait in proc.c do with memory).                *)
(*                                                                         *)
(* Every kalloc() is a step of its own, at which another process may have  *)
(* taken the last page: the calls are loops over pages, and can fail after *)
(* any of them.  Freeing never fails and is part of the step that does it. *)
(***************************************************************************)
EXTENDS Integers, FiniteSets

CONSTANTS
  Tasks,      \* process slots; 1 is initproc
  NFRAMES,    \* pages of physical memory
  PGSIZE,     \* units of memory in a page
  PTSPAN,     \* pages that a page table maps
  KTABS,      \* page tables of the kernel part
  KERNBASE,   \* the end of user memory
  Segments    \* bound: segments of a program

ASSUME VMAssumption ==
  /\ IsFiniteSet(Tasks) /\ 1 \in Tasks
  /\ PGSIZE \in Nat \ {0} /\ PTSPAN \in Nat \ {0} /\ KTABS \in Nat
  /\ KERNBASE \in Nat /\ PGSIZE < KERNBASE
  /\ NFRAMES \in Nat /\ 4 + KTABS <= NFRAMES
  /\ Segments \in Nat

VARIABLES
  free,       \* how many pages are on kmem.freelist
  pstate, sz, kstack, pgdir,   \* of each process
  op,         \* the call that it is in
  new,        \* the page directory that the call is making
  mem,        \* the page that it has allocated and not mapped yet
  va, lim,    \* the loop of setupkvm(), allocuvm() or copyuvm(): next page, and
              \* the size to reach
  segs,       \* exec: segments left
  child,      \* fork: the slot that it fills
  remapped    \* the kernel has panicked: a page is there twice, or missing

taskvars == <<pstate, sz, kstack, pgdir>>
callvars == <<op, new, mem, va, lim, segs, child>>
vmvars == <<free, taskvars, callvars, remapped>>

NoChild == 0
PGROUNDUP(s) == (s + PGSIZE - 1) \div PGSIZE    \* as a number of pages
PDX(a) == a \div PTSPAN

\* Pages are alike, so what may hold some is the set of its places that do.  Of
\* a page directory: itself and the kernel's page tables, those of the user
\* part, and what these map.
PageAt(a) == <<"page", a>>
TableAt(t) == <<"table", t>>
KvmAt(i) == <<"kvm", i>>
IsPage(x) == x[1] = "page"
NoPages == {}

\* userinit(): initproc with one page, after the allocator's kinit1, kinit2.
InitPgdir == ({"kvm"} \X (0..KTABS)) \cup {TableAt(0), PageAt(0)}
userinit ==
  /\ free = NFRAMES - (4 + KTABS)
  /\ pstate = [p \in Tasks |-> IF p = 1 THEN "RUN" ELSE "UNUSED"]
  /\ sz = [p \in Tasks |-> IF p = 1 THEN PGSIZE ELSE 0]
  /\ kstack = [p \in Tasks |-> IF p = 1 THEN {"stack"} ELSE NoPages]
  /\ pgdir = [p \in Tasks |-> IF p = 1 THEN InitPgdir ELSE NoPages]
  /\ op = [p \in Tasks |-> "user"]
  /\ new = [p \in Tasks |-> NoPages]
  /\ mem = [p \in Tasks |-> NoPages]
  /\ va = [p \in Tasks |-> 0] /\ lim = va /\ segs = va
  /\ child = [p \in Tasks |-> NoChild]
  /\ remapped = FALSE
-----------------------------------------------------------------------------
(* kalloc.c                                                                *)

\* The free list after kalloc(), and after what is in some places is freed.
kalloc == free - 1
kfree(places) == free + Cardinality(places)
-----------------------------------------------------------------------------
(* vm.c                                                                    *)

\* deallocuvm(): unmap and free the pages from newsz up to oldsz.
Dropped(d, oldsz, newsz) ==
  {x \in d : IsPage(x) /\ PGROUNDUP(newsz) <= x[2] /\ x[2] * PGSIZE < oldsz}
deallocuvm(d, oldsz, newsz) == d \ Dropped(d, oldsz, newsz)

\* What freevm() frees: the user's pages, the page tables, the directory.
Freed(d) == Dropped(d, KERNBASE, 0) \cup {x \in d : ~IsPage(x)}

\* The process returns from its call.
Return(p) ==
  /\ op' = [op EXCEPT ![p] = "user"]
  /\ new' = [new EXCEPT ![p] = NoPages]
  /\ mem' = [mem EXCEPT ![p] = NoPages]
  /\ va' = [va EXCEPT ![p] = 0]
  /\ lim' = [lim EXCEPT ![p] = 0]
  /\ segs' = [segs EXCEPT ![p] = 0]
  /\ child' = [child EXCEPT ![p] = NoChild]

\* No page is left.  sbrk gives back the pages it has added; fork and exec
\* give back the whole directory (freevm), and fork its slot and kernel stack.
FailSbrk(p) ==
  /\ op[p] = "sbrk"
  /\ free' = kfree(Dropped(pgdir[p], lim[p], sz[p])) + Cardinality(mem[p])
  /\ pgdir' = [pgdir EXCEPT ![p] = deallocuvm(@, lim[p], sz[p])]
  /\ Return(p)
  /\ UNCHANGED <<pstate, sz, kstack>>

FailExec(p) ==
  /\ op[p] \in {"exec kvm", "exec seg", "exec", "exec stack"}
  /\ free' = kfree(Freed(new[p])) + Cardinality(mem[p])
  /\ Return(p)
  /\ UNCHANGED taskvars

FailFork(p) ==
  /\ op[p] \in {"fork kvm", "fork"}
  /\ free' = kfree(Freed(new[p])) + Cardinality(mem[p])
                                  + Cardinality(kstack[child[p]])
  /\ kstack' = [kstack EXCEPT ![child[p]] = NoPages]
  /\ pstate' = [pstate EXCEPT ![child[p]] = "UNUSED"]
  /\ Return(p)
  /\ UNCHANGED <<sz, pgdir>>

Fail(p) == FailSbrk(p) \/ FailExec(p) \/ FailFork(p)

\* setupkvm(): the directory, then the page tables of the kernel part.
setupkvm(p) ==
  /\ op[p] \in {"fork kvm", "exec kvm"}
  /\ \/ free = 0 /\ Fail(p)
     \/ /\ free > 0
        /\ free' = kalloc
        /\ new' = [new EXCEPT ![p] = @ \cup {KvmAt(va[p])}]
        /\ \/ /\ va[p] < KTABS
              /\ va' = [va EXCEPT ![p] = @ + 1]
              /\ UNCHANGED op
           \/ /\ va[p] = KTABS
              /\ va' = [va EXCEPT ![p] = 0]
              /\ op' = [op EXCEPT ![p] =
                          IF @ = "fork kvm" THEN "fork" ELSE "exec seg"]
        /\ UNCHANGED <<taskvars, mem, lim, segs, child>>
  /\ UNCHANGED remapped

Loops(p) == op[p] \in {"sbrk", "fork", "exec", "exec stack"}
More(p) == va[p] * PGSIZE < lim[p]

\* A page for the next address of the loop.  copyuvm() panics if the parent
\* has none there.
allocpage(p) ==
  /\ Loops(p) /\ More(p) /\ mem[p] = NoPages
  /\ \/ free = 0 /\ Fail(p)
     \/ /\ free > 0
        /\ free' = kalloc
        /\ mem' = [mem EXCEPT ![p] = {"page"}]
        /\ UNCHANGED <<taskvars, op, new, va, lim, segs, child>>
  /\ remapped' = (op[p] = "fork" /\ PageAt(va[p]) \notin pgdir[p])

\* mappages() of it: walkpgdir() may need a page table first.
Mapped(d, a) == d \cup {PageAt(a), TableAt(PDX(a))}
Target(p) == IF op[p] = "sbrk" THEN pgdir[p] ELSE new[p]
NeedsTable(p) == TableAt(PDX(va[p])) \notin Target(p)
mappages(p) ==
  /\ Loops(p) /\ mem[p] # NoPages
  /\ \/ NeedsTable(p) /\ free = 0 /\ Fail(p)
     \/ /\ NeedsTable(p) => free > 0
        /\ free' = IF NeedsTable(p) THEN kalloc ELSE free
        /\ \/ /\ op[p] = "sbrk"
              /\ pgdir' = [pgdir EXCEPT ![p] = Mapped(@, va[p])]
              /\ UNCHANGED new
           \/ /\ op[p] # "sbrk"
              /\ new' = [new EXCEPT ![p] = Mapped(@, va[p])]
              /\ UNCHANGED pgdir
        /\ mem' = [mem EXCEPT ![p] = NoPages]
        /\ va' = [va EXCEPT ![p] = @ + 1]
        /\ UNCHANGED <<pstate, sz, kstack, op, lim, segs, child>>
  /\ remapped' = (PageAt(va[p]) \in Target(p))      \* "remap"
-----------------------------------------------------------------------------
(* proc.c: sbrk, fork, exit, wait.  initproc (init.c) only execs, forks     *)
(* and waits.                                                              *)

User(p) == pstate[p] = "RUN" /\ op[p] = "user"

\* growproc(n), n > 0: allocuvm() from here.
grow(p, n) ==
  /\ User(p) /\ p # 1 /\ sz[p] + n < KERNBASE
  /\ op' = [op EXCEPT ![p] = "sbrk"]
  /\ va' = [va EXCEPT ![p] = PGROUNDUP(sz[p])]
  /\ lim' = [lim EXCEPT ![p] = sz[p] + n]
  /\ UNCHANGED <<free, taskvars, new, mem, segs, child, remapped>>

\* growproc(-n).  If nothing would be left deallocuvm() returns 0, which is
\* taken for an error: the pages are gone, the size is as before, and the
\* process faults at its next instruction.  If n is larger than the size the
\* new size wraps around, and nothing happens.
shrink(p, n) ==
  /\ User(p) /\ p # 1 /\ n <= sz[p]
  /\ free' = kfree(Dropped(pgdir[p], sz[p], sz[p] - n))
  /\ pgdir' = [pgdir EXCEPT ![p] = deallocuvm(@, sz[p], sz[p] - n)]
  /\ \/ n < sz[p]
        /\ sz' = [sz EXCEPT ![p] = @ - n] /\ UNCHANGED pstate
     \/ n = sz[p]
        /\ pstate' = [pstate EXCEPT ![p] = "FAULT"] /\ UNCHANGED sz
  /\ UNCHANGED <<kstack, callvars, remapped>>

grown(p) ==
  /\ op[p] = "sbrk" /\ ~More(p)
  /\ sz' = [sz EXCEPT ![p] = lim[p]]
  /\ Return(p)
  /\ UNCHANGED <<free, pstate, kstack, pgdir, remapped>>

\* fork(): allocproc() takes a slot, and a page for the kernel stack.
fork_vm(p, q) ==
  /\ User(p) /\ pstate[q] = "UNUSED" /\ free > 0
  /\ free' = kalloc
  /\ kstack' = [kstack EXCEPT ![q] = {"stack"}]
  /\ pstate' = [pstate EXCEPT ![q] = "EMBRYO"]
  /\ op' = [op EXCEPT ![p] = "fork kvm"]
  /\ lim' = [lim EXCEPT ![p] = sz[p]]
  /\ child' = [child EXCEPT ![p] = q]
  /\ UNCHANGED <<sz, pgdir, new, mem, va, segs, remapped>>

\* copyuvm() has copied every page.
forked(p) ==
  /\ op[p] = "fork" /\ ~More(p)
  /\ pgdir' = [pgdir EXCEPT ![child[p]] = new[p]]
  /\ sz' = [sz EXCEPT ![child[p]] = sz[p]]
  /\ pstate' = [pstate EXCEPT ![child[p]] = "RUN"]
  /\ Return(p)
  /\ UNCHANGED <<free, kstack, remapped>>

exit_vm(p) ==
  /\ User(p) \/ pstate[p] = "FAULT"
  /\ p # 1
  /\ pstate' = [pstate EXCEPT ![p] = "ZOMBIE"]
  /\ UNCHANGED <<free, sz, kstack, pgdir, callvars, remapped>>

\* wait(), by the parent or initproc: the stack, then freevm().  The size stays
\* on record until the slot's next fork.
wait_vm(q) ==
  /\ pstate[q] = "ZOMBIE"
  /\ free' = kfree(Freed(pgdir[q])) + Cardinality(kstack[q])
  /\ kstack' = [kstack EXCEPT ![q] = NoPages]
  /\ pgdir' = [pgdir EXCEPT ![q] = NoPages]
  /\ pstate' = [pstate EXCEPT ![q] = "UNUSED"]
  /\ UNCHANGED <<sz, callvars, remapped>>
-----------------------------------------------------------------------------
(* exec.c; lim is the new image's size.                                    *)

\* The header is good.
exec_vm(p) ==
  /\ User(p)
  /\ op' = [op EXCEPT ![p] = "exec kvm"]
  /\ segs' = [segs EXCEPT ![p] = Segments]
  /\ UNCHANGED <<free, taskvars, new, mem, va, lim, child, remapped>>

\* A segment that ends at e: allocuvm() keeps the size if it is larger.  A
\* header that is wrong, an end beyond user memory or a size of 0 ends the call.
segment(p, e) ==
  /\ op[p] = "exec seg" /\ segs[p] > 0
  /\ \/ Fail(p)
     \/ /\ e < KERNBASE /\ (e > 0 \/ lim[p] > 0)
        /\ op' = [op EXCEPT ![p] = "exec"]
        /\ segs' = [segs EXCEPT ![p] = @ - 1]
        /\ va' = [va EXCEPT ![p] = PGROUNDUP(lim[p])]
        /\ lim' = [lim EXCEPT ![p] = IF e < @ THEN @ ELSE e]
        /\ UNCHANGED <<free, taskvars, new, mem, child>>
  /\ UNCHANGED remapped

\* loaduvm(), which may find that the file is too short.
loaduvm(p) ==
  /\ op[p] = "exec" /\ ~More(p)
  /\ \/ Fail(p)
     \/ op' = [op EXCEPT ![p] = "exec seg"]
        /\ UNCHANGED <<free, taskvars, new, mem, va, lim, segs, child>>
  /\ UNCHANGED remapped

\* Two more pages, at a page boundary.
StackEnd(p) == (PGROUNDUP(lim[p]) + 2) * PGSIZE
stack(p) ==
  /\ op[p] = "exec seg"
  /\ \/ StackEnd(p) >= KERNBASE /\ Fail(p)
     \/ /\ StackEnd(p) < KERNBASE
        /\ op' = [op EXCEPT ![p] = "exec stack"]
        /\ va' = [va EXCEPT ![p] = PGROUNDUP(lim[p])]
        /\ lim' = [lim EXCEPT ![p] = StackEnd(p)]
        /\ UNCHANGED <<free, taskvars, new, mem, segs, child>>
  /\ UNCHANGED remapped

\* Mutant: the old image is not freed.
commit_Keep(p) ==
  /\ op[p] = "exec stack" /\ ~More(p)
  /\ pgdir' = [pgdir EXCEPT ![p] = new[p]]
  /\ sz' = [sz EXCEPT ![p] = lim[p]]
  /\ Return(p)
  /\ UNCHANGED <<free, pstate, kstack, remapped>>

\* The arguments fit in the stack page, and the new image replaces the old one;
\* or copyout() meets the page below it.
commit(p) ==
  /\ op[p] = "exec stack" /\ ~More(p)
  /\ \/ Fail(p)
     \/ /\ pgdir' = [pgdir EXCEPT ![p] = new[p]]
        /\ sz' = [sz EXCEPT ![p] = lim[p]]
        /\ free' = kfree(Freed(pgdir[p]))
        /\ Return(p)
        /\ UNCHANGED <<pstate, kstack>>
  /\ UNCHANGED remapped
-----------------------------------------------------------------------------
Task(p) ==
  \/ setupkvm(p) \/ allocpage(p) \/ mappages(p)
  \/ \E n \in 1..KERNBASE : grow(p, n) \/ shrink(p, n)
  \/ grown(p) \/ forked(p) \/ exit_vm(p) \/ wait_vm(p) \/ exec_vm(p)
  \/ \E q \in Tasks : fork_vm(p, q)
  \/ \E e \in 0..KERNBASE : segment(p, e)
  \/ loaduvm(p) \/ stack(p) \/ commit(p)

VMNext == ~remapped /\ \E p \in Tasks : Task(p)

VMSpec == userinit /\ [][VMNext]_vmvars
-----------------------------------------------------------------------------
(* Properties.                                                             *)

\* The pages that the places of every process hold.
Places(f) == UNION {{p} \X f[p] : p \in Tasks}
Held(f) == Cardinality(Places(f))

\* However the processes' allocations interleave and wherever memory runs out,
\* each page is on the free list once or has one owner: none is lost or freed
\* twice.  A process has exactly the pages of its size, except those
\* that it is adding, and their page tables, so that no call panics.
VMSound ==
  /\ free + Held(kstack) + Held(mem) + Held(pgdir) + Held(new) = NFRAMES
  /\ \A p \in Tasks :
       /\ pstate[p] = "RUN" =>
            \A a \in 0..(PGROUNDUP(sz[p]) - 1) : PageAt(a) \in pgdir[p]
       /\ \A x \in pgdir[p] : IsPage(x) =>
            /\ TableAt(PDX(x[2])) \in pgdir[p]
            /\ \/ x[2] < PGROUNDUP(sz[p])
               \/ op[p] = "sbrk" /\ x[2] < va[p]
  /\ ~remapped
=============================================================================
