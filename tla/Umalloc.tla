------------------------------- MODULE Umalloc -------------------------------
(***************************************************************************)
(* malloc() and free() of user programs (umalloc.c).  Memory is counted in *)
(* units of a header; the list's first element, base, lies below the heap. *)
(* A step is a round of one of the two loops over the list.                *)
(***************************************************************************)
EXTENDS Integers

CONSTANTS
  NALLOC,     \* units that morecore() asks for at least (4096)
  MaxUnits,   \* bound: units of memory that sbrk() can give
  MaxRequest  \* bound: units of a block that the program asks for

ASSUME HeapAssumption ==
  NALLOC \in Nat \ {0} /\ MaxUnits \in Nat /\ MaxRequest \in Nat

VARIABLES
  ptr, size,  \* the headers: s.ptr and s.size at each address that has one
  freep,
  brk,        \* the end of the heap
  live,       \* the blocks that the program has
  incall,     \* the loop that runs: "malloc", "free", "morecore" (its free()) or ""
  nunits, prevp, mp,   \* malloc()'s nunits, prevp and p
  bp, fp,     \* free()'s bp and p
  grown       \* history: this malloc() has called morecore()

heapvars == <<ptr, size, freep, brk, live, incall, nunits, prevp, mp, bp, fp, grown>>
headers == <<ptr, size, freep>>

NULL == -1
Base == 0
Heap == 2     \* the program's own data lie between
Addrs == Base..(Heap + MaxUnits)

heapinit ==
  /\ ptr = [a \in Addrs |-> NULL]
  /\ size = [a \in Addrs |-> 0]
  /\ freep = NULL
  /\ brk = Heap
  /\ live = {}
  /\ incall = ""
  /\ nunits = 0 /\ prevp = NULL /\ mp = NULL
  /\ bp = NULL /\ fp = NULL
  /\ grown = FALSE

\* A call returns; its locals are gone.
Returns ==
  /\ incall' = ""
  /\ nunits' = 0 /\ prevp' = NULL /\ mp' = NULL
  /\ bp' = NULL /\ fp' = NULL
  /\ grown' = FALSE
-----------------------------------------------------------------------------
(* free().                                                                 *)

free(b) ==
  /\ incall = "" /\ b \in live
  /\ incall' = "free" /\ bp' = b /\ fp' = freep
  /\ live' = live \ {b}
  /\ UNCHANGED <<headers, brk, nunits, prevp, mp, grown>>

\* b belongs between a and the next: also past the end of the list.
Belongs(a, b) ==
  LET q == ptr[a]
  IN  (a < b /\ b < q) \/ (a >= q /\ (b > a \/ b < q))

\* Mutant: a block is not joined to the one below it.
insert_NoJoin(p, b) ==
  LET q == ptr[p]
      joins == b + size[b] = q
      ptr1 == IF joins THEN [ptr EXCEPT ![b] = ptr[q], ![q] = NULL] ELSE [ptr EXCEPT ![b] = q]
  IN  /\ size' = IF joins THEN [size EXCEPT ![b] = size[b] + size[q], ![q] = 0] ELSE size
      /\ ptr' = [ptr1 EXCEPT ![p] = b]
      /\ freep' = p

\* Put the block b after p, joined to the next one and then to the one before.
insert(p, b) ==
  LET q == ptr[p]
      joins == b + size[b] = q
      size1 == IF joins THEN [size EXCEPT ![b] = size[b] + size[q], ![q] = 0] ELSE size
      ptr1 == IF joins THEN [ptr EXCEPT ![b] = ptr[q], ![q] = NULL] ELSE [ptr EXCEPT ![b] = q]
  IN  /\ IF p + size1[p] = b
         THEN /\ size' = [size1 EXCEPT ![p] = size1[p] + size1[b], ![b] = 0]
              /\ ptr' = [ptr1 EXCEPT ![p] = ptr1[b], ![b] = NULL]
         ELSE size' = size1 /\ ptr' = [ptr1 EXCEPT ![p] = b]
      /\ freep' = p

\* The loop: on to the next, or here.  morecore() returns freep, from which
\* malloc()'s loop goes on.
place ==
  /\ incall \in {"free", "morecore"}
  /\ \/ /\ ~Belongs(fp, bp)
        /\ fp' = ptr[fp]
        /\ UNCHANGED <<headers, incall, nunits, prevp, mp, bp, grown>>
     \/ /\ Belongs(fp, bp)
        /\ insert(fp, bp)
        /\ \/ incall = "free" /\ Returns
           \/ /\ incall = "morecore"
              /\ incall' = "malloc" /\ prevp' = freep' /\ mp' = ptr'[freep']
              /\ grown' = TRUE /\ bp' = NULL /\ fp' = NULL
              /\ UNCHANGED nunits
  /\ UNCHANGED <<brk, live>>
-----------------------------------------------------------------------------
(* malloc().                                                               *)

malloc(n) ==
  /\ incall = ""
  /\ freep' = IF freep = NULL THEN Base ELSE freep
  /\ ptr' = IF freep = NULL THEN [ptr EXCEPT ![Base] = Base] ELSE ptr
  /\ size' = IF freep = NULL THEN [size EXCEPT ![Base] = 0] ELSE size
  /\ incall' = "malloc" /\ nunits' = n /\ prevp' = freep' /\ mp' = ptr'[freep']
  /\ UNCHANGED <<brk, live, bp, fp, grown>>

\* The block mp fits: it is taken off the list, or its tail is cut off.
take ==
  LET rest == size[mp] - nunits
      at == mp + rest
  IN  /\ incall = "malloc" /\ size[mp] >= nunits
      /\ IF rest = 0
         THEN /\ ptr' = [ptr EXCEPT ![prevp] = ptr[mp], ![mp] = NULL]
              /\ UNCHANGED size
         ELSE /\ size' = [size EXCEPT ![mp] = rest, ![at] = nunits]
              /\ UNCHANGED ptr
      /\ freep' = prevp
      /\ live' = live \cup {at}
      /\ Returns
      /\ UNCHANGED brk

\* On to the next block.
onward ==
  /\ incall = "malloc" /\ size[mp] < nunits /\ mp # freep
  /\ prevp' = mp /\ mp' = ptr[mp]
  /\ UNCHANGED <<headers, brk, live, incall, nunits, bp, fp, grown>>

\* All round the list: at least NALLOC units from sbrk(), which go to free().
morecore ==
  LET nu == IF nunits < NALLOC THEN NALLOC ELSE nunits
  IN  /\ incall = "malloc" /\ size[mp] < nunits /\ mp = freep
      /\ \/ /\ brk + nu <= Heap + MaxUnits
            /\ brk' = brk + nu
            /\ size' = [size EXCEPT ![brk] = nu]
            /\ incall' = "morecore" /\ bp' = brk /\ fp' = freep
            /\ UNCHANGED <<nunits, prevp, mp, grown>>
         \/ Returns /\ UNCHANGED <<brk, size>>      \* sbrk() has failed
      /\ UNCHANGED <<ptr, freep, live>>

\* The program calls sbrk() itself.
usersbrk(n) ==
  /\ incall = ""
  /\ brk + n <= Heap + MaxUnits
  /\ brk' = brk + n
  /\ UNCHANGED <<headers, live, incall, nunits, prevp, mp, bp, fp, grown>>

HeapNext ==
  \/ \E n \in 1..MaxRequest : malloc(n)
  \/ take \/ onward \/ morecore
  \/ \E b \in live : free(b)
  \/ place
  \/ usersbrk(1)

HeapSpec == heapinit /\ [][HeapNext]_heapvars
-----------------------------------------------------------------------------
(* Properties.                                                             *)

FreeBlocks == {a \in Addrs : ptr[a] # NULL}

\* The blocks that are not on the list: the program's, and the one that free()
\* looks for the place of.
Held == live \cup (IF incall \in {"free", "morecore"} THEN {bp} ELSE {})

\* Whatever the order of calls, and with memory of the program's own between:
\* no two blocks share a unit, and all lie in the heap; the list is a ring in
\* the order of addresses, freep is on it, and free blocks that touch are
\* joined; free() finds the place before it has gone all round the ring, and
\* malloc() finds a block once it has called morecore().
HeapSound ==
  /\ \A a, b \in FreeBlocks \cup Held : a < b => a + size[a] <= b
  /\ \A a \in FreeBlocks \cup Held :
       a # Base => size[a] > 0 /\ a >= Heap /\ a + size[a] <= brk
  /\ FreeBlocks \cap Held = {} /\ bp \notin live
  /\ \A a \in FreeBlocks :
       /\ ptr[a] \in FreeBlocks
       /\ \A b \in FreeBlocks :
            IF a < ptr[a] THEN b <= a \/ ptr[a] <= b ELSE Base = ptr[a] /\ b <= a
  /\ \A a, b \in FreeBlocks : a # b => a + size[a] # b
  /\ freep \in FreeBlocks \cup {NULL} /\ size[Base] = 0
  /\ incall \in {"free", "morecore"} /\ ptr[fp] = freep => Belongs(fp, bp)
  /\ incall = "malloc" /\ mp = freep /\ grown => size[mp] >= nunits
=============================================================================
