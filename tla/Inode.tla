-------------------------------- MODULE Inode --------------------------------
(***************************************************************************)
(* Inodes (fs.c): on the disk, in the cache with their reference counts    *)
(* and sleep locks, and the blocks they own, used by processes that make,  *)
(* open, extend and remove the files of one directory.                     *)
(*                                                                         *)
(* A step is what happens between two points where another process can see *)
(* or wait for something: a critical section of icache.lock, a change of   *)
(* the bitmap or of an inode on the disk, a sleep lock taken or given back.*)
(***************************************************************************)
EXTENDS FileLayout, FiniteSets, FiniteSetsExt

CONSTANTS
  Callers,      \* processes
  Names,      \* names in the directory
  NINODES,    \* inodes on the disk, beside the directory's
  NINODE,     \* entries of the cache
  NBLOCKS     \* data blocks

VARIABLES
  dinode,     \* the inodes on the disk
  bitmap,     \* the blocks in use
  indirect,   \* what a block holds if it is an indirect block
  icache,     \* the cache
  dir, dlock, \* the directory's entries, and who holds its lock
  ipc, iop,     \* where each process is, and in which call
  name, ip,   \* its name and its cache entry
  panic

ivars == <<dinode, bitmap, indirect, icache, dir, dlock, ipc, iop, name, ip, panic>>
idisk == <<dinode, bitmap, indirect>>

Inums == 1..NINODES
Entries == 1..NINODE
Blocks == 1..NBLOCKS
Nobody == 0

NoAddrs == [i \in 1..(NDIRECT + 1) |-> 0]
NoPtrs == [i \in 1..NINDIRECT |-> 0]
FreeInode == [type |-> 0, nlink |-> 0, addrs |-> NoAddrs]
FreeEntry == [inum |-> 0, ref |-> 0, valid |-> FALSE, lock |-> Nobody,
              d |-> FreeInode]

ASSUME InodeAssumption ==
  /\ IsFiniteSet(Callers) /\ Nobody \notin Callers /\ Names # {}
  /\ NINODES \in Nat /\ NBLOCKS \in Nat
  /\ NINODE \in Nat /\ Cardinality(Callers) <= NINODE

AnyName == CHOOSE n \in Names : TRUE

iinit ==
  /\ dinode = [i \in Inums |-> FreeInode]
  /\ bitmap = {}
  /\ indirect = [b \in Blocks |-> NoPtrs]
  /\ icache = [e \in Entries |-> FreeEntry]
  /\ dir = [n \in Names |-> 0]
  /\ dlock = Nobody
  /\ ipc = [p \in Callers |-> "idle"]
  /\ iop = [p \in Callers |-> ""]
  /\ name = [p \in Callers |-> AnyName]
  /\ ip = [p \in Callers |-> 0]
  /\ panic = ""

Goto(p, l) == ipc' = [ipc EXCEPT ![p] = l]

\* The call and its name are over.
Over(p) == iop' = [iop EXCEPT ![p] = ""] /\ name' = [name EXCEPT ![p] = AnyName]
-----------------------------------------------------------------------------
(* Cache entries.                                                          *)

\* iget(): the entry with the inode, else the first free one, 0 for a panic.
Entry(i) ==
  LET has == {e \in Entries : icache[e].ref > 0 /\ icache[e].inum = i}
      empty == {e \in Entries : icache[e].ref = 0}
  IN  IF has # {} THEN Min(has) ELSE IF empty # {} THEN Min(empty) ELSE 0

iget(p, i) ==
  LET e == Entry(i)
  IN  IF e = 0 THEN panic' = "iget: no inodes" /\ UNCHANGED <<icache, ip>>
      ELSE /\ icache' = [icache EXCEPT ![e] =
                IF icache[e].ref > 0 THEN [icache[e] EXCEPT !.ref = @ + 1]
                ELSE [icache[e] EXCEPT !.inum = i, !.ref = 1, !.valid = FALSE]]
           /\ ip' = [ip EXCEPT ![p] = e]
           /\ UNCHANGED panic

\* A process that forks gives the child its open file.
idup(p, q) ==
  /\ ipc[p] = "open" /\ ipc[q] = "idle"
  /\ icache' = [icache EXCEPT ![ip[p]].ref = @ + 1]
  /\ ip' = [ip EXCEPT ![q] = ip[p]]
  /\ Goto(q, "open")
  /\ UNCHANGED <<idisk, dir, dlock, iop, name, panic>>

\* The lock, and the inode from the disk if it is not in the entry.
ilock(p) ==
  LET e == ip[p]
      d == IF icache[e].valid THEN icache[e].d ELSE dinode[icache[e].inum]
  IN  /\ ipc[p] = "ilock"
      /\ icache[e].lock = Nobody
      /\ icache' = [icache EXCEPT ![e].lock = p, ![e].valid = TRUE, ![e].d = d]
      /\ panic' = IF d.type = 0 THEN "ilock: no type" ELSE panic
      /\ Goto(p, iop[p])
      /\ UNCHANGED <<idisk, dir, dlock, iop, name, ip>>

iunlock(p) ==
  /\ ipc[p] = "use"
  /\ icache' = [icache EXCEPT ![ip[p]].lock = Nobody]
  /\ Goto(p, "open")
  /\ Over(p)
  /\ UNCHANGED <<idisk, dir, dlock, ip, panic>>
-----------------------------------------------------------------------------
(* Calls.                                                                  *)

\* The lock of the directory: nameiparent() and ilock(dp).
namei(p, c, n) ==
  /\ ipc[p] = "idle"
  /\ dlock = Nobody
  /\ dlock' = p
  /\ iop' = [iop EXCEPT ![p] = c]
  /\ name' = [name EXCEPT ![p] = n]
  /\ Goto(p, "lookup")
  /\ UNCHANGED <<idisk, icache, dir, ip, panic>>

\* The name is there: open() and create() take the inode and leave the
\* directory, unlink() stays in it.
found(p) ==
  /\ ipc[p] = "lookup" /\ dir[name[p]] # 0
  /\ iget(p, dir[name[p]])
  /\ iop' = [iop EXCEPT ![p] = IF @ = "unlink" THEN @ ELSE "use"]
  /\ dlock' = IF iop[p] = "unlink" THEN dlock ELSE Nobody
  /\ Goto(p, "ilock")
  /\ UNCHANGED <<idisk, dir, name>>

missing(p) ==
  /\ ipc[p] = "lookup" /\ dir[name[p]] = 0 /\ iop[p] # "create"
  /\ dlock' = Nobody
  /\ Goto(p, "idle")
  /\ Over(p)
  /\ UNCHANGED <<idisk, icache, dir, ip, panic>>

\* ialloc(): the first inode that is free on the disk is marked, then fetched.
ialloc(p) ==
  LET unused == {i \in Inums : dinode[i].type = 0}
      i == Min(unused)
  IN  /\ ipc[p] = "lookup" /\ dir[name[p]] = 0 /\ iop[p] = "create"
      /\ unused # {}
      /\ dinode' = [dinode EXCEPT ![i] = [FreeInode EXCEPT !.type = 1]]
      /\ ip' = [ip EXCEPT ![p] = i]
      /\ Goto(p, "ialloc")
      /\ UNCHANGED <<bitmap, indirect, icache, dir, dlock, iop, name, panic>>

\* ialloc() finds none.
full(p) ==
  /\ ipc[p] = "lookup" /\ dir[name[p]] = 0 /\ iop[p] = "create"
  /\ \A i \in Inums : dinode[i].type # 0
  /\ panic' = "ialloc: no inodes"
  /\ UNCHANGED <<idisk, icache, dir, dlock, ipc, iop, name, ip>>

fetched(p) ==
  /\ ipc[p] = "ialloc"
  /\ iget(p, ip[p])
  /\ Goto(p, "ilock")
  /\ UNCHANGED <<idisk, dir, dlock, iop, name>>

\* iupdate(): the entry as e goes to the disk with it.
iupdate(e, d) ==
  /\ icache' = [icache EXCEPT ![e].d = d]
  /\ dinode' = [dinode EXCEPT ![icache[e].inum] = d]

\* The rest of create(): one link, the name, and out of the directory.
create(p) ==
  /\ ipc[p] = "create"
  /\ iupdate(ip[p], [icache[ip[p]].d EXCEPT !.nlink = 1])
  /\ dir' = [dir EXCEPT ![name[p]] = icache[ip[p]].inum]
  /\ dlock' = Nobody
  /\ Over(p)
  /\ Goto(p, "use")
  /\ UNCHANGED <<bitmap, indirect, ip, panic>>

\* The rest of unlink(): the name, and out of the directory; then the link.
unlink(p) ==
  /\ ipc[p] = "unlink"
  /\ dir' = [dir EXCEPT ![name[p]] = 0]
  /\ dlock' = Nobody
  /\ Goto(p, "unlinked")
  /\ UNCHANGED <<idisk, icache, iop, name, ip, panic>>

unlinked(p) ==
  LET e == ip[p]
      d == [icache[e].d EXCEPT !.nlink = @ - 1]
  IN  /\ ipc[p] = "unlinked"
      /\ icache' = [icache EXCEPT ![e].d = d, ![e].lock = Nobody]
      /\ dinode' = [dinode EXCEPT ![icache[e].inum] = d]
      /\ Goto(p, "put")
      /\ Over(p)
      /\ UNCHANGED <<bitmap, indirect, dir, dlock, ip, panic>>

\* An open file is used again, or closed.
relock(p) ==
  /\ ipc[p] = "open"
  /\ iop' = [iop EXCEPT ![p] = "use"]
  /\ Goto(p, "ilock")
  /\ UNCHANGED <<idisk, icache, dir, dlock, name, ip, panic>>

close(p) ==
  /\ ipc[p] = "open"
  /\ Goto(p, "put")
  /\ UNCHANGED <<idisk, icache, dir, dlock, iop, name, ip, panic>>
-----------------------------------------------------------------------------
(* Blocks.                                                                 *)

\* balloc() zeroes the block it finds.
balloc(b) ==
  /\ b = Min(Blocks \ bitmap)
  /\ bitmap' = bitmap \cup {b}

\* bmap() for the next block of the file: a direct one; the indirect block; one
\* that the indirect block leads to.  iupdate() follows when the file grew.  A
\* file of the largest size has none (writei() returns before bmap()); if no
\* block is free, balloc() panics.
bmap(p) ==
  LET e == ip[p]
      d == icache[e].d
      unset == {i \in 1..NDIRECT : d.addrs[i] = 0}
      ind == d.addrs[NDIRECT + 1]
  IN  /\ ipc[p] = "use"
      /\ \/ /\ Blocks = bitmap
            /\ unset = {} /\ ind # 0 => \E j \in 1..NINDIRECT : indirect[ind][j] = 0
            /\ panic' = "balloc: out of blocks"
            /\ UNCHANGED <<idisk, icache>>
         \/ /\ Blocks # bitmap
            /\ \E b \in Blocks :
                 /\ balloc(b)
                 /\ \/ /\ unset # {}
                       /\ iupdate(e, [d EXCEPT !.addrs[Min(unset)] = b])
                       /\ indirect' = [indirect EXCEPT ![b] = NoPtrs]
                    \/ /\ unset = {} /\ ind = 0
                       /\ iupdate(e, [d EXCEPT !.addrs[NDIRECT + 1] = b])
                       /\ indirect' = [indirect EXCEPT ![b] = NoPtrs]
                    \/ /\ unset = {} /\ ind # 0
                       /\ \E j \in 1..NINDIRECT :
                            /\ indirect[ind][j] = 0
                            /\ \A i \in 1..(j - 1) : indirect[ind][i] # 0
                            /\ indirect' = [indirect EXCEPT ![b] = NoPtrs,
                                                            ![ind][j] = b]
                       /\ UNCHANGED <<icache, dinode>>
            /\ UNCHANGED panic
      /\ UNCHANGED <<dir, dlock, ipc, iop, name, ip>>

Nonzero(f) == {f[i] : i \in DOMAIN f} \ {0}
\* What an inode owns: its blocks, and those of its indirect block.
Owned(d) ==
  LET ind == d.addrs[NDIRECT + 1]
  IN  Nonzero(d.addrs) \cup (IF ind = 0 THEN {} ELSE Nonzero(indirect[ind]))
-----------------------------------------------------------------------------
(* iput().                                                                 *)

\* Mutant: the references of others are not looked at.
iput_NoRef(p) ==
  LET e == ip[p]
      last == icache[e].valid /\ icache[e].d.nlink = 0
  IN  /\ ipc[p] = "put"
      /\ icache[e].lock = Nobody
      /\ icache' = [icache EXCEPT ![e].lock = p]
      /\ Goto(p, IF last THEN "trunc" ELSE "unput")
      /\ UNCHANGED <<idisk, dir, dlock, iop, name, ip, panic>>

\* The lock, and then the count of references under icache.lock.
iput(p) ==
  LET e == ip[p]
      last == icache[e].valid /\ icache[e].d.nlink = 0 /\ icache[e].ref = 1
  IN  /\ ipc[p] = "put"
      /\ icache[e].lock = Nobody
      /\ icache' = [icache EXCEPT ![e].lock = p]
      /\ Goto(p, IF last THEN "trunc" ELSE "unput")
      /\ UNCHANGED <<idisk, dir, dlock, iop, name, ip, panic>>

\* bfree() panics if the block is free.
bfree(b) ==
  /\ bitmap' = bitmap \ {b}
  /\ panic' = IF b \in bitmap THEN panic ELSE "freeing free block"

\* A block at a time is freed.
itrunc(p) ==
  LET e == ip[p]
      own == Owned(icache[e].d)
      ind == icache[e].d.addrs[NDIRECT + 1]
      direct == {i \in 1..NDIRECT : icache[e].d.addrs[i] # 0}
      ptrs == IF ind = 0 THEN {}
              ELSE {j \in 1..NINDIRECT : indirect[ind][j] # 0}
  IN  /\ ipc[p] = "trunc"
      /\ \/ /\ direct # {}
            /\ bfree(icache[e].d.addrs[Min(direct)])
            /\ icache' = [icache EXCEPT ![e].d.addrs[Min(direct)] = 0]
            /\ UNCHANGED <<indirect, dinode, ipc>>
         \/ /\ direct = {} /\ ptrs # {}
            /\ bfree(indirect[ind][Min(ptrs)])
            /\ indirect' = [indirect EXCEPT ![ind][Min(ptrs)] = 0]
            /\ UNCHANGED <<icache, dinode, ipc>>
         \/ /\ direct = {} /\ ptrs = {} /\ ind # 0
            /\ bfree(ind)
            /\ icache' = [icache EXCEPT ![e].d.addrs[NDIRECT + 1] = 0]
            /\ UNCHANGED <<indirect, dinode, ipc>>
         \/ /\ own = {}
            /\ iupdate(e, FreeInode)
            /\ Goto(p, "freed")
            /\ UNCHANGED <<bitmap, indirect, panic>>
      /\ UNCHANGED <<dir, dlock, iop, name, ip>>

\* The inode is free on the disk; the entry, still locked, is made invalid.
invalidate(p) ==
  /\ ipc[p] = "freed"
  /\ icache' = [icache EXCEPT ![ip[p]].valid = FALSE]
  /\ Goto(p, "unput")
  /\ UNCHANGED <<idisk, dir, dlock, iop, name, ip, panic>>

\* The lock goes first, the reference after it.
unput(p) ==
  /\ ipc[p] = "unput"
  /\ icache' = [icache EXCEPT ![ip[p]].lock = Nobody]
  /\ Goto(p, "deref")
  /\ UNCHANGED <<idisk, dir, dlock, iop, name, ip, panic>>

\* What a free entry holds is never looked at again.
deref(p) ==
  /\ ipc[p] = "deref"
  /\ icache' = [icache EXCEPT ![ip[p]] =
                  IF icache[ip[p]].ref = 1 THEN FreeEntry
                  ELSE [icache[ip[p]] EXCEPT !.ref = @ - 1]]
  /\ ip' = [ip EXCEPT ![p] = 0]
  /\ Goto(p, "idle")
  /\ UNCHANGED <<idisk, dir, dlock, iop, name, panic>>

IStep(p) ==
  \/ \E c \in {"create", "open", "unlink"}, n \in Names : namei(p, c, n)
  \/ found(p) \/ missing(p) \/ ialloc(p) \/ full(p) \/ fetched(p) \/ ilock(p)
  \/ create(p) \/ unlink(p) \/ unlinked(p) \/ iunlock(p) \/ relock(p)
  \/ close(p) \/ bmap(p)
  \/ iput(p) \/ itrunc(p) \/ invalidate(p) \/ unput(p) \/ deref(p)
  \/ \E q \in Callers : idup(p, q)

INext == panic = "" /\ \E p \in Callers : IStep(p)

ISpec == iinit /\ [][INext]_ivars
-----------------------------------------------------------------------------
(* Properties.                                                             *)

\* The inode as the holder of its lock sees it, else as it is on the disk.
Current(i) ==
  LET has == {e \in Entries : icache[e].ref > 0 /\ icache[e].inum = i
                               /\ icache[e].valid /\ icache[e].lock # Nobody}
  IN  IF has = {} THEN dinode[i] ELSE icache[Min(has)].d

\* The kernel panics only in ialloc() with every inode in use and in balloc() with
\* every block in a file: not in iget(), as there is an entry for each process,
\* not in ilock() and not in bfree().  An inode has one entry, with as many
\* references as processes refer to it; an entry nobody holds is what is on the disk; a
\* name is of an inode that has a link; no block is owned twice, and those in
\* use are those that are owned, none freed while it is in a file.
InodesSound ==
  /\ panic \in {"", "ialloc: no inodes", "balloc: out of blocks"}
  /\ panic = "ialloc: no inodes" => \A i \in Inums : dinode[i].type # 0
  /\ panic = "balloc: out of blocks" => bitmap = Blocks
  /\ \A e, f \in Entries : e # f /\ icache[e].ref > 0 /\ icache[f].ref > 0 =>
       icache[e].inum # icache[f].inum
  /\ \A e \in Entries :
       /\ icache[e].ref =
            Cardinality({p \in Callers : ip[p] = e /\ ipc[p] # "ialloc"})
       /\ icache[e].ref > 0 /\ icache[e].valid /\ icache[e].lock = Nobody =>
            icache[e].d = dinode[icache[e].inum]
  /\ \A n \in Names : dir[n] # 0 => Current(dir[n]).nlink = 1
  /\ bitmap = UNION {Owned(Current(i)) : i \in Inums}
  /\ \A i, j \in Inums :
       i # j => Owned(Current(i)) \cap Owned(Current(j)) = {}

\* A file without a name is freed with its last reference.  The comment of
\* iput() says so; two processes that drop the last two references at once
\* both find the other's, and the inode with its blocks is lost.
FreedWithLast ==
  \A i \in Inums : dinode[i].type # 0 /\ dinode[i].nlink = 0 =>
    \/ \E e \in Entries : icache[e].ref > 0 /\ icache[e].inum = i
    \/ \E p \in Callers : ipc[p] = "ialloc" /\ ip[p] = i
=============================================================================
