------------------------------ MODULE FsCheck -------------------------------
(***************************************************************************)
(* The image that mkfs writes and the checker of images, fsChecker, on     *)
(* every image that is at most MaxDamage wrong words away from one that    *)
(* mkfs, or mkfs and the kernel, would leave.                              *)
(*                                                                         *)
(* An inode has NDIRECT + 1 addresses, the last that of a block of         *)
(* NINDIRECT addresses; a block of a directory has DPB entries.  Blocks    *)
(* 0..BMAP are the boot block, super block, log, inodes and the bit map.   *)
(* A block is described by its entries (dir) and its addresses (ptr): the  *)
(* contents of files are zeroes.                                           *)
(***************************************************************************)
EXTENDS Integers, Sequences, FiniteSets, FiniteSetsExt

CONSTANTS
  NDIRECT, NINDIRECT, DPB, BMAP,
  SIZE,        \* blocks of the image, sb.size
  NINODES,     \* sb.ninodes
  MaxDamage    \* bound: wrong words

VARIABLES
  img,         \* the image
  damage       \* the number of words changed

vars == <<img, damage>>

T_UNALLOC == 0
T_DIR == 1
T_FILE == 2
T_DEV == 3
T_CHECKED == 4
ROOTINO == 1

Inums == 0..(NINODES - 1)
Blocks == 0..(SIZE - 1)
NoDirent == [inum |-> 0, name |-> ""]
Zeros(n) == SubSeq([j \in 1..n |-> 0], 1, n)
Empty == [dir |-> [j \in 1..DPB |-> NoDirent], ptr |-> Zeros(NINDIRECT)]
NoInode == [type |-> T_UNALLOC, nlink |-> 0, addrs |-> Zeros(NDIRECT + 1)]
Min2(a, b) == IF a < b THEN a ELSE b
-----------------------------------------------------------------------------
(* mkfs.c.  s: the image with freeblock, freeinode and the sizes.          *)

\* iappend(): block fbn of inode i, and the block of addresses if it is the
\* first one that is not direct.
addBlock(s, i, fbn) ==
  LET old == s.inode[i].addrs[NDIRECT + 1]
      ind == IF old = 0 THEN s.freeblock ELSE old
      new == IF old = 0 THEN s.freeblock + 1 ELSE s.freeblock
  IN  IF fbn < NDIRECT
      THEN [s EXCEPT !.inode[i].addrs[fbn + 1] = s.freeblock, !.freeblock = @ + 1]
      ELSE [s EXCEPT !.inode[i].addrs[NDIRECT + 1] = ind,
                     !.blk[ind].ptr[fbn - NDIRECT + 1] = new,
                     !.freeblock = new + 1]

blockOf(s, i, fbn) ==
  IF fbn < NDIRECT THEN s.inode[i].addrs[fbn + 1]
  ELSE s.blk[s.inode[i].addrs[NDIRECT + 1]].ptr[fbn - NDIRECT + 1]

\* iappend() of a directory entry.
iappendDirent(s, i, de) ==
  LET off == s.size[i]
      fbn == off \div DPB
      t == IF off % DPB = 0 THEN addBlock(s, i, fbn) ELSE s
  IN  [t EXCEPT !.blk[blockOf(t, i, fbn)].dir[(off % DPB) + 1] = de,
                !.size[i] = off + 1]

\* iappend() of the blocks of a file.
iappendFile(s, i, n) ==
  LET f[m \in 0..n] == IF m = 0 THEN s ELSE addBlock(f[m - 1], i, m - 1)
  IN  f[n]

ialloc(s, type) ==
  [s EXCEPT !.inode[s.freeinode].type = type, !.inode[s.freeinode].nlink = 1,
            !.freeinode = @ + 1]

\* main(): the root, and a file of files[j] blocks for each argument.  The
\* bit map is written last, from freeblock.
mkfs(files) ==
  LET blank == [inode |-> [i \in Inums |-> NoInode],
                blk |-> [b \in Blocks |-> Empty], bits |-> {},
                freeblock |-> BMAP + 1, freeinode |-> 1,
                size |-> [i \in Inums |-> 0]]
      root == iappendDirent(iappendDirent(ialloc(blank, T_DIR), ROOTINO,
                [inum |-> ROOTINO, name |-> "."]), ROOTINO,
                [inum |-> ROOTINO, name |-> ".."])
      f[j \in 0..Len(files)] ==
        IF j = 0 THEN root
        ELSE LET i == f[j - 1].freeinode
             IN  iappendFile(iappendDirent(ialloc(f[j - 1], T_FILE), ROOTINO,
                   [inum |-> i, name |-> <<"a", "b", "c">>[j]]), i, files[j])
      s == f[Len(files)]
  IN  [inode |-> s.inode, blk |-> s.blk, bits |-> 0..(s.freeblock - 1)]

\* An image with a directory: what mkdir("d") leaves in the kernel's bmap(),
\* balloc() and dirlink() after mkfs.
withDir(files) ==
  LET m == mkfs(files)
      i == Len(files) + 2
      b == Max(m.bits) + 1
      e == Len(files) + 3
  IN  [m EXCEPT
         !.inode[i] = [NoInode EXCEPT !.type = T_DIR, !.nlink = 1, !.addrs[1] = b],
         !.inode[ROOTINO].nlink = @ + 1,
         !.blk[m.inode[ROOTINO].addrs[1]].dir[e] = [inum |-> i, name |-> "d"],
         !.blk[b].dir[1] = [inum |-> i, name |-> "."],
         !.blk[b].dir[2] = [inum |-> ROOTINO, name |-> ".."],
         !.bits = @ \cup {b}]
-----------------------------------------------------------------------------
(* fsChecker.c.  Each check is TRUE where the code returns 1.              *)

NonZero(seq) == SelectSeq(seq, LAMBDA a : a # 0)
Direct(m, i) == NonZero(SubSeq(m.inode[i].addrs, 1, NDIRECT))
Indirect(m, i) == m.inode[i].addrs[NDIRECT + 1]
Pointers(m, i) ==
  IF Indirect(m, i) = 0 THEN <<>> ELSE NonZero(m.blk[Indirect(m, i)].ptr)

\* The entries of a directory, free ones included, in the order they are read.
Dirents(m, i) ==
  LET bs == Direct(m, i) \o Pointers(m, i)
  IN  [x \in 1..(DPB * Len(bs)) |->
         m.blk[bs[((x - 1) \div DPB) + 1]].dir[((x - 1) % DPB) + 1]]

\* The inode number under this name: 0 if i is no directory, -1 if the name is
\* not there.  Free entries are looked at like the others.
getInum(m, i, name) ==
  LET es == Dirents(m, i)
      found == {x \in DOMAIN es : es[x].name = name}
  IN  IF m.inode[i].type # T_DIR THEN 0
      ELSE IF found = {} THEN -1 ELSE es[Min(found)].inum

\* An inode 1 that is not allocated passes.
checkBadInode(m) ==
  \A i \in Inums :
    /\ m.inode[i].type \in {T_UNALLOC, T_DIR, T_FILE, T_DEV}
    /\ i = ROOTINO => m.inode[i].type \in {T_UNALLOC, T_DIR}

\* Mutant: the last block is taken to be outside the image.
ValidAddr_Short(a) == a = 0 \/ a \in BMAP..(SIZE - 2)

\* BBLOCK(sb.size, sb), the least address, is the bit map itself.
ValidAddr(a) == a = 0 \/ a \in BMAP..(SIZE - 1)

\* All inodes, free ones too; the indirect block is read once its own address
\* is known to be good.
checkValidAddr(m) ==
  \A i \in Inums :
    /\ \A j \in 1..(NDIRECT + 1) : ValidAddr(m.inode[i].addrs[j])
    /\ \A j \in DOMAIN Pointers(m, i) : ValidAddr(Pointers(m, i)[j])

checkDirFormat(m, name) ==
  \A i \in Inums : m.inode[i].type = T_DIR => getInum(m, i, name) # -1

\* Every entry counts, "." and ".." too: the parent of an entry of i is i.
checkParentDir(m) ==
  \A i \in Inums : m.inode[i].type = T_DIR =>
    \A x \in DOMAIN Dirents(m, i) :
      getInum(m, Dirents(m, i)[x].inum, "..") \in {0, i}

\* addresses[b] as checkBitmap() leaves it.
addresses(m) ==
  LET uses(i) == Direct(m, i) \o Pointers(m, i) \o NonZero(<<Indirect(m, i)>>)
      Used == {i \in Inums : m.inode[i].type # T_UNALLOC}
  IN  [b \in Blocks |->
         Cardinality(UNION {{i} \X {x \in DOMAIN uses(i) : uses(i)[x] = b} :
                              i \in Used})]

\* Mutant: blocks of addresses are not followed.
checkBitmap_Direct(m) ==
  \A i \in Inums : m.inode[i].type # T_UNALLOC =>
    \A x \in DOMAIN Direct(m, i) : Direct(m, i)[x] \in m.bits

\* getBit() of every address in use, but not of the indirect block's own.
checkBitmap(m) ==
  \A i \in Inums : m.inode[i].type # T_UNALLOC =>
    LET as == Direct(m, i) \o Pointers(m, i)
    IN  \A x \in DOMAIN as : as[x] \in m.bits

checkUsedBlock(m) ==
  \A b \in (BMAP + 1)..(SIZE - 1) : b \in m.bits => addresses(m)[b] # 0

checkUsedTimes(m) == \A b \in Blocks : addresses(m)[b] <= 1

\* inodes[i]: how often the first directory names i.  The loop over the
\* inodes that follows uses the index of the loop over the directories, which
\* ends with it.
ins(m) ==
  LET dirs == {i \in Inums : m.inode[i].type = T_DIR}
      es == IF dirs = {} THEN <<>> ELSE Dirents(m, Min(dirs))
  IN  [i \in Inums |-> Cardinality({x \in DOMAIN es :
         i # 0 /\ es[x].inum = i /\ es[x].name \notin {".", ".."}})]

checkInodeRef(m) ==
  (\E i \in Inums : m.inode[i].type = T_DIR) =>
    \A i \in Inums : i >= 2 /\ m.inode[i].type # T_UNALLOC => ins(m)[i] # 0

checkBadLinks(m) ==
  \A i \in Inums : m.inode[i].type = T_FILE => m.inode[i].nlink = ins(m)[i]

checkExtraLink(m) ==
  \A i \in Inums : m.inode[i].type = T_DIR => ins(m)[i] <= 1

\* main().  checekValidDir() is given the counts before they are made and has
\* nothing to complain of.
Passed(m) ==
  /\ checkBadInode(m)
  /\ checkValidAddr(m)
  /\ checkDirFormat(m, ".") /\ checkDirFormat(m, "..")
  /\ checkParentDir(m)
  /\ checkBitmap(m)
  /\ checkUsedBlock(m)
  /\ checkUsedTimes(m)
  /\ checkInodeRef(m)
  /\ checkBadLinks(m)
  /\ checkExtraLink(m)
-----------------------------------------------------------------------------
(* Images.                                                                 *)

Init ==
  /\ img \in {mkfs(<<>>), mkfs(<<0, 1>>), mkfs(<<3>>), mkfs(<<1, 2>>), withDir(<<1>>)}
  /\ damage = 0

\* One word of an inode, of an entry of a directory, of a block of addresses
\* or of the bit map is wrong.  A block of addresses stays out of the direct
\* addresses and of the directories' entries.
Damaged ==
  LET ptrs == {Indirect(img, i) : i \in Inums} \ {0}
      dirs == {b \in Blocks : \E i \in Inums :
                 img.inode[i].type = T_DIR /\ b \in {img.inode[i].addrs[1]} \ {0}}
      any == 0..SIZE
  IN  {[img EXCEPT !.inode[i].type = t] : i \in Inums, t \in 0..4}
      \cup {[img EXCEPT !.inode[i].nlink = n] : i \in Inums, n \in 0..2}
      \cup {[img EXCEPT !.inode[i].addrs[j] = a] :
              i \in Inums, j \in 1..NDIRECT, a \in any \ ptrs}
      \cup {[img EXCEPT !.inode[i].addrs[NDIRECT + 1] = a] :
              i \in Inums, a \in ptrs \cup {0, BMAP - 1, SIZE}}
      \cup {[img EXCEPT !.blk[b].ptr[j] = a] :
              b \in ptrs, j \in 1..NINDIRECT, a \in any \ ptrs}
      \cup {[img EXCEPT !.blk[b].dir[x].inum = i] : b \in dirs, x \in 1..DPB, i \in Inums}
      \cup {[img EXCEPT !.blk[b].dir[x].name = n] :
              b \in dirs, x \in 1..DPB, n \in {"", ".", "..", "a"}}
      \cup {[img EXCEPT !.bits = (@ \ {b}) \cup ({b} \ @)] : b \in Blocks}

corrupt ==
  /\ damage < MaxDamage
  /\ img' \in Damaged \ {img}
  /\ damage' = damage + 1

Next == corrupt

Spec == Init /\ [][Next]_vars
-----------------------------------------------------------------------------
(* Properties.                                                             *)

InUse == {i \in Inums : img.inode[i].type # T_UNALLOC}
Dirs == {i \in Inums : img.inode[i].type = T_DIR}
Places == InUse \X (1..(NDIRECT + 1 + NINDIRECT))
Own == NDIRECT + 1

\* The address at a place: direct ones, the block of addresses' own, the ones
\* in it.
At(p) ==
  IF p[2] <= Own THEN img.inode[p[1]].addrs[p[2]]
  ELSE IF Indirect(img, p[1]) = 0 THEN 0
  ELSE img.blk[Indirect(img, p[1])].ptr[p[2] - Own]

UsedOnce == \A p, q \in Places : p # q => At(p) = 0 \/ At(p) # At(q)
Names(i) ==
  {d \in Dirs \X (1..(DPB * (NDIRECT + NINDIRECT))) :
     /\ d[2] \in DOMAIN Dirents(img, d[1])
     /\ Dirents(img, d[1])[d[2]].name \notin {".", ".."}
     /\ Dirents(img, d[1])[d[2]].inum = i}

Addresses == {0} \cup (BMAP + 1)..(SIZE - 1)

\* What the comments of fsChecker.c ask of an image.
Rules ==
  /\ \A i \in InUse : img.inode[i].type \in {T_DIR, T_FILE, T_DEV}
  /\ ROOTINO \in Dirs /\ 0 \notin InUse
  /\ \A p \in Places : At(p) \in Addresses
  /\ UsedOnce
  /\ {b \in img.bits : b > BMAP} = {At(p) : p \in Places} \ {0}
  /\ \A i \in Dirs :
       /\ getInum(img, i, ".") = i
       /\ i # ROOTINO => \E n \in Names(i) : getInum(img, i, "..") = n[1]
  /\ getInum(img, ROOTINO, "..") = ROOTINO
  /\ \A i \in Inums \ {0, ROOTINO} : i \in InUse <=> Names(i) # {}
  /\ Names(ROOTINO) = {}
  /\ \A i \in Inums : img.inode[i].type = T_FILE => img.inode[i].nlink = Cardinality(Names(i))
  /\ \A i \in Dirs \ {ROOTINO} : Cardinality(Names(i)) = 1

\* The free inodes hold no wrong address.
FreeClean ==
  \A p \in (Inums \ InUse) \X (1..(NDIRECT + 1 + NINDIRECT)) : At(p) \in Addresses

\* The images of mkfs, and of mkdir() after it, obey the rules; fsChecker passes
\* every image without directories but the root that obeys them and whose free
\* inodes hold no wrong address: checkValidAddr() looks at free inodes too,
\* against its comment ("For in-use inodes").
FlatImagesPass ==
  /\ damage = 0 => Rules
  /\ Rules /\ FreeClean /\ Dirs = {ROOTINO} => Passed(img)

\* fsChecker passes every image that obeys the rules.  (It does not: see the
\* run fscheck_dirs.)
ValidImagesPass == Rules => Passed(img)

\* What an image that passes is sure to obey: no address is used twice; the
\* marked blocks are those in use, but for blocks of addresses, which may be
\* unmarked; with a root, every inode in use is named in it, a file as often as
\* its count of links says.
PassedImagesSound ==
  Passed(img) =>
    /\ UsedOnce
    /\ \A b \in img.bits : b > BMAP => \E p \in Places : At(p) = b
    /\ \A p \in Places : p[2] # Own /\ At(p) # 0 => At(p) \in img.bits
    /\ \A p \in Places : At(p) \in {0} \cup BMAP..(SIZE - 1)
    /\ ROOTINO \in Dirs =>
         \A i \in InUse \ {0, ROOTINO} :
           LET n == {x \in Names(i) : x[1] = ROOTINO}
           IN  /\ n # {}
               /\ img.inode[i].type = T_FILE => img.inode[i].nlink = Cardinality(n)
=============================================================================
