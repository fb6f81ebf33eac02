------------------------------- MODULE Kernel -------------------------------
(***************************************************************************)
(* The system calls on files, directories, pipes and processes, each as a  *)
(* function of the whole kernel state: a call of process p maps k to       *)
(* Ret(k', r), r the value it returns.  A path is a tuple of names, the    *)
(* first "/" if it is absolute; a file is a sequence of units, each a      *)
(* block of data, a directory one of entries <<name, inum>>, inum 0 if     *)
(* free.  Memory is counted in pages.                                      *)
(*                                                                         *)
(* The calls are atomic here, but for write(), which is one step for each  *)
(* transaction or sleep.  What happens between their steps is the subject  *)
(* of the modules Inode, BufCache and Pipe.  A call that panics leaves the *)
(* state before it, as its transaction is not committed.                   *)
(***************************************************************************)
EXTENDS Integers, Sequences, FiniteSets, FiniteSetsExt

CONSTANTS
  NPROC,      \* process slots; a process is known by its slot
  NOFILE,     \* descriptors of a process
  NFILE,      \* open files
  NINODES,    \* inodes on the disk
  NINODE,     \* entries of the inode cache
  NBLOCKS,    \* blocks for files and directories on the disk
  NDIRECT,    \* blocks of a file without an indirect block
  DPB,        \* directory entries in a block
  NPIPE,      \* bound: pipes at a time (in the code one page of memory each)
  MAXFILE,    \* units in the largest file
  CHUNK,      \* units that filewrite() writes in one transaction
  PIPESIZE,   \* units in a full pipe
  MEMORY      \* pages of memory for processes

ASSUME KernelAssumption ==
  /\ NPROC \in Nat \ {0} /\ NINODES \in Nat \ {0} /\ MEMORY \in Nat \ {0}
  /\ NOFILE \in Nat /\ NFILE \in Nat /\ NPIPE \in Nat /\ NINODE \in Nat
  /\ NBLOCKS \in Nat /\ NDIRECT \in Nat /\ MAXFILE \in Nat
  /\ DPB \in Nat /\ DPB > 1 /\ CHUNK \in Nat /\ CHUNK > 1

ROOTINO == 1
Procs == 1..NPROC
Fds == 0..(NOFILE - 1)
Files == 1..NFILE
Inums == 1..NINODES
Pipes == 1..NPIPE
INIT == 0     \* the parent of orphans

Ret(k, r) == [k |-> k, r |-> r]
Fail(k) == Ret(k, -1)
Panic(k, why) == Ret([k EXCEPT !.panic = why], -1)

NoInode == [type |-> "NONE", nlink |-> 0, ref |-> 0, data |-> <<>>]
NoFile == [ref |-> 0, type |-> "FD_NONE", ip |-> 0, off |-> 0,
           readable |-> FALSE, writable |-> FALSE]
NoPipe == [data |-> <<>>, readopen |-> FALSE, writeopen |-> FALSE]
NoProc == [state |-> "UNUSED", parent |-> INIT, killed |-> FALSE, cwd |-> 0,
           sz |-> 0, ofile |-> [fd \in Fds |-> 0]]

\* The least element of S that satisfies P, 0 if there is none.
First(S, P(_)) == IF \E x \in S : P(x) THEN Min({x \in S : P(x)}) ELSE 0

\* A disk that holds the files with these names, and process 1 in its root.
Boot(names) ==
  [inode |-> [i \in Inums |->
     IF i = ROOTINO
     THEN [type |-> "DIR", nlink |-> 1, ref |-> 1,
           data |-> <<<<".", 1>>, <<"..", 1>>>> \o
                    [j \in DOMAIN names |-> <<names[j], j + 1>>]]
     ELSE IF i <= Len(names) + 1
     THEN [type |-> "FILE", nlink |-> 1, ref |-> 0, data |-> <<"!">>]
     ELSE NoInode],
   file |-> [f \in Files |-> NoFile],
   pipe |-> [i \in Pipes |-> NoPipe],
   proc |-> [p \in Procs |->
     IF p = 1 THEN [NoProc EXCEPT !.state = "LIVE", !.cwd = 1, !.sz = 1]
     ELSE NoProc],
   free |-> MEMORY - 1,
   strayed |-> FALSE,  \* history: a name was made in a removed directory
   panic |-> ""]
-----------------------------------------------------------------------------
(* Inodes.                                                                 *)

iget(k, i) == [k EXCEPT !.inode[i].ref = @ + 1]

\* iget() panics if inode i is not in the cache and every entry is in use.
\* held: the inodes that the call has references to.
Cached(k) == {i \in Inums : k.inode[i].ref > 0}
Uncached(k, held, i) ==
  i \notin Cached(k) \cup held /\ Cardinality(Cached(k) \cup held) >= NINODE

\* The last reference to an inode without a name truncates and frees it.
iput(k, i) ==
  IF k.inode[i].ref = 1 /\ k.inode[i].nlink = 0
  THEN [k EXCEPT !.inode[i] = NoInode]
  ELSE [k EXCEPT !.inode[i].ref = @ - 1]

\* Mutant: the last inode is not looked at.
ialloc_Short(k) == First(1..(NINODES - 1), LAMBDA i : k.inode[i].type = "NONE")

\* The inode that ialloc() finds, 0 if it panics.
ialloc(k) == First(Inums, LAMBDA i : k.inode[i].type = "NONE")

\* bmap(): the blocks of n units of data, the indirect block among them.
blocks(n) == IF n > NDIRECT THEN n + 1 ELSE n

\* The blocks of an inode: a directory has DPB entries in one.
blocksOf(k, i) ==
  LET n == Len(k.inode[i].data)
  IN  CASE k.inode[i].type = "DIR" -> blocks((n + DPB - 1) \div DPB)
        [] k.inode[i].type \in {"FILE", "CHECKED"} -> blocks(n)
        [] OTHER -> 0

\* The blocks that balloc() can still find.
freeBlocks(k) ==
  NBLOCKS - Cardinality(UNION {{i} \X (1..blocksOf(k, i)) : i \in Inums})

\* balloc() panics if fewer are free than a transaction needs.
OutOfBlocks(k, need) == freeBlocks(k) \in 0..(need - 1)
-----------------------------------------------------------------------------
(* Directories and paths.                                                  *)

\* strncmp() looks at DIRSIZ = 14 characters.
namecmp(s, t) ==
  LET cut(n) == IF n = "123456789012345" THEN "12345678901234" ELSE n
  IN  cut(s) = cut(t)

\* The entry of a directory with this name, 0 if there is none.
dirlookup(k, d, name) ==
  LET de == k.inode[d].data
  IN  First(DOMAIN de, LAMBDA j : de[j][2] # 0 /\ namecmp(name, de[j][1]))

\* The first free entry, or one more; see Room for what it takes.
dirlink(k, d, name, i) ==
  LET de == k.inode[d].data
      j == First(DOMAIN de, LAMBDA x : de[x][2] = 0)
  IN  IF dirlookup(k, d, name) # 0 THEN Fail(k)
      ELSE IF j = 0
      THEN Ret([k EXCEPT !.inode[d].data = Append(@, <<name, i>>)], 0)
      ELSE Ret([k EXCEPT !.inode[d].data[j] = <<name, i>>], 0)

\* No entry is free, and the directory is as large as a file can be.
FullDir(k, d) ==
  LET de == k.inode[d].data
  IN  Len(de) >= MAXFILE * DPB /\ \A j \in DOMAIN de : de[j][2] # 0

\* The blocks that bmap() adds for one more entry.
growth(k, d) ==
  LET de == k.inode[d].data
  IN  IF \E j \in DOMAIN de : de[j][2] = 0 THEN 0
      ELSE IF Len(de) % DPB # 0 THEN 0
      ELSE IF Len(de) = NDIRECT * DPB THEN 2 ELSE 1

\* dirlink() panics if the directory cannot grow, and balloc() if the disk is
\* full; else the call goes on with next.  new: the blocks it has taken before.
Room(k, d, new, next) ==
  IF FullDir(k, d) /\ ~OutOfBlocks(k, new) THEN Panic(k, "dirlink")
  ELSE IF OutOfBlocks(k, new + growth(k, d)) THEN Panic(k, "balloc: out of blocks")
  ELSE next

IsDir(k, i) == i # 0 /\ k.inode[i].type = "DIR"

\* skipelem(): the elements of a path.
skipelem(path) == IF path # <<>> /\ path[1] = "/" THEN Tail(path) ELSE path

\* The inode that a name leads to from d, 0 if there is none.
follow(k, d, name) ==
  IF ~IsDir(k, d) \/ dirlookup(k, d, name) = 0 THEN 0
  ELSE k.inode[d].data[dirlookup(k, d, name)][2]

\* namex(): the inode after each element of the path, 0 where there is none.
namex(k, p, path) ==
  LET el == skipelem(path)
      start == IF el # path THEN ROOTINO ELSE k.proc[p].cwd
      at[j \in 0..Len(el)] ==
        IF j = 0 THEN start ELSE follow(k, at[j - 1], el[j])
  IN  at

namei(k, p, path) == namex(k, p, path)[Len(skipelem(path))]

nameiparent(k, p, path) ==
  LET n == Len(skipelem(path))
      d == IF n = 0 THEN 0 ELSE namex(k, p, path)[n - 1]
  IN  IF IsDir(k, d) THEN d ELSE 0

LastName(path) == path[Len(path)]

\* ilock() panics if an inode that a path leads to has been freed: the entry
\* ".." of a removed directory does not keep its parent.  n: the elements that
\* are followed.
Dangling(k, p, path, n) ==
  \E j \in 0..n :
    LET i == namex(k, p, path)[j] IN i # 0 /\ k.inode[i].type = "NONE"

\* iget() has no entry for an inode on the way.  The inode before it is held,
\* and what the call had before; the current directory needs no entry.
Crowded(k, p, path, n, held) ==
  LET at == namex(k, p, path)
  IN  \/ skipelem(path) # path /\ Uncached(k, held, ROOTINO)
      \/ \E j \in 1..n : at[j] # 0 /\ Uncached(k, held \cup {at[j - 1]}, at[j])

\* What a walk along the path panics with; else the call goes on with next.  An
\* inode without a type is the last on the way.
Walk(k, p, path, n, held, next) ==
  IF Crowded(k, p, path, n, held) THEN Panic(k, "iget: no inodes")
  ELSE IF Dangling(k, p, path, n) THEN Panic(k, "ilock: no type")
  ELSE next

\* The elements that namei() follows; nameiparent() follows one less.
Elements(path) == Len(skipelem(path))
-----------------------------------------------------------------------------
(* Names.                                                                  *)

\* Mutant: a failed link() leaves the count raised.
sys_link_NoUndo(k, p, old, new) ==
  LET ip == namei(k, p, old)
      dp == nameiparent(k, p, new)
      up == [k EXCEPT !.inode[ip].nlink = @ + 1]
  IN  IF ip = 0 \/ IsDir(k, ip) THEN Fail(k)
      ELSE IF dp = 0 THEN Fail(up) ELSE dirlink(up, dp, LastName(new), ip)

\* The count goes up before the new name is made, and down again if that fails.
linkTo(k, ip, dp, name) ==
  LET up == [k EXCEPT !.inode[ip].nlink = @ + 1]
      bad(kk) == Fail([kk EXCEPT !.inode[ip].nlink = @ - 1])
      end(linked) == IF linked.r < 0 THEN bad(linked.k) ELSE linked
      e == dirlookup(k, dp, name)
      linked == end(dirlink([up EXCEPT !.strayed = @ \/ k.inode[dp].nlink = 0],
                            dp, name, ip))
  IN  IF dp = 0 THEN bad(up)
      ELSE IF e = 0 THEN Room(k, dp, 0, linked)
      ELSE IF Uncached(k, {ip, dp}, k.inode[dp].data[e][2])
      THEN Panic(k, "iget: no inodes") ELSE linked

linkFrom(k, p, ip, new) ==
  IF ip = 0 \/ IsDir(k, ip) THEN Fail(k)
  ELSE Walk(k, p, new, Elements(new) - 1, {ip},
            linkTo(k, ip, nameiparent(k, p, new), LastName(new)))

sys_link(k, p, old, new) ==
  Walk(k, p, old, Elements(old), {}, linkFrom(k, p, namei(k, p, old), new))

\* The entries after "." and "..".
isdirempty(k, d) ==
  \A j \in DOMAIN k.inode[d].data : j > 2 => k.inode[d].data[j][2] = 0

\* Erase entry e of directory dp.
unlinkAt(k, dp, e) ==
  LET ip == k.inode[dp].data[e][2]
      dir == IsDir(k, ip)
      erased == [k EXCEPT !.inode[dp].data[e] = <<"", 0>>,
                          !.inode[dp].nlink = IF dir THEN @ - 1 ELSE @]
  IN  IF e = 0 THEN Fail(k)
      ELSE IF Uncached(k, {dp}, ip) THEN Panic(k, "iget: no inodes")
      ELSE IF k.inode[ip].nlink < 1 THEN Panic(k, "unlink: nlink < 1")
      ELSE IF dir /\ ~isdirempty(k, ip) THEN Fail(k)
      ELSE Ret(iput([iget(erased, ip) EXCEPT !.inode[ip].nlink = @ - 1], ip), 0)

sys_unlink(k, p, path) ==
  LET name == LastName(path)
      from(dp) == IF dp = 0 \/ name \in {".", ".."} THEN Fail(k)
                  ELSE unlinkAt(k, dp, dirlookup(k, dp, name))
  IN  Walk(k, p, path, Elements(path) - 1, {}, from(nameiparent(k, p, path)))

\* A new inode, with its name in dp.  The first entries of a directory take a
\* block.
newInode(k, dp, name, type, new) ==
  LET made == [k EXCEPT !.inode[new] =
                 [type |-> type, nlink |-> 1, ref |-> 1,
                  data |-> IF type = "DIR" THEN <<<<".", new>>, <<"..", dp>>>>
                           ELSE <<>>],
                        !.inode[dp].nlink = IF type = "DIR" THEN @ + 1 ELSE @,
                        !.strayed = @ \/ k.inode[dp].nlink = 0]
      end(linked) == IF linked.r < 0 THEN Panic(k, "create: dirlink")
                     ELSE Ret(linked.k, new)
  IN  IF new = 0 THEN Panic(k, "ialloc: no inodes")
      ELSE IF Uncached(k, {dp}, new) THEN Panic(k, "iget: no inodes")
      ELSE Room(k, dp, IF type = "DIR" THEN 1 ELSE 0,
                end(dirlink(made, dp, name, new)))

\* Returns the inode with a reference to it, or 0.
createIn(k, dp, name, type) ==
  LET e == dirlookup(k, dp, name)
      ip == k.inode[dp].data[e][2]
  IN  IF dp = 0 THEN Ret(k, 0)
      ELSE IF e = 0 THEN newInode(k, dp, name, type, ialloc(k))
      ELSE IF Uncached(k, {dp}, ip) THEN Panic(k, "iget: no inodes")
      ELSE IF k.inode[ip].type = "NONE" THEN Panic(k, "ilock: no type")
      ELSE IF type = "FILE" /\ k.inode[ip].type = "FILE"
      THEN Ret(iget(k, ip), ip) ELSE Ret(k, 0)

create(k, p, path, type) ==
  Walk(k, p, path, Elements(path) - 1, {},
       createIn(k, nameiparent(k, p, path), LastName(path), type))

\* sys_mkdir(), sys_mknod().
sys_mknod(k, p, path, type) ==
  LET end(c) == IF c.r <= 0 THEN Fail(c.k) ELSE Ret(iput(c.k, c.r), 0)
  IN  end(create(k, p, path, type))

sys_chdir(k, p, path) ==
  LET to(ip) ==
        IF ~IsDir(k, ip) THEN Fail(k)
        ELSE Ret([iput(iget(k, ip), k.proc[p].cwd) EXCEPT !.proc[p].cwd = ip], 0)
  IN  Walk(k, p, path, Elements(path), {}, to(namei(k, p, path)))

\* sys_exec() up to the file that it loads; Programs has the new image.
sys_exec(k, p, path) ==
  Walk(k, p, path, Elements(path), {}, IF namei(k, p, path) = 0 THEN Fail(k) ELSE Ret(k, 0))
-----------------------------------------------------------------------------
(* Open files.                                                             *)

\* argfd(): the open file of a descriptor, 0 if there is none.
argfd(k, p, fd) == IF fd \in Fds THEN k.proc[p].ofile[fd] ELSE 0

filealloc(k) == First(Files, LAMBDA f : k.file[f].ref = 0)

\* The least free descriptor, -1 if there is none.
fdalloc(k, p) ==
  IF \E fd \in Fds : k.proc[p].ofile[fd] = 0
  THEN Min({fd \in Fds : k.proc[p].ofile[fd] = 0}) ELSE -1

filedup(k, f) == [k EXCEPT !.file[f].ref = @ + 1]

\* A pipe with both ends closed is freed.
pipeclose(k, i, writable) ==
  LET pi == [k.pipe[i] EXCEPT !.writeopen = @ /\ ~writable,
                              !.readopen = @ /\ writable]
  IN  [k EXCEPT !.pipe[i] = IF pi.readopen \/ pi.writeopen THEN pi ELSE NoPipe]

fileclose(k, f) ==
  LET ff == k.file[f]
      closed == [k EXCEPT !.file[f] = NoFile]
  IN  IF ff.ref < 1 THEN [k EXCEPT !.panic = "fileclose"]
      ELSE IF ff.ref > 1 THEN [k EXCEPT !.file[f].ref = @ - 1]
      ELSE IF ff.type = "FD_PIPE" THEN pipeclose(closed, ff.ip, ff.writable)
      ELSE IF ff.type = "FD_INODE" THEN iput(closed, ff.ip)
      ELSE closed

sys_close(k, p, fd) ==
  IF argfd(k, p, fd) = 0 THEN Fail(k)
  ELSE Ret(fileclose([k EXCEPT !.proc[p].ofile[fd] = 0], argfd(k, p, fd)), 0)

sys_dup(k, p, fd) ==
  LET f == argfd(k, p, fd)
      new == fdalloc(k, p)
  IN  IF f = 0 \/ new < 0 THEN Fail(k)
      ELSE Ret([filedup(k, f) EXCEPT !.proc[p].ofile[new] = f], new)

\* The inode that open() finds, with a reference to it, or 0.
openFound(k, ip, flags) ==
  IF ip = 0 \/ (IsDir(k, ip) /\ flags # {}) THEN Ret(k, 0) ELSE Ret(iget(k, ip), ip)

\* An open file and a descriptor for an inode.
openInode(k, p, ip, flags) ==
  LET f == filealloc(k)
      fd == fdalloc(k, p)
      open == [ref |-> 1, type |-> "FD_INODE", ip |-> ip, off |-> 0,
               readable |-> "O_WRONLY" \notin flags,
               writable |-> flags \cap {"O_WRONLY", "O_RDWR"} # {}]
  IN  IF ip <= 0 THEN Fail(k)
      ELSE IF f = 0 \/ fd < 0 THEN Fail(iput(k, ip))
      ELSE Ret([k EXCEPT !.file[f] = open, !.proc[p].ofile[fd] = f], fd)

\* flags: a subset of O_WRONLY, O_RDWR, O_CREATE, O_CHECKED.
sys_open(k, p, path, flags) ==
  LET end(got) == openInode(got.k, p, got.r, flags)
  IN  IF "O_CREATE" \in flags
      THEN end(create(k, p, path,
                      IF "O_CHECKED" \in flags THEN "CHECKED" ELSE "FILE"))
      ELSE Walk(k, p, path, Elements(path), {},
                end(openFound(k, namei(k, p, path), flags)))

\* The descriptors are <<r % NOFILE, r \div NOFILE>> of the returned value r.
sys_pipe(k, p) ==
  LET i == First(Pipes, LAMBDA x : k.pipe[x] = NoPipe)
      rf == filealloc(k)
      end(w) == [ref |-> 1, type |-> "FD_PIPE", ip |-> i, off |-> 0,
                 readable |-> ~w, writable |-> w]
      k1 == [k EXCEPT !.file[rf] = end(FALSE)]
      wf == filealloc(k1)
      fd0 == fdalloc(k, p)
      k2 == [k1 EXCEPT !.file[wf] = end(TRUE), !.proc[p].ofile[fd0] = rf,
                       !.pipe[i] = [NoPipe EXCEPT !.readopen = TRUE,
                                                  !.writeopen = TRUE]]
      fd1 == fdalloc(k2, p)
  IN  IF i = 0 \/ rf = 0 THEN Fail(k)
      ELSE IF wf = 0 \/ fd0 < 0 THEN Fail(k)
      ELSE IF fd1 < 0 THEN Fail(k)
      ELSE Ret([k2 EXCEPT !.proc[p].ofile[fd1] = wf], fd0 + NOFILE * fd1)
-----------------------------------------------------------------------------
(* Reading and writing.  A call that has to sleep returns Asleep.          *)

Asleep == -2

\* The units that read() of n returns.
readi(k, f, n) ==
  LET d == k.inode[k.file[f].ip].data
  IN  SubSeq(d, k.file[f].off + 1, Min({Len(d), k.file[f].off + n}))

\* What a read finds in the file or the pipe.
Readable(k, f, n) ==
  IF k.file[f].type = "FD_PIPE"
  THEN LET d == k.pipe[k.file[f].ip].data IN SubSeq(d, 1, Min({Len(d), n}))
  ELSE IF k.inode[k.file[f].ip].type = "DEV" THEN <<>>
  ELSE readi(k, f, n)

\* Mutant: an empty pipe puts the reader to sleep even if nobody can write.
sys_read_NoEnd(k, p, fd, n) ==
  LET f == argfd(k, p, fd)
      pi == k.pipe[k.file[f].ip]
      got == Len(Readable(k, f, n))
  IN  IF f = 0 THEN Fail(k)
      ELSE IF k.file[f].type = "FD_INODE"
      THEN Ret([k EXCEPT !.file[f].off = @ + got], got)
      ELSE IF pi.data = <<>> THEN Ret(k, Asleep)
      ELSE Ret([k EXCEPT !.pipe[k.file[f].ip].data = SubSeq(@, got + 1, Len(@))],
               got)

\* sys_read(), fileread(), piperead().  A killed reader of an empty pipe
\* gets -1.  Nobody types on the console here: its reader sleeps.
sys_read(k, p, fd, n) ==
  LET f == argfd(k, p, fd)
      pi == k.pipe[k.file[f].ip]
      got == Len(Readable(k, f, n))
      sleep == IF k.proc[p].killed THEN Fail(k) ELSE Ret(k, Asleep)
  IN  IF f = 0 THEN Fail(k)
      ELSE IF ~k.file[f].readable THEN Fail(k)
      ELSE IF k.file[f].type = "FD_INODE" /\ k.inode[k.file[f].ip].type = "DEV"
      THEN sleep
      ELSE IF k.file[f].type = "FD_INODE"
      THEN Ret([k EXCEPT !.file[f].off = @ + got], got)
      ELSE IF pi.data = <<>> /\ pi.writeopen THEN sleep
      ELSE Ret([k EXCEPT !.pipe[k.file[f].ip].data = SubSeq(@, got + 1, Len(@))],
               got)

\* A device takes what is written to it whatever the offset.  A file needs a
\* block for each of the at most CHUNK units past its end, and one for the first
\* indirect block.
writei(k, i, off, s) ==
  LET d == k.inode[i].data
      grown == {j \in 1..CHUNK : j <= Len(s) /\ off + j > Len(d)}
      indirect == IF Len(d) <= NDIRECT /\ off + Len(s) > NDIRECT THEN 1 ELSE 0
  IN  IF k.inode[i].type = "DEV"
      THEN Ret([k EXCEPT !.inode[i].data = d \o s], Len(s))
      ELSE IF off > Len(d) \/ off + Len(s) > MAXFILE THEN Fail(k)
      ELSE IF OutOfBlocks(k, Cardinality(grown) + indirect)
      THEN Panic(k, "balloc: out of blocks")
      ELSE Ret([k EXCEPT !.inode[i].data =
                  SubSeq(d, 1, off) \o s \o SubSeq(d, off + Len(s) + 1, Len(d))],
               Len(s))

\* A round of filewrite()'s loop: what does not fit is given up, and what
\* earlier rounds have written stays.
filewrite(k, f, s, done) ==
  LET n == Min({Len(s), done + CHUNK})
      end(w) == IF w.r < 0 THEN Fail(w.k)
                ELSE Ret([w.k EXCEPT !.file[f].off = @ + w.r],
                         IF n = Len(s) THEN n ELSE Asleep - n)
  IN  IF done >= Len(s) THEN Ret(k, Len(s))
      ELSE end(writei(k, k.file[f].ip, k.file[f].off, SubSeq(s, done + 1, n)))

\* sys_write(), pipewrite().  done: the units of s that earlier rounds have
\* written.  A round that is not the last, as the pipe is full or the rest is
\* for another transaction, returns Asleep - (the units now done).
sys_write(k, p, fd, s, done) ==
  LET f == argfd(k, p, fd)
      ip == k.file[f].ip
      pi == k.pipe[ip]
      n == Min({Len(s), done + PIPESIZE - Len(pi.data)})
      put == [k EXCEPT !.pipe[ip].data = @ \o SubSeq(s, done + 1, n)]
  IN  IF f = 0 THEN Fail(k)
      ELSE IF ~k.file[f].writable THEN Fail(k)
      ELSE IF k.file[f].type = "FD_INODE"
      THEN filewrite(k, f, s, done)
      ELSE IF n = Len(s) THEN Ret(put, n)
      ELSE IF ~pi.readopen \/ k.proc[p].killed THEN Fail(put)
      ELSE Ret(put, Asleep - n)
-----------------------------------------------------------------------------
(* Processes.                                                              *)

\* The child shares the open files and the directory.
fork(k, p) ==
  LET c == First(Procs, LAMBDA q : k.proc[q].state = "UNUSED")
      count(f) == Cardinality({fd \in Fds : k.proc[p].ofile[fd] = f})
      dup == [k EXCEPT !.file = [f \in Files |->
                [k.file[f] EXCEPT !.ref = @ + count(f)]],
                       !.free = @ - k.proc[p].sz]
  IN  IF c = 0 \/ k.free < k.proc[p].sz THEN Fail(k)
      ELSE Ret([iget(dup, k.proc[p].cwd) EXCEPT
                  !.proc[c] = [k.proc[p] EXCEPT !.parent = p, !.killed = FALSE]],
               c)

\* Close every file, leave the directory, give the children to init.
exit(k, p) ==
  LET shut[n \in 0..NOFILE] ==
        IF n = 0 THEN k ELSE sys_close(shut[n - 1], p, n - 1).k
      left == iput(shut[NOFILE], k.proc[p].cwd)
  IN  [left EXCEPT !.proc = [q \in Procs |->
         IF q = p THEN [left.proc[p] EXCEPT !.state = "ZOMBIE", !.cwd = 0]
         ELSE IF left.proc[q].parent = p
         THEN [left.proc[q] EXCEPT !.parent = INIT] ELSE left.proc[q]]]

\* The memory of a zombie comes back with its slot.
reap(k, c) == [k EXCEPT !.proc[c] = NoProc, !.free = @ + k.proc[c].sz]

wait(k, p) ==
  LET kids == {c \in Procs : k.proc[c].state # "UNUSED" /\ k.proc[c].parent = p}
      z == First(kids, LAMBDA c : k.proc[c].state = "ZOMBIE")
  IN  IF z # 0 THEN Ret(reap(k, z), z)
      ELSE IF kids = {} \/ k.proc[p].killed THEN Fail(k) ELSE Ret(k, Asleep)

kill(k, c) ==
  IF c \in Procs /\ k.proc[c].state # "UNUSED"
  THEN Ret([k EXCEPT !.proc[c].killed = TRUE], 0) ELSE Fail(k)

\* Mutant: what was allocated before memory ran out is kept.
sys_sbrk_Keep(k, p, n) ==
  IF n > k.free THEN Fail([k EXCEPT !.proc[p].sz = @ + k.free, !.free = 0])
  ELSE Ret([k EXCEPT !.proc[p].sz = @ + n, !.free = @ - n], k.proc[p].sz)

\* sys_sbrk(), growproc(): the old size; no memory kept when it fails.
sys_sbrk(k, p, n) ==
  IF n > k.free THEN Fail(k)
  ELSE Ret([k EXCEPT !.proc[p].sz = @ + n, !.free = @ - n], k.proc[p].sz)
=============================================================================
