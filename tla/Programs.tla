------------------------------ MODULE Programs ------------------------------
(***************************************************************************)
(* Processes that run programs on the system calls of Kernel.  A program   *)
(* is a sequence of calls, each with the interval its result has to be in; *)
(* where the C program prints a complaint and exits, failed is set.        *)
(***************************************************************************)
EXTENDS Kernel, TLC, SequencesExt

VARIABLES
  test,       \* the name of the program that process 1 was started with
  k,          \* the kernel
  code,       \* what each process has still to do
  reg,        \* its variables
  done,       \* the units of a write that its earlier rounds have written
  seen,       \* what a loop of reads has found
  failed      \* a process has complained

vars == <<test, k, code, reg, done, seen, failed>>

Vars == {"0", "1", "2", "fd", "fd1", "r", "w", "a", "n", "c1", "c2", "c3"}
-----------------------------------------------------------------------------
(* Calls: name, arguments, the variable for the result ("" if none) and    *)
(* the results that are no complaint.                                      *)

Large == 1000
OK == <<0, Large>>
NO == <<-1, -1>>
ANY == <<-1, Large>>
EQ(n) == <<n, n>>

Call(op, a, b, var, want) ==
  [op |-> op, a |-> a, b |-> b, var |-> var, want |-> want]

mkdir(path, w) == Call("mkdir", path, 0, "", w)
chdir(path, w) == Call("chdir", path, 0, "", w)
unlink(path, w) == Call("unlink", path, 0, "", w)
link(old, new, w) == Call("link", old, new, "", w)
open(path, flags, var, w) == Call("open", path, flags, var, w)
close(var) == Call("close", var, 0, "", ANY)
write(var, s, w) == Call("write", var, s, "", w)
pipe == Call("pipe", 0, 0, "", OK)
Fork(child, var, w) == Call("fork", child, 0, var, w)
Wait(w) == Call("wait", "", 0, "", w)
WaitFor(var) == Call("wait", var, 0, "", OK)
Kill(var) == Call("kill", var, 0, "", ANY)
Spin == Call("spin", 0, 0, "", ANY)
\* The result is reg[base] + d.
sbrk(n, var, base, d) == Call("sbrk", n, <<base, d>>, var, OK)
\* One read of up to n units that returns the units s.
read(var, n, s) == Call("read", var, <<n, s>>, "", EQ(Len(s)))
\* Reads of n units until there are none; the units are those of s, in order
\* (loop) or in number (count).
loop(var, n, s) == Call("loop", var, <<n, s>>, "", OK)
count(var, n, s) == Call("count", var, <<n, s>>, "", OK)
\* The same for a directory: each of the names is there once.
names(var, s) == Call("names", var, <<1, s>>, "", OK)
\* fork() until it fails, wait() for as many.
forkall == Call("forkall", 0, 0, "", ANY)
waitall == Call("waitall", 0, 0, "", OK)
\* One of these programs.
AnyOf(alts) == Call("any", alts, 0, "", ANY)
mknod(path) == Call("mknod", path, 0, "", ANY)
dup(var) == Call("dup", var, 0, "", ANY)
\* Go on with alt only if the variable is negative.
Unless(var, alt) == Call("unless", var, alt, "", ANY)
\* Go on with the program prog only if there is a file with its name.
exec(path, prog) == Call("exec", path, prog, "", ANY)
\* Write to 1 what is read, until there is nothing; list: of a directory.
copy(var) == Call("copy", var, <<2>>, "", ANY)
list(var) == Call("list", var, <<1>>, "", ANY)

CR == {"O_CREATE"}
CRW == {"O_CREATE", "O_RDWR"}
Repeat(n, prog) == FlattenSeq([i \in 1..n |-> prog])
For(n, prog(_)) == FlattenSeq([i \in 1..n |-> prog(i - 1)])
Units(n, u) == [i \in 1..n |-> u]
File(c, i) == <<c \o ToString(i)>>
-----------------------------------------------------------------------------
(* The processes.                                                          *)

Start(name, prog, disk) ==
  /\ test = name
  /\ k = Boot(disk)
  /\ code = [p \in Procs |-> IF p = 1 THEN prog ELSE <<>>]
  /\ reg = [p \in Procs |->
              [v \in Vars |-> CASE v = "1" -> 1 [] v = "2" -> 2 [] OTHER -> 0]]
  /\ done = [p \in Procs |-> 0]
  /\ seen = [p \in Procs |-> <<>>]
  /\ failed = FALSE

\* What a read or write by p, about to make it, returns.
Read(p) ==
  LET c == Head(code[p]) IN sys_read(k, p, reg[p][c.a], c.b[1])
Write(p) ==
  LET c == Head(code[p]) IN sys_write(k, p, reg[p][c.a], c.b, done[p])

\* The system call.
Result(p) ==
  LET c == Head(code[p])
      fd == reg[p][c.a]
  IN  CASE c.op = "mkdir"  -> sys_mknod(k, p, c.a, "DIR")
        [] c.op = "mknod"  -> sys_mknod(k, p, c.a, "DEV")
        [] c.op = "dup"    -> sys_dup(k, p, fd)
        [] c.op = "chdir"  -> sys_chdir(k, p, c.a)
        [] c.op = "unlink" -> sys_unlink(k, p, c.a)
        [] c.op = "link"   -> sys_link(k, p, c.a, c.b)
        [] c.op = "open"   -> sys_open(k, p, c.a, c.b)
        [] c.op = "close"  -> sys_close(k, p, fd)
        [] c.op = "write"  -> Write(p)
        [] c.op = "pipe"   -> sys_pipe(k, p)
        [] c.op = "wait"   -> wait(k, p)
        [] c.op = "kill"   -> kill(k, fd)
        [] c.op = "sbrk"   -> sys_sbrk(k, p, c.a)
        [] c.op = "read"   -> Read(p)

\* p sleeps in the call, or waits to be killed.
Sleeps(p) ==
  LET op == Head(code[p]).op
  IN  \/ op = "spin"
      \/ op = "waitall" /\ reg[p]["n"] > 0 /\ wait(k, p).r = Asleep
      \/ op = "wait" /\ wait(k, p).r = Asleep
      \/ op = "write" /\ Write(p).r = Asleep - done[p]
      \/ op \in {"read", "loop", "count", "names", "copy", "list"}
         /\ Read(p).r = Asleep

\* What the compiler asks of the arguments.  Bound: no program gives all of its
\* memory back (see VM for what growproc() does then).
Compiles(p) ==
  LET c == Head(code[p])
  IN  /\ c.op \in {"mkdir", "mknod", "chdir", "unlink", "link", "open", "exec"} =>
           c.a \in Seq(STRING)
      /\ c.op = "link" => c.b \in Seq(STRING)
      /\ c.op = "sbrk" => c.a \in Int /\ k.proc[p].sz + c.a > 0

\* p is in filewrite()'s loop, which does not look at p->killed.
InLoop(p) ==
  done[p] > 0 /\ k.file[argfd(k, p, reg[p][Head(code[p]).a])].type = "FD_INODE"

Runs(p) ==
  /\ k.panic = ""
  /\ k.proc[p].state = "LIVE" /\ (k.proc[p].killed => InLoop(p))
  /\ code[p] # <<>>
  /\ Compiles(p)
  /\ ~Sleeps(p)

\* p is about to make a call with one of these names.
At(p, ops) == Runs(p) /\ Head(code[p]).op \in ops

\* A child is through, or a trap finds p->killed set.
Ends(p) ==
  /\ k.panic = ""
  /\ k.proc[p].state = "LIVE"
  /\ (p # 1 /\ code[p] = <<>>) \/ (k.proc[p].killed /\ ~InLoop(p))

Return(p, kk, rest, regs, complaint) ==
  /\ k' = kk
  /\ code' = [code EXCEPT ![p] = rest]
  /\ reg' = [reg EXCEPT ![p] = regs]
  /\ failed' = (failed \/ complaint)

Set(p, var, r) == IF var = "" THEN reg[p] ELSE [reg[p] EXCEPT ![var] = r]

\* The results that the test accepts beside its interval.
Expected(p, r) ==
  LET c == Head(code[p])
  IN  /\ r \in c.want[1]..c.want[2]
      /\ c.op = "wait" /\ c.a # "" => r = reg[p][c.a]
      /\ c.op = "sbrk" /\ c.b[1] # "" => r = reg[p][c.b[1]] + c.b[2]
      /\ c.op = "read" =>
           Readable(k, argfd(k, p, reg[p][c.a]), c.b[1]) = c.b[2]

\* A call that returns.
call(p) ==
  /\ At(p, {"mkdir", "chdir", "unlink", "link", "open", "close", "write",
            "pipe", "wait", "kill", "sbrk", "read", "mknod", "dup"})
  /\ \E c \in {Head(code[p])}, res \in {Result(p)} :
         /\ res.r > Asleep
         /\ Return(p, res.k, Tail(code[p]),
                   IF c.op = "pipe"
                   THEN [reg[p] EXCEPT
                           !["r"] = IF res.r < 0 THEN -1 ELSE res.r % NOFILE,
                           !["w"] = res.r \div NOFILE]
                   ELSE Set(p, c.var, res.r),
                   res.k.panic = "" /\ ~Expected(p, res.r))
  /\ done' = [done EXCEPT ![p] = 0]
  /\ UNCHANGED <<test, seen>>

\* A round of a write that is not the last: pipewrite() sleeps with part of
\* its data in the pipe, or filewrite() has ended a transaction.
fill(p) ==
  /\ At(p, {"write"})
  /\ Write(p).r < Asleep - done[p]
  /\ k' = Write(p).k
  /\ done' = [done EXCEPT ![p] = Asleep - Write(p).r]
  /\ UNCHANGED <<test, code, reg, seen, failed>>

\* Has the loop of reads seen what it should?
SeenAll(c, s) ==
  CASE c.op = "loop"  -> s = c.b[2]
    [] c.op = "count" -> \A u \in Range(s) \cup Range(c.b[2]) :
         Len(SelectSeq(s, LAMBDA x : x = u)) =
         Len(SelectSeq(c.b[2], LAMBDA x : x = u))
    [] c.op = "names" -> \A i \in DOMAIN c.b[2] :
         Cardinality({j \in DOMAIN s : s[j][2] # 0 /\ s[j][1] = c.b[2][i]}) = 1

\* A round of a loop of reads.
reads(p) ==
  /\ At(p, {"loop", "count", "names"})
  /\ LET c == Head(code[p])
         res == Read(p)
         data == Readable(k, argfd(k, p, reg[p][c.a]), c.b[1])
     IN  /\ \/ /\ res.r > 0
               /\ Return(p, res.k, code[p], reg[p], FALSE)
               /\ seen' = [seen EXCEPT ![p] = @ \o data]
            \/ /\ res.r <= 0
               /\ Return(p, res.k, Tail(code[p]), reg[p],
                         res.r < 0 \/ ~SeenAll(c, seen[p]))
               /\ seen' = [seen EXCEPT ![p] = <<>>]
  /\ UNCHANGED <<test, done>>

\* fork(): once, or as long as it works.
forks(p) ==
  /\ At(p, {"fork", "forkall"})
  /\ LET c == Head(code[p])
         res == fork(k, p)
         all == c.op = "forkall"
         var == IF all THEN "" ELSE c.var
         regs == IF all /\ res.r > 0 THEN [reg[p] EXCEPT !["n"] = @ + 1]
                 ELSE Set(p, var, res.r)
     IN  /\ k' = res.k
         /\ code' = [q \in Procs |->
              IF q = res.r THEN IF all THEN <<>> ELSE c.a
              ELSE IF q = p /\ ~(all /\ res.r > 0) THEN Tail(code[p])
              ELSE code[q]]
         /\ reg' = [q \in Procs |->
              IF q = res.r THEN Set(p, var, 0)
              ELSE IF q = p THEN regs ELSE reg[q]]
         /\ failed' = (failed \/ res.r \notin c.want[1]..c.want[2])
  /\ UNCHANGED <<test, done, seen>>

\* wait() for every child that forkall has made.
waits(p) ==
  /\ At(p, {"waitall"})
  /\ \/ /\ reg[p]["n"] = 0
        /\ Return(p, k, Tail(code[p]), reg[p], FALSE)
     \/ /\ reg[p]["n"] > 0
        /\ Return(p, wait(k, p).k, code[p], [reg[p] EXCEPT !["n"] = @ - 1],
                  wait(k, p).r < 0)
  /\ UNCHANGED <<test, done, seen>>

chooses(p) ==
  /\ At(p, {"any"})
  /\ \E j \in DOMAIN Head(code[p]).a :
       code' = [code EXCEPT ![p] = Head(@).a[j] \o Tail(@)]
  /\ UNCHANGED <<test, k, reg, done, seen, failed>>

\* A round of cat()'s loop or of ls(): what is read is written to 1.
copies(p) ==
  /\ At(p, {"copy", "list"})
  /\ LET c == Head(code[p])
         res == Read(p)
         data == Readable(k, argfd(k, p, reg[p][c.a]), c.b[1])
         out == IF c.op = "copy" THEN data
                ELSE [i \in 1..(IF data[1][2] = 0 THEN 0 ELSE 1) |-> data[i][1]]
         put == IF c.op = "copy"
                THEN << Call("write", "1", out, "n", ANY),
                        Unless("n", <<write("1", <<"write error">>, ANY)>>) >>
                ELSE [i \in DOMAIN out |-> write("1", out, ANY)]
     IN  \/ /\ res.r > 0
            /\ Return(p, res.k, put \o code[p], reg[p], FALSE)
         \/ /\ res.r = 0
            /\ Return(p, res.k, Tail(code[p]), reg[p], FALSE)
         \/ /\ res.r < 0
            /\ Return(p, res.k, <<write("1", <<"read error">>, ANY)>>, reg[p],
                      FALSE)
  /\ UNCHANGED <<test, done, seen>>

\* exec() of a file that is there, or a negative variable.
branches(p) ==
  /\ At(p, {"exec", "unless"})
  /\ LET c == Head(code[p])
         res == IF c.op = "exec" THEN sys_exec(k, p, c.a)
                ELSE Ret(k, IF reg[p][c.a] < 0 THEN 0 ELSE -1)
     IN  /\ k' = res.k
         /\ code' = [code EXCEPT ![p] = IF res.r = 0 THEN c.b ELSE Tail(@)]
  /\ UNCHANGED <<test, reg, done, seen, failed>>

exits(p) ==
  /\ Ends(p)
  /\ k' = exit(k, p)
  /\ code' = [code EXCEPT ![p] = <<>>]
  /\ done' = [done EXCEPT ![p] = 0]
  /\ seen' = [seen EXCEPT ![p] = <<>>]
  /\ UNCHANGED <<test, reg, failed>>

\* init waits for whoever has lost its parent.
reaps(c) ==
  /\ k.panic = ""
  /\ k.proc[c].state = "ZOMBIE" /\ k.proc[c].parent = INIT
  /\ k' = reap(k, c)
  /\ UNCHANGED <<test, code, reg, done, seen, failed>>

Next ==
  \E p \in Procs :
    \/ call(p) \/ fill(p) \/ reads(p) \/ forks(p) \/ waits(p) \/ chooses(p)
    \/ copies(p) \/ branches(p) \/ exits(p) \/ reaps(p)

\* The program prog is started on a disk that holds these files.
Session(name, prog, disk) == Start(name, prog, disk) /\ [][Next]_vars
-----------------------------------------------------------------------------
(* Properties.                                                             *)

Live == {p \in Procs : k.proc[p].state = "LIVE"}

\* The names in directories, but for "." and "..": entry j of directory d.
Names ==
  UNION {{d} \X {j \in 3..Len(k.inode[d].data) : k.inode[d].data[j][2] # 0} :
           d \in {i \in Inums : IsDir(k, i)}}
Target(e) == k.inode[e[1]].data[e[2]][2]
NamesOf(i) == {e \in Names : Target(e) = i}
Subdirs(i) == {e \in Names : e[1] = i /\ IsDir(k, Target(e))}

Open(i, type) == {f \in Files : k.file[f].type = type /\ k.file[f].ip = i}

\* A count of links is the number of names, and for a directory also of the
\* directories in it; the counts of references are those of the descriptors,
\* open files and working directories; an inode with neither name nor
\* reference is free and no name is of a free inode; an end of a pipe is open
\* while a descriptor leads to it; no memory is lost.  Nothing keeps a process
\* from making a name in a directory that has been removed: that name, and the
\* inode under it, outlive the directory, and the property is of the time
\* before.
Consistent ==
  k.strayed \/
  /\ \A i \in Inums : k.inode[i].type # "NONE" =>
       LET n == Cardinality(NamesOf(i))
           root == IF i = ROOTINO THEN 1 ELSE 0
       IN  /\ k.inode[i].nlink = n + Cardinality(Subdirs(i)) + root
           /\ k.inode[i].ref = Cardinality(Open(i, "FD_INODE")) +
                               Cardinality({p \in Live : k.proc[p].cwd = i})
           /\ n + root + k.inode[i].ref > 0
  /\ \A i \in Inums : k.inode[i].type = "NONE" => NamesOf(i) = {}
  /\ \A f \in Files : k.file[f].ref =
       Cardinality({x \in Live \X Fds : k.proc[x[1]].ofile[x[2]] = f})
  /\ \A i \in Pipes :
       /\ k.pipe[i].writeopen = \E f \in Open(i, "FD_PIPE") : k.file[f].writable
       /\ k.pipe[i].readopen = \E f \in Open(i, "FD_PIPE") : k.file[f].readable
  /\ k.free + Cardinality(UNION {{p} \X (1..k.proc[p].sz) : p \in Procs}) = MEMORY

\* Before that, the kernel panics only when something has run out, or when a
\* process in a removed directory follows its "..", and the parent has been
\* removed as well.  ialloc(): every inode is in use.  iget(): the open files and
\* working directories leave no entry beside the two that a call may hold.
\* balloc(): there are not the blocks that one transaction may add.  dirlink(): a
\* directory of the largest size has no free entry.
PanicOnlyOrphaned ==
  k.panic # "" /\ ~k.strayed =>
    \/ k.panic = "ialloc: no inodes" /\ \A i \in Inums : k.inode[i].type # "NONE"
    \/ k.panic = "iget: no inodes" /\ Cardinality(Cached(k)) + 2 >= NINODE
    \/ k.panic = "balloc: out of blocks" /\ freeBlocks(k) <= CHUNK
    \/ k.panic = "dirlink" /\ \E d \in Inums : IsDir(k, d) /\ FullDir(k, d)
    \/ k.panic = "ilock: no type" /\ \E p \in Live : k.inode[k.proc[p].cwd].nlink = 0
=============================================================================
