-------------------------------- MODULE Log --------------------------------
(***************************************************************************)
(* The redo log of log.c: begin_op, log_write, end_op, commit and          *)
(* recover_from_log, run by several processes, with a crash possible       *)
(* between any two disk writes.                                            *)
(*                                                                         *)
(* A step is what runs under log.lock, or one synchronous bwrite().  The   *)
(* buffer cache is the function "cache": what bread(b) returns.  A block   *)
(* named in the log stays in the cache until it is committed (B_DIRTY pins *)
(* it), so eviction is invisible here.                                     *)
(*                                                                         *)
(* part2/fs.c's writei() calls log_write(bp) and then bwrite(bp), which    *)
(* writes the home location at once; the blocks written that way are       *)
(* WriteThrough.  part1/fs.c has no such bwrite: WriteThrough is empty.    *)
(***************************************************************************)
EXTENDS Integers, Sequences, FiniteSets

CONSTANTS
  Ops,          \* processes that run file-system system calls
  Blocks,       \* home blocks of the disk
  Vals,         \* contents of a block
  InitVal,      \* contents of every block of a fresh disk
  LOGSIZE,      \* param.h: capacity of log.lh.block[]
  MAXOPBLOCKS,  \* param.h: blocks begin_op() reserves for one system call
  NLOG,         \* sb.nlog: blocks of the log area, its header included
  OpBlocks,     \* distinct blocks one system call really writes, at most
  WriteThrough, \* blocks that writei() also writes to their home at once
  NoBlock       \* no buffer held

ASSUME LogAssumption ==
  /\ IsFiniteSet(Ops)
  /\ IsFiniteSet(Blocks)
  /\ InitVal \in Vals
  /\ LOGSIZE \in Nat
  /\ MAXOPBLOCKS \in Nat /\ MAXOPBLOCKS <= LOGSIZE
  /\ NLOG \in Nat
  /\ OpBlocks \in Nat /\ OpBlocks <= MAXOPBLOCKS
  /\ WriteThrough \subseteq Blocks
  /\ NoBlock \notin Blocks

VARIABLES
  disk,         \* home locations
  logdata,      \* the log's data blocks on disk, logdata[i] at log.start + i
  head,         \* the log's header block on disk: <<block numbers>>
  cache,        \* what bread() returns for each home block
  lh,           \* log.lh in memory: <<block numbers>>
  outstanding,  \* log.outstanding
  committing,   \* log.committing
  stage,        \* where commit() or recover_from_log() is
  tail,         \* the index its loop has reached
  panicked,     \* panic() froze the machine
  pc,           \* per process: where it is in its system call
  used,         \* per process: the blocks its system call has written
  buf           \* per process: the buffer it holds across log_write()

vars == <<disk, logdata, head, cache, lh, outstanding, committing, stage,
          tail, panicked, pc, used, buf>>

diskVars == <<disk, logdata, head>>
callVars == <<pc, used, buf>>
commitVars == <<stage, tail>>

\* Places in the log area: lh.n is bounded by LOGSIZE, see LogFits.
Slots == 1..LOGSIZE

Stages == {"none", "write_log", "write_head", "install", "clear", "end",
           "read_head"}
PCs == {"idle", "begin", "sleep", "op", "append", "bwrite", "commit"}

InLog(s) == {s[i] : i \in 1..Len(s)}

\* A process is inside the transaction from begin_op() to end_op().
Open == {p \in Ops : pc[p] \in {"op", "append", "bwrite"}}

\* forkret() runs initlog() before the first process reaches user space, so
\* no system call starts before recover_from_log() is done.
Recovering == ~committing /\ stage # "none"
Running == ~panicked /\ ~Recovering

\* Mutant: the wakeup is forgotten.
Wakeup_Lost(f) == f

\* wakeup(&log): every process asleep in begin_op() tests again.
Wakeup(f) == [p \in Ops |-> IF f[p] = "sleep" THEN "begin" ELSE f[p]]

Init ==
  /\ disk = [b \in Blocks |-> InitVal]
  /\ logdata = [i \in Slots |-> InitVal]
  /\ head = <<>>
  /\ cache = disk
  /\ lh = <<>>
  /\ outstanding = 0
  /\ committing = FALSE
  /\ stage = "read_head"
  /\ tail = 1
  /\ panicked = FALSE
  /\ pc = [p \in Ops |-> "idle"]
  /\ used = [p \in Ops |-> {}]
  /\ buf = [p \in Ops |-> NoBlock]
-----------------------------------------------------------------------------
(* One file-system system call.                                            *)

\* Mutants of begin_op()'s test: a call may start during a commit; the room
\* is not looked at; the room for this very call is forgotten.
MustWait_NotForCommit ==
  Len(lh) + (outstanding + 1) * MAXOPBLOCKS > LOGSIZE
MustWait_NotForRoom == committing
MustWait_OffByOne == committing \/ Len(lh) + outstanding * MAXOPBLOCKS > LOGSIZE

\* The room begin_op() asks for: what is logged and a full reservation for
\* every call in progress, this one included.
MustWait ==
  \/ committing
  \/ Len(lh) + (outstanding + 1) * MAXOPBLOCKS > LOGSIZE

begin_op(p) ==
  /\ Running
  /\ pc[p] \in {"idle", "begin"}
  /\ \/ /\ MustWait
        /\ pc' = [pc EXCEPT ![p] = "sleep"]
        /\ UNCHANGED <<outstanding, used>>
     \/ /\ ~MustWait
        /\ outstanding' = outstanding + 1
        /\ pc' = [pc EXCEPT ![p] = "op"]
        /\ used' = [used EXCEPT ![p] = {}]
  /\ UNCHANGED <<diskVars, cache, lh, committing, commitVars, panicked, buf>>

\* The two panics at the top of log_write().
LogWritePanics ==
  \/ Len(lh) >= LOGSIZE
  \/ Len(lh) >= NLOG - 1
  \/ outstanding < 1

\* The caller changes the buffer it has locked; log_write() tests the room
\* left in the log before it takes log.lock.
log_write(p, b, v) ==
  /\ Running
  /\ pc[p] = "op"
  /\ \A q \in Ops : buf[q] # b
  /\ b \in used[p] \/ Cardinality(used[p]) < OpBlocks
  /\ cache' = [cache EXCEPT ![b] = v]
  /\ panicked' = LogWritePanics
  /\ pc' = [pc EXCEPT ![p] = "append"]
  /\ buf' = [buf EXCEPT ![p] = b]
  /\ used' = [used EXCEPT ![p] = @ \cup {b}]
  /\ UNCHANGED <<diskVars, lh, outstanding, committing, commitVars>>

\* Log absorption: a block is named once per transaction.
Absorb(s, b) == IF b \in InLog(s) THEN s ELSE Append(s, b)

\* The rest of log_write(), under log.lock.  The caller then releases the
\* buffer, unless it is part2's writei().
log_append(p) ==
  /\ Running
  /\ pc[p] = "append"
  /\ lh' = Absorb(lh, buf[p])
  /\ \/ /\ buf[p] \in WriteThrough
        /\ pc' = [pc EXCEPT ![p] = "bwrite"]
        /\ UNCHANGED buf
     \/ /\ pc' = [pc EXCEPT ![p] = "op"]
        /\ buf' = [buf EXCEPT ![p] = NoBlock]
  /\ UNCHANGED <<diskVars, cache, outstanding, committing, commitVars,
                 panicked, used>>

\* writei()'s own bwrite(bp) after log_write(bp), then brelse(bp).
writei_bwrite(p) ==
  /\ Running
  /\ pc[p] = "bwrite"
  /\ disk' = [disk EXCEPT ![buf[p]] = cache[buf[p]]]
  /\ pc' = [pc EXCEPT ![p] = "op"]
  /\ buf' = [buf EXCEPT ![p] = NoBlock]
  /\ UNCHANGED <<logdata, head, cache, lh, outstanding, committing,
                 commitVars, panicked, used>>

\* Mutant: the header is written before the blocks it names.
commit_Header1st == IF lh = <<>> THEN "end" ELSE "write_head"

\* Where commit() starts: an empty transaction writes nothing.
commit == IF lh = <<>> THEN "end" ELSE "write_log"

\* The last call in progress commits; any other only gives room back.
end_op(p) ==
  /\ Running
  /\ pc[p] = "op"
  /\ outstanding' = outstanding - 1
  /\ panicked' = committing
  /\ \/ /\ outstanding = 1
        /\ committing' = TRUE
        /\ stage' = commit
        /\ tail' = 1
        /\ pc' = [pc EXCEPT ![p] = "commit"]
     \/ /\ outstanding # 1
        /\ pc' = Wakeup([pc EXCEPT ![p] = "idle"])
        /\ UNCHANGED <<committing, commitVars>>
  /\ UNCHANGED <<diskVars, cache, lh, used, buf>>
-----------------------------------------------------------------------------
(* commit() and recover_from_log(), one disk write at a time.              *)

\* One iteration of write_log(): cache block to log block.
write_log ==
  /\ ~panicked
  /\ stage = "write_log"
  /\ \/ /\ tail <= Len(lh)
        /\ logdata' = [logdata EXCEPT ![tail] = cache[lh[tail]]]
        /\ tail' = tail + 1
        /\ UNCHANGED stage
     \/ /\ tail > Len(lh)
        /\ stage' = "write_head"
        /\ UNCHANGED <<logdata, tail>>
  /\ UNCHANGED <<disk, head, cache, lh, outstanding, committing, panicked,
                 callVars>>

\* write_head() with lh.n > 0: the real commit.
write_head ==
  /\ ~panicked
  /\ stage = "write_head"
  /\ head' = lh
  /\ stage' = "install"
  /\ tail' = 1
  /\ UNCHANGED <<disk, logdata, cache, lh, outstanding, committing, panicked,
                 callVars>>

\* recover_from_log() starts by reading the header into memory.
read_head ==
  /\ ~panicked
  /\ stage = "read_head"
  /\ lh' = head
  /\ stage' = "install"
  /\ tail' = 1
  /\ UNCHANGED <<diskVars, cache, outstanding, committing, panicked, callVars>>

\* One iteration of install_trans(): log block to home block, through the
\* home block's buffer.  After the last one lh.n becomes 0.
install_trans ==
  /\ ~panicked
  /\ stage = "install"
  /\ \/ /\ tail <= Len(lh)
        /\ disk' = [disk EXCEPT ![lh[tail]] = logdata[tail]]
        /\ cache' = [cache EXCEPT ![lh[tail]] = logdata[tail]]
        /\ tail' = tail + 1
        /\ UNCHANGED <<stage, lh>>
     \/ /\ tail > Len(lh)
        /\ lh' = <<>>
        /\ stage' = "clear"
        /\ UNCHANGED <<disk, cache, tail>>
  /\ UNCHANGED <<logdata, head, outstanding, committing, panicked, callVars>>

\* write_head() with lh.n = 0: erase the transaction from the log.
clear_head ==
  /\ ~panicked
  /\ stage = "clear"
  /\ head' = lh
  /\ stage' = IF committing THEN "end" ELSE "none"
  /\ UNCHANGED <<disk, logdata, cache, lh, outstanding, committing, tail,
                 panicked, callVars>>

\* The end of end_op() in the process that committed.
commit_done(p) ==
  /\ ~panicked
  /\ pc[p] = "commit"
  /\ stage = "end"
  /\ committing' = FALSE
  /\ stage' = "none"
  /\ pc' = Wakeup([pc EXCEPT ![p] = "idle"])
  /\ UNCHANGED <<diskVars, cache, lh, outstanding, tail, panicked, used, buf>>

\* Power failure or reset: memory is lost, the disk stays; the next boot
\* runs initlog().
Crash ==
  /\ cache' = disk
  /\ lh' = <<>>
  /\ outstanding' = 0
  /\ committing' = FALSE
  /\ stage' = "read_head"
  /\ tail' = 1
  /\ panicked' = FALSE
  /\ pc' = [p \in Ops |-> "idle"]
  /\ used' = [p \in Ops |-> {}]
  /\ buf' = [p \in Ops |-> NoBlock]
  /\ UNCHANGED diskVars

Call(p) ==
  \/ begin_op(p)
  \/ \E b \in Blocks, v \in Vals : log_write(p, b, v)
  \/ log_append(p)
  \/ writei_bwrite(p)
  \/ end_op(p)
  \/ commit_done(p)

Commit == write_log \/ write_head \/ read_head \/ install_trans \/ clear_head

Next == (\E p \in Ops : Call(p)) \/ Commit \/ Crash

Spec == Init /\ [][Next]_vars

(***************************************************************************)
(* Fairness: the scheduler runs every runnable process, the disk completes *)
(* every request, and a system call makes finitely many log_write() calls  *)
(* before its end_op().                                                    *)
(***************************************************************************)
Fairness ==
  /\ WF_vars(Commit)
  /\ \A p \in Ops :
       /\ WF_vars(log_append(p))
       /\ WF_vars(writei_bwrite(p))
       /\ WF_vars(commit_done(p))
       /\ SF_vars(end_op(p))

FairSpec == Spec /\ Fairness
-----------------------------------------------------------------------------
(* Properties.                                                             *)

\* Every variable keeps to its C type; no more calls are admitted than
\* log.lh.block[] has room for, and positions stay inside the log.
TypeOK ==
  /\ disk \in [Blocks -> Vals]
  /\ logdata \in [Slots -> Vals]
  /\ head \in Seq(Blocks)
  /\ cache \in [Blocks -> Vals]
  /\ lh \in Seq(Blocks)
  /\ outstanding \in Nat /\ outstanding * MAXOPBLOCKS <= LOGSIZE
  /\ committing \in BOOLEAN
  /\ stage \in Stages
  /\ tail \in 1..(LOGSIZE + 1)
  /\ panicked \in BOOLEAN
  /\ pc \in [Ops -> PCs]
  /\ used \in [Ops -> SUBSET Blocks]
  /\ buf \in [Ops -> Blocks \cup {NoBlock}]

\* log.c:12-15, "only commits when there are no FS system calls active":
\* while log.committing is set no call is inside its transaction, and one
\* process is running commit().
CommitAlone ==
  committing => /\ Open = {}
                /\ Cardinality({p \in Ops : pc[p] = "commit"}) = 1

\* The blocks log.lh names, and those that passed log_write()'s test and are
\* about to be named.
Pending == {buf[p] : p \in {q \in Ops : pc[q] = "append"}}
Names == InLog(lh) \cup Pending

\* begin_op()'s reservation covers what the calls it admits then log:
\* every block they name fits in log.lh.block[].
LogFits == Cardinality(Names) <= LOGSIZE

\* No interleaving of admitted calls reaches a panic() of log.c.
NoPanic == ~panicked

\* A process asleep on &log in begin_op() always has somebody to wake it:
\* a commit under way, or a call whose end_op() is still to come.
NoLostWakeup ==
  (\E p \in Ops : pc[p] = "sleep") => committing \/ outstanding > 0

\* Under fair scheduling every process that sleeps in begin_op() is woken.
SleepersWake == \A p \in Ops : pc[p] = "sleep" ~> pc[p] # "sleep"

\* What a reboot at this moment would install: the logged copy of every
\* block the on-disk header names, the home copy of the others.
Recovered ==
  [b \in Blocks |->
     IF b \in InLog(head)
     THEN logdata[CHOOSE i \in 1..Len(head) : head[i] = b]
     ELSE disk[b]]

\* What the next system call reads: the cache, once recovery is over.
Current == IF Recovering THEN Recovered ELSE cache

GC == INSTANCE GroupCommit WITH
        durable <- Recovered, current <- Current, open <- Open

\* The log implements group commit: whatever the interleaving and wherever
\* a crash falls, the file system a reboot finds holds all the updates of
\* every call up to some commit and none of any later call.
GroupCommitted == GC!Spec
-----------------------------------------------------------------------------
(* The inductive invariant behind the properties.                          *)

OneToOne(s) == \A i, j \in 1..Len(s) : s[i] = s[j] => i = j

\* How log.outstanding, log.committing, the stage and the calls fit together.
Control ==
  /\ outstanding = Cardinality(Open)
  /\ stage # "none" => Open = {}
  /\ committing => \E p \in Ops : \A q \in Ops : pc[q] = "commit" <=> q = p
  /\ committing => stage \notin {"none", "read_head"}
  /\ ~committing => /\ stage \in {"none", "read_head", "install", "clear"}
                    /\ \A q \in Ops : pc[q] # "commit"
  /\ Recovering => \A q \in Ops : pc[q] = "idle"
  /\ \A p \in Ops : pc[p] \in {"append", "bwrite"} <=> buf[p] # NoBlock
  /\ stage \in {"clear", "end", "read_head"} => lh = <<>>
  /\ ~committing /\ stage = "none" /\ Open = {} => lh = <<>>
  /\ NoLostWakeup

\* What the calls in progress have used of what begin_op() reserved for them.
Charged == {x \in Ops \X Blocks : x[1] \in Open /\ x[2] \in used[x[1]]}

\* Every block named beyond the reservations is charged to a call.
Space ==
  /\ OneToOne(lh)
  /\ OneToOne(head)
  /\ Cardinality(InLog(head)) <= LOGSIZE
  /\ tail <= Len(lh) + 1 \/ stage \notin {"write_log", "install"}
  /\ \A p \in Ops : pc[p] = "append" => buf[p] \in used[p]
  /\ \A p \in Open : used[p] \subseteq Names
  /\ \A p \in Ops : Cardinality(used[p]) <= OpBlocks
  /\ Cardinality(Names) + outstanding * MAXOPBLOCKS
       <= LOGSIZE + Cardinality(Charged)

\* Where the contents are: a block that no part of the log names is the same
\* in the cache and at home; the others are in the cache until write_log(),
\* in the log from write_head() on, and home as far as install_trans() got.
Data ==
  /\ stage \notin {"install", "clear", "read_head"} => head = <<>>
  /\ stage = "install" => head = lh
  /\ Recovering => cache = disk
  /\ ~Recovering => \A b \in Blocks \ (Names \cup InLog(head)) : cache[b] = disk[b]
  /\ stage = "write_log" =>
       \A i \in 1..Len(lh) : i < tail => logdata[i] = cache[lh[i]]
  /\ stage = "write_head" => \A i \in 1..Len(lh) : logdata[i] = cache[lh[i]]
  /\ committing /\ stage \in {"install", "clear"} =>
       \A i \in 1..Len(head) : logdata[i] = cache[head[i]]
  /\ stage = "install" =>
       \A i \in 1..Len(head) : i < tail => disk[head[i]] = logdata[i]
  /\ stage = "clear" => \A i \in 1..Len(head) : disk[head[i]] = logdata[i]
=============================================================================
