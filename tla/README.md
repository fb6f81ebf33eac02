# TLA+ models of the CS510 xv6 kernels

The repository holds two variants of xv6, a small Unix-like kernel for x86
multiprocessors. `part1` adds a null-page check and shared memory pages;
`part2` adds a two-priority scheduler, an off-line file system checker and
per-block file checksums. Everything else is the same code in both, so it is
modelled once, from `part2`; the shared pages, and functions that `part2`
changed for checksums where the plain ones are meant, are modelled from
`part1`.

The models cover the kernel from the disk driver to the system calls, the user
library, the shell and the test program. `PROJECT.json` maps every definition
to the lines it models and lists runs, findings, hazards and theorems.

## 1. The system

| Component | State | Operations | Hard part | Correct when |
|---|---|---|---|---|
| write-ahead log (`log.c`) | on-disk header and data blocks, `log.lh`, `outstanding`, `committing` | `begin_op`, `log_write`, `end_op`, `commit`, `recover_from_log` | concurrent calls share one transaction; a crash between any two disk writes | a crash leaves all of a group or nothing; the reservation covers the writes; sleepers are woken |
| process life cycle (`proc.c`, `trap.c`) | `ptable.proc`: state, pid, parent, chan, killed, stack, page table | `allocproc`, `fork`, `exit`, `wait`, `sleep`, `wakeup`, `kill`, `yield` | lost wakeups, slot reuse, fork failing half way, kill meeting a sleeper | no exit is missed, nothing leaks, only the named process dies and it does die |
| priority scheduler (`proc.c`) | `pri`, `lop_ticks`, `hip_ticks`, `sched_time`, each CPU's `search_pri` | `scheduler`, `setpri`, the tick | several CPUs scan one table with stale `search_pri`; unsigned clock | one CPU per process, high priority first and never starved, ticks accounted |
| spinlocks (`spinlock.c`) | `locked`, `cpu`, `ncli`, `intena` | `acquire`, `release`, `pushcli`, `popcli` | two locks taken in both orders; interrupts that take locks | every acquire returns; `sched` has one lock |
| shared pages (`part1/vm.c`) | `sm_addr`, `sm_counts`, `p->shared_page`, page tables | `shmem_init`, `shmem_access`, `shmem_count`, parts of `copyuvm`, `exec`, `wait`, `freevm` | counters without a lock; failing `fork`; `exec` | counters exact, page table and record agree, frames never freed |
| file system checker (`linux/fsChecker.c`) | none: an image is read | one function per consistency check | off-by-one in bitmaps and inode tables | accepts exactly the consistent images |
| file checksums (`fs.c`, `T_CHECKED`) | checksum byte in each block address | `bmap`, `readi`, `writei`, `stati`, `itrunc` | addresses with a tag; early returns with a locked buffer | what was written is read back and verified |
| inode cache and allocation (`fs.c`) | `icache`, on-disk inodes, bitmap | `iget`, `ilock`, `iput`, `ialloc`, `iupdate`, `itrunc`, `balloc`, `bfree` | references against links; the last `iput` frees | no inode or block is free and in use |
| buffer cache and disk (`bio.c`, `ide.c`) | LRU list, flags, `refcnt`, `idequeue` | `bget`, `bread`, `bwrite`, `brelse`, `iderw`, `ideintr` | recycling against pinned buffers; interrupt order | one buffer per block; requests complete in order |
| directories (`fs.c`, `sysfile.c`) | directory blocks, `nlink` | `dirlookup`, `dirlink`, `namex`, `link`, `unlink`, `create`, `open` | failure half way; lock order parent-child | link counts equal names |
| file table (`file.c`), pipes (`pipe.c`) | `ref`, offsets; ring, `readopen`, `writeopen` | `filedup`, `fileclose`, `pipewrite`, `piperead`, `pipeclose` | two sleeps that wake each other | bytes arrive once and in order |
| sleep locks (`sleeplock.c`) | `locked`, `pid` | `acquiresleep`, `releasesleep` | used under inode and buffer caches | one holder |
| virtual memory and allocator (`vm.c`, `kalloc.c`, `exec.c`) | page tables, free list | `kalloc`, `kfree`, `allocuvm`, `copyuvm`, `freevm`, `exec` | out of memory half way | a frame has one owner |
| console, keyboard (`console.c`, `kbd.c`) | input ring `r`, `w`, `e`; cursor; flags | `consoleintr`, `consoleread`, `cgaputc`, `kbdgetc` | interrupt against reader; a full ring; escape bytes | finished lines are read once and in order |
| shell (`sh.c`, `init.c`) | the command tree | `parsecmd`, `runcmd`, `main` | forks and descriptors of nested commands | a line does what its command means |
| user library (`umalloc.c`, `ulib.c`, `printf.c`, `string.c`) | the ring of free blocks | `malloc`, `free`, the loops over bytes, formats | joining at the ends of the ring; overlapping ranges; the least int | blocks disjoint; results as documented |
| tests (`usertests.c`, `forktest.c`, `stressfs.c`) | the kernel's | processes that make system calls | their interleavings | no test complains or gets stuck |
| image builder (`mkfs.c`) | the image | `main`, `ialloc`, `iappend`, `balloc` | | the image obeys the checker's rules |
| system call entry, boot | | | | see section 7 |

How the parts meet: a system call of the file system runs between `begin_op`
and `end_op` and changes blocks through the buffer cache, which the log pins.
Everything that waits uses `sleep`/`wakeup` on a channel under `ptable.lock`.
The timer trap takes `tickslock`, then `ptable.lock` through `wakeup`; the
scheduler holds `ptable.lock` and takes `tickslock` through `sys_uptime`.
`fork`, `exec` and `wait` change the shared pages of `part1`.

## 2. Plan

Done, in this order:

1. `GroupCommit`, `Log`: the most important promise of the kernel, with
   refinement and its proof (`LogProofs`).
2. `Proc`, `Sched`, `LockOrder`: the process table seen from three sides;
   `SharedMem`.
3. The storage below the log: `BufCache` with the driver, `Inode`,
   `CheckedFile`; memory: `VM`.
4. The calls above: `Kernel`, and on it `Programs`, `UserTests` and `Shell`;
   `Pipe` and `Console` (against `Terminal`) for what is concurrent inside a
   call; `Keyboard`, `Umalloc`, `Strings`; `FsCheck` for the two tools.
5. Theorems for every size of the components that keep state across calls:
   `ProcProofs`, `SchedProofs` (with the locks), `MemoryProofs` (shared pages and
   all others), `FileProofs` (buffer cache, inodes, checked files, pipes),
   `UserProofs` (console, keyboard, heap) and `KernelProofs` (the system calls
   of any program), on the facts about `%` and least elements in `Arithmetic`.

`Shell`, `UserTests`, `Strings` and `FsCheck` stay with TLC; section 5 says why.

## 3. Modules and code

**`GroupCommit`** is the abstract promise of the log: `durable` (what a reboot
finds), `current` (what calls read) and `open` calls. A commit makes
everything durable in one step and only when no call is open; a crash falls
back to `durable`.

**`Log`** is `log.c`. A step is a critical section of `log.lock` or one
synchronous `bwrite`. `begin_op` admits or sleeps; `log_write` is split where
the code tests the log's room before it takes the lock; `end_op` starts the
commit or wakes sleepers; `write_log`, `write_head`, `install_trans` and
`clear_head` go block by block; `Crash` may come anywhere, also in
`read_head`, `install_trans` and `clear_head` of recovery. `writei_bwrite` is
the extra `bwrite` of `part2`'s `writei`, made for the blocks in the constant
`WriteThrough`. The buffer cache is one value per block, since a block named
in the log is pinned. What a system call writes is abstracted: a call
writes up to `OpBlocks` distinct blocks, any values, in any order.

**`Proc`** is the process table. What happens under `ptable.lock` is one step;
`fork` is four (slot, stack, page table, ready) because the lock is dropped
between them, and each may fail; `exit` is two (flags and files before the
lock, the rest under it). `sys_sleep` and `sleep` are the loop of `sys_sleep`:
test `p->killed` under `tickslock`, which `kill` does not take, then sleep
until the timer trap's `wakeup`. Pipes, whose wakeup no clock guarantees, are
in `Pipe`. `kill` searches slots by pid in any state,
as the code does. Which process runs next is left open.

**`Sched`** is `scheduler()`: a pass chooses `search_pri` once, runs the
eligible slots upward, and raises `search_pri` when a process leaves with a
higher one. `charge` and `stamp` are the tick accounting, modulo `TickMod` as
the C type is unsigned. `spent`, `turn` and `overtaken` are history variables
that only the properties read; `overtaken[p][c]` counts what CPU `c` dispatched
at low priority while `p` was runnable at high priority.

**`LockOrder`** gives each CPU a place in the code between two lock
operations, for every path that takes `ptable.lock` or `tickslock`: the
scheduler, `sys_uptime`, the timer trap, `yield`, `sys_sleep`, `sleep` and the
hand-over in `swtch`. Processes are counted (`Tasks`), not named.

**`SharedMem`** is the shared memory of `part1`. `sm_counts[i]++` is a load
and a store, since the compiled `addl` has no lock prefix; on one CPU
(`SMP = FALSE`) nothing runs between the two. `fork` goes page by page through
`copyuvm`, `wait` page by page through its loop, and `freevm` frees the frames
below its limit. `exec` may be called and allocations may fail at any time;
`strayed` notes that one of them has left a counter wrong, as section 6 tells.

**`BufCache`** is `bio.c` over `sleeplock.c` and either `ide.c` or `memide.c`. A
step is a critical section of `bcache.lock`, of a sleep lock's spinlock or of
`idelock`. Processes read a block, change it, and write it or leave it dirty
for the log; the disk's interrupt completes the head of the queue, and may
report an error.

**`Inode`** is the inode layer of `fs.c` under concurrent create, open, write,
unlink and close in one directory: a step is a critical section of
`icache.lock`, a sleep lock taken or given back, or a change on the disk; `itrunc`
frees a block at a time. `ialloc` without a free inode and `balloc` without a free
block panic, and nothing happens after a panic. The directory's own lock is `dlock`. **`FileLayout`**
has the numbers of direct and indirect blocks, for this module and the next.

**`CheckedFile`** is one file of type `T_CHECKED`: `writei` puts a block's
checksum in the top byte of its address, `readi` compares it, `stati` folds
them, `remove` (`itrunc`) frees blocks by tagged addresses, and `reread` (the last
`iput`) makes the next use read the inode from the disk. `damage` and `reboot` are what
the disk and the operator do. Bytes are signed, as on the build's x86.

**`VM`** is physical memory: each `kalloc` is a step at which memory may be
out, in `fork`, `sbrk`, `exec` (old and new image at once) and the page tables
they need. Pages are alike, so the model has no names for them: `pgdir[p]`,
`new[p]` (the image that `fork` or `exec` is making), `mem[p]` (a page allocated
and not yet mapped) and `kstack[p]` are the sets of places that hold one, and
`free` is the length of the free list. A directory's places are itself and its
kernel tables (`KvmAt`), its user page tables (`TableAt`) and what they map
(`PageAt`). `va` and `lim` are the loop of `setupkvm`, `allocuvm` or `copyuvm`.
Freeing adds what is in the places to `free`, so a page that is freed while a
place still has it, or dropped without being freed, breaks the sum.

**`Kernel`** holds the system calls on files, directories, pipes and processes
as functions of the kernel's state, with every early return. Calls are atomic
here but for `write`, which is a step for each transaction of `filewrite` and for
each stretch of `pipewrite` between two sleeps. `follow` is a round of the loop of
`namex`. A unit of a file's data is a block, a directory has `DPB` entries to a
block, and a transaction of `filewrite` takes `CHUNK` units. The panics of `iget`
(`Uncached`), `ialloc`, `balloc` (`OutOfBlocks`), `dirlink` (`FullDir`) and `ilock` are
here; `Walk` has those on the way along a path, `Room` those of adding a name. A call
that panics leaves the state before it: its transaction is never committed.
`strayed` notes that a name was made in a removed directory.
**`Programs`** runs processes that make those calls in any interleaving, with
blocking reads, writes and waits. `Session` is any one program on any disk;
`Compiles` says what C's declarations ask of arguments, and that `sbrk` never gives
back all memory (what `growproc` does then is in `VM`). **`UserTests`** is `usertests.c` as such
programs, and three that are not in it: `anycalls` (calls in any order), `limits`
(something runs out) and `halfwrite` (a write fails half way); **`Shell`** is the parser of `sh.c` and `runcmd` as a compiler to
them.

**`Pipe`** is `pipe.c` with counters that wrap. A critical section of the lock is
one step for the others on the pipe and two for `kill`, which does not take it:
a process that has tested `p->killed` and goes to sleep dozes first, and a
`kill` then only sets the flag. `late` notes who was killed there, `silent` that
a killed writer left without waking readers.
**`Console`** is the ring of `console.c`, its readers, who doze before they sleep
as those of `Pipe` do, and the cursor;
**`Terminal`** is what it promises: two queues. **`Keyboard`** is `kbdgetc`.

**`Umalloc`** is `malloc` and `free` on a heap with foreign memory between blocks
(`usersbrk`). A step is one round of a loop over the ring: `take` or `onward` in
`malloc`, `place` in `free`, also when `morecore` has called it; `ptr` and `size`
are the headers at their addresses, and an address that has none has `NULL`. **`Strings`** is one call of a function of `string.c`, `ulib.c`,
`printf.c` or `cprintf` in any small memory, with 8-bit integers for 32-bit ones.

**`FsCheck`** is `mkfs`, the checker's tests in the order of its `main`, and the
rules its comments state (`Rules`), over every image at most two words away
from one that `mkfs` and `mkdir` leave.

`MCProc`, `MCSched`, `MCStore` and `MCUser` place instances of several modules
side by side: a behaviour chooses a `part`, and only that part moves. The state
space is the sum of the parts', and each is checked on its own sizes. A property
of an instance is prefixed with its part; those of the modules that `MCSched`,
`MCStore` and `MCUser` extend are taken as they are, the same that the theorems
state. `MCLog` and `MCPrograms` hold values for constants, the lines for the shell and what they mean. Operators whose
comment starts with "Mutant" are wrong variants of the definition that follows;
each property is known to fail when its variant is put in place.

## 4. Runs

| Run | Part | Question | Instance |
|---|---|---|---|
| `log_atomic` | | does `Log` implement `GroupCommit`, crashes included? | 2 calls, 3 blocks, 2 values, a log of 4; calls and blocks symmetric |
| `log_space` | | reservation, panics, solitary commits, lost wakeups, and that sleepers wake | 3 calls of 1 block each, 5 blocks, a log of 4, one write-through block |
| `processes` | kill | kill against waiting and sleeping processes; orphans are reaped, the killed die | 4 slots, 2 CPUs, pids up to 3 |
| | life | fork with failures, exit, wait, slot reuse | 4 slots, 2 CPUs, pids up to 5 |
| `waits` | locks | sched's lock, self-deadlock | 4 processes, 1 CPU |
| | cpu | bounded overtaking, high priority runs | 4 slots, 2 CPUs, accounting left out |
| | pipe | calls end after the last close, and after a kill that is not late; bytes in order | 2 processes, a ring of 2, counters modulo 4, calls of 1 to 3 bytes |
| | disk | requests are served | 2 processes, 2 buffers, 3 blocks, 3 reads |
| `store` | shared | no remap panic, no shared frame freed; counters exact until exec or a failed fork drops a page | 3 slots, 2 pages, 1 CPU |
| | vm | pages owned once, sizes and page tables agree | 3 processes, 15 pages, 2 pages to a table, 2 segments |
| | ticks | tick accounting across turns, setpri, slot reuse and wrap | 2 slots, 2 CPUs, a clock of 2 values |
| | inode | references, links, inodes and blocks agree | 2 processes, 2 names, 2 inodes, 3 blocks |
| | sums | which blocks a read of a checked file accepts | 1 direct and 2 indirect blocks, sums 0, 1 and 130 |
| | cache | one buffer per block, with its latest contents | 2 processes, 3 buffers, 4 blocks, 4 reads, either driver |
| | pipe | no lost wakeup with several sleepers | 3 processes, a ring of 1, calls of 2 |
| `users` | programs | the tests pass and end, the file system stays consistent, lines do what they mean | 28 tests of `usertests.c`, `stressfs`, arbitrary calls, calls that use up each table; shell lines; typed lines of up to 5 tokens |
| | heap | the heap's ring | 8 units, requests up to 4, `NALLOC` 3 |
| | image | which images the checker passes | 7 blocks, 4 inodes, up to 2 wrong words |
| | console | the ring is a terminal, no lost wakeup | a ring of 3, 2 readers, a screen of 2 by 3 |
| | keys | flags follow keys | the modifier keys and one letter, with and without escape |
| | strings | each function of the libraries | 5 bytes of 3 values, formats up to 4 characters |
| `log_write_through` | | `log_atomic` with `writei`'s extra `bwrite`: violated before any commit | one write-through block |
| `locks_smp` | | no two CPUs wait for each other: violated | 2 processes, 2 CPUs |
| `pipe_kill` | | calls end after a kill: violated | 2 processes, a ring of 2, calls of 1 |
| `fscheck_dirs` | | valid images pass: violated | as `image` |
| `inode_leak` | | the last reference frees: violated | as `inode` |
| `buffer_kept` | | buffers are given back: violated | as `sums` |

What the properties say stands before each of them in its module.

Why the bounds are enough to meet the interesting cases:

- *Log.* Two calls and three blocks give overlapping calls in one group, a block
  written by both (absorption), a commit of several blocks and a crash between
  any two of its writes. In `log_space` a third call finds the log full and
  sleeps both for room and for a commit; the fifth block keeps the log filling
  across commits. Sizes keep the real order `MAXOPBLOCKS <= LOGSIZE <= NLOG`.
- *Proc.* Four slots hold init, a parent, a child and a slot to reuse; five
  pids let a slot be reused, and a grandchild can die before its parent, which
  is when `exit` must wake init for a zombie it inherits. `MaxPid` is a bound of
  the model: `fork` is no longer called beyond it. Kills are asked for every pid
  but init's, which would panic (`exit`, "init exiting").
- *Sched.* Two slots and two CPUs meet turns that overlap on both CPUs; a clock
  of two values wraps at once. With four slots a pass can have several
  candidates left. The bound `NPROC - 2` on `overtaken[p][c]` allows CPU `c` the
  rest of a pass that has passed one slot and steps over `p`'s.
- *LockOrder.* All processes behave alike, so a handful meets every place.
- *SharedMem.* Two pages separate "first page" (needs a page table, may fail)
  from later ones. `MaxDrift` bounds how far `exec` may make a counter stray.
- *VM.* Fifteen pages are enough for two processes and run out with a third,
  or with `exec`, which has two images; two pages to a table, two units to a page and four pages of user memory make
  sizes within and at the end of a page, and of a page table.
- *Inode.* Two processes, names and inodes meet a file that is removed while
  open, made again, and dropped by both at once; one direct and two indirect
  blocks with three in all make `balloc` run out, and panic, between two of them.
- *BufCache.* Three buffers for two processes and one pinned block is the least
  that cannot run out, and four blocks make buffers be recycled. `Reads`
  bounds the calls.
- *CheckedFile.* The sum 130 is a negative char, 0 is what an address without a
  tag holds, and the second indirect block is the one that `readi` mistakes.
- *Programs.* Loops of the tests run twice (`N`) with two children, files hold
  six units (`MAXFILE`, four of them direct) and pipes two; two units to a
  transaction make a long write take several, the last of which may fail. Five
  slots, five descriptors, six files, thirteen inodes and thirteen pages are so
  few that the tests which exhaust them do, and enough that the others do not.
  Six entries of the inode cache, twenty blocks and four directory entries to a
  block let `limits` reach each of the panics for want of inodes, cache entries,
  blocks and room in a directory, and `iref`, which goes round once more than
  there are cache entries, would panic if a round kept a reference.
- *Pipe, Console.* Rings of one, two and three with counters modulo twice the size
  wrap within a line or a call; calls longer than the ring sleep half way.
- *FsCheck.* Two wrong words can compensate each other, as a block moved from
  one file to another does.
- *Umalloc, Strings.* Eight units hold three blocks with a gap, and requests above
  and below `NALLOC` make `morecore` take either; five bytes hold
  two ranges in every position to each other.

`waits`, `store`, `users`, `pipe_kill`, `buffer_kept` and `fscheck_dirs` do not check for deadlock: their parts may stop (programs end, reads are bounded, a panic halts
the kernel, a wrong image is only looked at, and a reader of a kept buffer
sleeps). That processes do not get stuck is `NoneStuck`, `CallsEnd` and
`RequestsServed`.

Fairness, where a liveness property is checked:

- `Log`: weak fairness of the commit and recovery steps and of the pieces of
  `log_write` (the disk completes requests and the scheduler runs the
  process), strong fairness of `end_op` (a system call makes finitely many
  writes; `log_write` and `end_op` alternate in being possible). Nothing makes
  a process call `begin_op`.
- `Proc`: strong fairness of `dispatch` (with equal priorities the scan
  reaches every slot), strong fairness of kernel paths once entered (a CPU
  executes something between two ticks), weak fairness of the timer, whose trap
  wakes those in `sys_sleep`, and `init.c`'s loop around `wait`. A process chooses
  freely which call it makes, or none.
- `Sched`: every CPU continues its loop, every process is preempted by its
  CPU's timer, CPU 0's clock ticks.
- `Pipe`: a process in a call that can go on does (the scheduler runs it), and
  a killed process closes its descriptors, as `exit` does. Nothing makes a live
  process read, write or close.
- `BufCache`: the disk interrupts for the request it was given.

## 5. Proofs

All for every value of the constants that satisfies the named assumptions.

**Log** (`LogAssumption`: finitely many processes and blocks,
`MAXOPBLOCKS <= LOGSIZE`, calls write at most `MAXOPBLOCKS` blocks). `LogFits`
is not inductive: it says nothing of the room that open calls still have a
right to. The inductive invariant is `Types /\ Control /\ Space`:

- `Control` ties `log.outstanding` to the number of open calls, the stage of
  the commit to `log.committing` and to the one committing process, and keeps
  a waker for every sleeper;
- `Space` says that the named blocks plus full reservations of all open calls
  exceed `LOGSIZE` at most by what the open calls have been charged. A write
  of a new block adds one to both sides; an `end_op` gives back a reservation
  that is at least what its call was charged.

From it follow `TypeCorrect`, `CommitsAlone`, `LogAlwaysFits`, `NoWakeupLost`
and, with `NLOG >= LOGSIZE` and `OpBlocks + 2 <= MAXOPBLOCKS`, `NeverPanics`.
The two blocks of slack are what the code needs: the header takes one of the
blocks `mkfs` sets aside, and `log_write` tests before it absorbs.

The second half of `LogProofs` adds `Data`: at each stage, where the current contents of a
block are (cache, log area or home), and that a block no part of the log names
is the same in cache and at home. With it `Refinement` shows that every step
of `Log` is a step of `GroupCommit` or a stutter, if `WriteThrough = {}`, as in
`part1`. The commit point is `write_head`, the crash maps to the crash, and all
steps of recovery and of `install_trans` stutter.

**LockOrder** (`LockOrderAssumption`: CPU 0 exists). The invariant says that the
locks a CPU holds are a function of its place in the code (`HeldAt`), in both
directions. `SchedLocks` and `NeverSelfWaits` follow by looking up the place; on
any number of CPUs, although `NoDeadlock` fails with two.

**Proc** (`ProcAssumption`: at least one slot and CPU). `ParentAlive` and
`NoMissedExit` are inductive only together with what they rest on. `Embryos`
says that each embryo belongs to one process in `fork`, which can neither sleep
nor exit before it is done with it; `Memory` gives an embryo's stack and page
table by the stage of its `fork`, which is what makes the failing paths free
exactly what there is; `InitAlive` keeps someone to inherit orphans; with
`NoStaleParent` a slot has no parent before `copyuvm` has succeeded and after
`wait`, so a new process is not taken for a child of the slot's last parent.

**Sched** (`SchedAssumption`: two slots, a CPU, a clock). `leave` takes a process
off the CPU, charges it and runs the next one in one step, so the parts of the
invariant are stated for any states and charges and shown first of the point in
the middle (`ChargeKeeps`), then across the scan (`ScanKeeps`, `ScanOvertakes`).

- `Running`: a CPU's process is running, on that CPU only. Without it a tick
  would not know whose turn it belongs to.
- `Sums` is `TicksConserved`; modulo `TickMod`, by the lemmas of `Arithmetic`.
- `Split` adds to `TicksByPriority` what holds during a turn: the ticks not yet
  charged are of the current priority, and a turn without a tick has none, which
  is why a `setpri` in it does no harm.
- `Overtaking` adds to `BoundedOvertaking` the slots a pass at low priority has
  left (`Ahead`): each dispatch adds one to the count and takes one from them.
  A new pass is at low priority only if nobody waits at high priority.

**SharedMem** (`SharedMemAssumption`: finitely many slots, one of them init's).
`PagesKept` needs `Maps`: what a page table maps is on record, but for the page
`shmem_access` is about to record. `SharesCounted` needs, up to the first stray,
`Records` (which pages the child has got from `copyuvm` and the zombie has not
lost to `wait`) and `Exact`: a counter is the number of processes that have the
page, minus the child that is about to be counted, plus the zombie that is about
to be counted off. On one CPU (`Loads`) no update is in the middle of another.

**VM** (`VMAssumption`: finitely many processes, 1 among them; sizes of at least
one; memory for `userinit`). `VMSound` counts pages and says what a process has
between calls; neither part survives a step without knowing what a call has in
hand. `VMInv` is `VMTypes` (with it, that nothing has panicked), `Finites`,
`Conserved` (the sum) and, for each process:

- `SlotOK`: an unused slot holds nothing, an embryo a stack and no directory;
  only a running process is in a call;
- `CallOK`, the loop invariant of each call: `new` is empty outside `fork` and
  `exec`, and in `setupkvm` has the kernel's tables below `va`; a page in hand
  belongs to the address at `va`, which is below `lim`; `sbrk` has begun behind
  the old size;
- `OldOK`: `pgdir` maps exactly the pages of the size, or in `sbrk` those below
  `va`, each with its table. So `mappages` does not find its place taken
  ("remap") and `copyuvm` finds each page it copies;
- `NewOK`: the same of the image being made;
- `ChildrenApart`: two forks fill different slots, so the one that fails frees
  its own.

That `freevm` frees all of a directory (`FreedAll`) is where the sizes matter: it
frees what is mapped below `KERNBASE`, and the loops stay below it
(`PagesBounded`). The sum is kept because a step changes the places of one
process, whose count enters the total alone (`HeldChanges`).

**Pipe** (`PipeAssumption`: `Wrap` a multiple of `PIPESIZE`, and larger). `Ring`
says which byte of the stream each used cell holds; that `nwrite` and `nread`
differ by the bytes in the ring across the wrap, and that `nread % PIPESIZE` goes
on by one when the counter wraps, is where the multiple is needed. `Sleepers`
gives the reason of every sleep, of those who doze too and hold the lock;
`EndsOpen` ties the two flags to the holders. What is proved of a killed sleeper
is that it is `late`; that its call never ends is the run `pipe_kill`.

**Console** (`ConsoleAssumption`: `Wrap` a multiple of `INPUT_BUF` and larger, a
screen of two rows). `Ring` is what the code counts on without saying it: a full
ring has no line in progress, since its last place finishes the line, and a line
in progress holds no end of line, so `^U` goes back to `w` and nowhere else. From
it follow `ConsoleIsSound` and `ConsoleIsTerminal`: the queues of `Terminal` are
the characters between `r` and `w` and between `w` and `e` (`Between`), and each
step of the code appends to them, cuts them or leaves them alone, across the
wrap of any of the three indices.

**Keyboard** (no assumption). `Flags` says what the flags are in the middle of an
escaped key: those of the history, and the escape. `KeyEnds` then shows that a
key's last byte does the same with the escape pending or without.

**BufCache** (`CacheAssumption`: a buffer, finitely many processes). `CacheSound`
lists what is true between the steps; what makes it inductive:

- `BufOwned`: a sleep lock's owner and the stage of the process that holds it
  determine each other, so the process that an interrupt wakes is the only one
  that looks at the buffer.
- `Queue`: the driver's queue has the buffer of each process that sleeps on the
  disk once, and the first one's block is on the disk already. An interrupt may
  then clear `B_DIRTY` without losing a write.
- `Contents` adds that a dirty buffer is valid; with `Named` (one buffer for a
  block) a block that is read back is not dirty anywhere.
- `Pins`: the dirty buffers that nobody is writing are at most `Pinned`. A dirty
  buffer beyond them has a process, so if all buffers are taken, they are at most
  `Pinned` and one for each process but the one in `bget`.

**Inode** (`InodeAssumption`: finitely many processes, a name, and at least as many
cache entries as processes, since each has at most one reference here; with fewer,
`iget` panics). `InodesSound` counts references and blocks; a step keeps it only
because of what the process that takes the step knows from earlier ones. What is
inductive is `InodeInv \/ Halted`: `Halted` is the state that the panics of `ialloc`
and `balloc` leave behind, in which nothing moves and `InodesSound` says that every
inode, or every block, was in use. `InodeInv` has these parts:

- `Control`, `Counts` and `Locks`: from the place of a process follow whether it
  has a reference, an entry's lock and the directory's lock. So `ref` is the number
  of processes at places with a reference, and the holder of a lock is one process.
- `Cached`: an entry that is valid is the inode on the disk, but while a process
  is in `itrunc` with it or has freed it and not yet cleared `valid`.
- `Kept`: an inode that somebody has a use for is not free on the disk, so `ilock`
  never meets "no type".
- `Alone`: nobody else has a reference to a file that `itrunc` is at work on: the
  one that tests `ref` and `nlink` in `iput` has the last, and no name leads there.
  Once the inode is free on the disk, `ialloc` may give it to a `create` that gets
  the same entry; this one waits for the lock, and finds the entry invalid.
- `Links` and `Creation`: a name leads to an inode with one link, no two to the
  same; the inode that a `create` has allocated is untouched until it is named.
- `BlocksOwned`: there are addresses for each inode, those of the cached copy in
  `itrunc` and those on the disk for all others, in which every block of the bitmap
  occurs once. It is stated for any table of addresses (`OneOwner`), so that a block
  added or freed is the change of one place in that table. "freeing free block"
  and a block in two files are both ruled out by it.

**CheckedFile** (`LayoutAssumption`: the numbers of blocks are natural;
`SumsAssumption`: sums are bytes). `VerdictRight` looks at the last call's result
only; `Tagged` says which of the tags are what was written when that call begins:
those of direct blocks written since the inode was read, and the first indirect
one, which goes to the disk with its block.

**Umalloc** (`HeapAssumption`: natural bounds, `NALLOC` at least one). `HeapInv` is

- `HeapList`: blocks on the ring or held apart, inside the heap, and the ring sorted;
  stated for any headers and any set of blocks off the ring, so that `free`, which
  may join a block twice, is shown as a link and up to two merges (`LinkKeeps`,
  `MergeKeeps`), and `malloc` as an unlink or a split;
- `Joined`: no two blocks of the ring touch;
- `FreeWalk`: where `free`'s loop has passed, the block does not belong. A sorted
  ring has a place for every block, so the loop stops within a round;
- `MallocWalk`: after `morecore` the new block, joined or not, is at `freep` or
  right behind it, and is large enough, so `malloc` does not call `morecore` twice.

**Kernel** (`KernelAssumption`: at least one process, inode and page, two entries
to a block of a directory and two units to a transaction; the other sizes are any
numbers; `Session`'s disk has an inode for each of its files). `KernelIsConsistent` is `Consistent` for
every program, whatever its calls, their order and their failures. The inductive
invariant is `Good`: a name has been made in a removed directory, which nothing
undoes, or `KInv`:

- `Fields` and `Dirs`: what the state is made of; a directory begins with "." and
  "..", which `unlink` and `dirlink` never touch.
- `Linked`: links are the names, and for a directory those of the directories in
  it. A directory without a name is empty: without this part, freeing one could
  lose the last name of a file.
- `Referred`: references to an inode are the open files and working directories,
  and `h`; an inode without a link has one of them. No writable file is a directory,
  so `write` changes no name.
- `Counted`: references to an open file are descriptors, and `g`; `Piped`: each end
  of a pipe has one open file at most, so that its last `fileclose` is the only
  one to close it; `Paid`: pages of processes and free ones add up.

`h` and `g` are an inode and an open file that a call has a reference to in the
middle: `create` hands `h` to `open`, `exit` and `fileclose` give up the descriptor
before the file. With them a call is shown in the parts it is written in, each
between two states with the invariant. The path walk of `namex` and the loop of `exit`
are recursive functions; what the proof needs of them (each inode reached
exists or is 0; the descriptors below `n` are closed) is an induction over the
index, done by a least counterexample (`LeastExists`).

`KernelPanics` is `PanicOnlyOrphaned` for every program: `panic("unlink: nlink < 1")`,
`panic("fileclose")` and the panic of `create` after a failed `dirlink` never come.
`ialloc` panics only with every inode in use; `iget` only when open files and
working directories leave at most two entries of the cache, since a call holds two
inodes at most (`CacheFull`); `balloc` only with at most `CHUNK` blocks free
(`BlocksShort`); `dirlink` only with a full directory of the largest size; and
`ilock` only while a process is in a removed directory. The counts exclude the
first three. The last needs one invariant more, `Tree`: "." leads to the directory itself and ".." to the directory
its name is in (the root's to the root). Then an inode that has a name, or is the root,
is left by every entry for one that has (`FollowAnchored`), so a path from the root or
from a working directory with a name never reaches a freed inode (`PathAnchored`). No
call disturbs `Tree` but `newInode`, which is shown to keep it (`GrownTree`); the
others are `Quiet`: they give no directory a new name, new first entries or a
panic, and quiet steps compose (`QuietThen`); or they are `Stopped` by one of the
panics above, which leaves everything else as it was.

Only model-checked:

- `TestsPass` and `NoneStuck` speak of the results of given
  programs, which only running them shows; `ShellMeaning` and `ParseFaithful` of given
  lines under a recursive parser; `StringsSound` of loops over bytes and recursive
  formats. What such a definition computes for every input needs induction over
  data, which the installed provers cannot do.
- `FlatImagesPass` and `PassedImagesSound` quantify over images near those of `mkfs`,
  and both sides of them count and select in sequences; they are facts about a
  function on inputs, with no steps to reason along.
- The liveness properties (`SleepersWake`, `InitReaps`, `VictimsDie`, `HighRuns`,
  `CallsEnd`, `RequestsServed`): TLAPS 1.4.5 has no support for
  fairness and ENABLED.

## 6. Where code and comments disagree

Shown by a run:

- `log_write_through`: `part2/fs.c:623` writes each block in place right after
  `log_write`, against `log.c:208` ("log_write() replaces bwrite()"). The trace
  ends at that write: what a reboot would find has changed with the call open
  and nothing committed.
- `locks_smp`: `scheduler()` takes `tickslock` with `ptable.lock` held, the
  timer trap and `sys_sleep` the other way round. With two CPUs both may spin
  for ever.
- `pipe_kill`: a process killed between the test of `p->killed` and the sleep
  (`pipe.c:107` and `111`, `86` and `91`) is not woken, against `proc.c:580`
  ("Wake process from sleep if necessary"), and sleeps for ever if nobody uses
  the pipe again. `consoleread` (`console.c:245-252`) has the same window.
- `fscheck_dirs`: `checkParentDir` (`fsChecker.c:289`) takes "." and ".." for
  children too and rejects every image with a subdirectory.
- `inode_leak`: two `iput`s at once (`fs.c:336-352`) may both find the other's
  reference, and the removed file stays allocated until the image is rebuilt.
- `buffer_kept`: `readi` of a checked file (`fs.c:543-546`) returns with the
  buffer locked. It also copies nothing to the caller.

In the models, where a property says exactly what the code does:

- `CheckedFile`: a sum of 128 or more never matches (`fs.c:538` against 542);
  the search for an indirect block's tag never advances (`525-530`), so later
  blocks are judged without one; after an overwrite and a reboot the tag is lost
  (`iupdate` only when the file grew, `627`).
- `FsCheck`: `checkValidAddr` (`fsChecker.c:139`) looks at free inodes too, against
  its comment ("For in-use inodes", `130`), and rejects an image for what one of
  them holds (`FreeClean`); the indirect block's own bit is not looked at; with an unallocated
  root all directory tests pass; the test for names of free inodes runs before
  the names are counted (`529`) and never fires; `BBLOCK(sb.size)` is taken for
  the first valid address, which lets the bitmap's own block pass.
- `BufCache`: a read that fails is marked valid all the same (`ide.c:118-122`).
- `Pipe`: a writer killed while the ring is full returns without the last
  `wakeup(&p->nread)` (`pipe.c:86-88`); a reader then sleeps on a full ring
  until the next call on the pipe.
- `VM`: `sbrk` down to nothing frees the pages, returns -1 and keeps the size
  (`proc.c:178`).
- `Kernel`: names can be made in a removed directory (`strayed`), and following
  ".." there panics with "ilock: no type" once the parent is gone too. Where
  inodes, cache entries, blocks or room in a directory run out, the call does not
  fail but the kernel panics (`fs.c:214`, `263`, `77`, `dirlink`); a `write` that is
  too long leaves what fitted in the file, and returns -1.
- `Strings`: the users' `memmove` smears when the destination begins inside the
  source (`ulib.c:96`); `strchr(s, 0)` returns 0; `cprintf` has no `%c` and writes
  hexadecimal digits in lower case; `safestrcpy` writes a second NUL behind a
  string that fits (`string.c:92`).

Seen by changing constants or properties of a run, not kept as runs:

- `log_space` with `OpBlocks = MAXOPBLOCKS`: `NoPanic` fails. `begin_op`
  reserves against `LOGSIZE`, but `log_write` refuses at `log.size - 1`
  (`log.c:218`), and `mkfs` makes `log.size` equal to `LOGSIZE`, header
  included; `param.h:10-11` speak of "max # of blocks any FS op writes" and
  "max data blocks in on-disk log".
- A `fork` that fails for want of a stack leaves its pid in the free slot, and
  `kill` matches slots in any state (`proc.c:572-578`), pid 0 included: the next
  process in that slot starts killed.
- Part `ticks` of `store` without the condition on `turn`: `TicksByPriority`
  fails. A turn is charged to the priority at its end (`proc.c:385`), so a tick
  before a `setpri` in the same turn goes to the wrong one of `lop_ticks` ("time
  spent in low priority", `proc.h:54`) and `hip_ticks`. On one CPU it cannot
  happen: the tick is followed by `yield` before the process can make the call.
- Part `shared` of `store` without the condition on `strayed`: `CountsExact` fails.
  `part1/exec.c:95` clears `shared_page` without `sm_counts[i]--`, while
  `part1/vm.c:475` says "count how many processes are using the same share page."
- Part `shared` of `store` with `SMP = TRUE` (`part1/Makefile` runs two CPUs):
  `CountsExact` fails, two updates of a counter at once lose one.
- Part `shared` without `strayed`: `AccessMapped` fails too, and with it
  `CountsExact`. A `fork` that fails in `copyuvm` leaves `shared_page` set in
  the free slot (`vm.c:356`); the slot's next process is told of a page that it
  has not mapped and nobody counted.

## 7. What is not modelled

- argument fetching (`argint`, `argptr`, `argstr` in `syscall.c`) and the entry
  in `trapasm.S`: address arithmetic on user memory and assembly. The dispatch
  is in `Programs`, the order of `trap()`'s tests of `p->killed` in `Proc`;
- boot and interrupt hardware (`main.c`, `lapic.c`, `ioapic.c`, `mp.c`, ...), the
  serial line's registers, the tables of scan codes: device registers;
- spinlocks other than `ptable.lock` and `tickslock` as locks: their critical
  sections are steps;
- the tests of `usertests.c` that look at memory (`validatetest`, `bsstest`,
  `bigargtest`, `mem`): they need a memory image. The tests of
  priorities and shared pages print what a person is to read;
- the characters of a command line: the parser starts from tokens;
- `malloc` of nearly 2^32 bytes, where the number of units wraps
  (`umalloc.c:69`);
- object files, disassembly and copied binaries in the tree: build output.

Abstractions worth knowing: contents of a block are opaque values, or their
checksum; `init`'s own `exit` after a failed `fork`, which panics the kernel, is
left out; the contents of shared pages are left out; a tick that falls inside a
pass of `Sched` is taken before or after it; the calls of `Kernel` are atomic but
for `write`, and the steps inside them are in `Inode`, `BufCache`, `Log` and `Pipe`,
which are not composed with it. So the inodes that a call holds on its way are not
counted against another call's use of the inode cache, and `NoneStuck` does not
see a kill that comes between a test of `p->killed` and the sleep: that is in
`Pipe` and `Console`.
