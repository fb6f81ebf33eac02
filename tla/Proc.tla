-------------------------------- MODULE Proc --------------------------------
(***************************************************************************)
(* The life of a process in part2/proc.c: allocproc, fork, exit, wait,     *)
(* sleep, wakeup, kill, yield, and trap.c's test of p->killed.             *)
(*                                                                         *)
(* What a process does while it holds ptable.lock is one step: the lock is *)
(* handed over in swtch(), so a process that sleeps or exits is off its    *)
(* CPU before any other process sees its new state.  The scheduler's       *)
(* choice is left open here; module Sched models it.                       *)
(***************************************************************************)
EXTENDS Integers, FiniteSets

CONSTANTS
  NPROC,       \* slots of ptable.proc
  NCPU,        \* processors that run processes
  MaxPid,      \* bound: pids handed out before fork() is no longer called
  KillPids,    \* arguments of kill()
  OutOfMemory, \* may kalloc() and copyuvm() fail
  Blocking     \* do processes call sleep(), which waits for the clock

ASSUME ProcAssumption ==
  /\ NPROC \in Nat \ {0}
  /\ NCPU \in Nat \ {0}
  /\ MaxPid \in Nat \ {0}
  /\ KillPids \subseteq Int
  /\ OutOfMemory \in BOOLEAN
  /\ Blocking \in BOOLEAN

VARIABLES
  state,    \* p->state
  pid,      \* p->pid
  parent,   \* p->parent, 0 for none
  chan,     \* p->chan: 0, a slot (wait) or TICKS
  killed,   \* p->killed
  mem,      \* which of p->kstack and p->pgdir are allocated
  nextpid,  \* nextpid
  pc,       \* where the process is in the kernel
  np,       \* fork()'s np, 0 when it has none
  panicked  \* panic("init exiting")

vars == <<state, pid, parent, chan, killed, mem, nextpid, pc, np,
          panicked>>

Slots == 1..NPROC
initproc == 1
TICKS == -1

States == {"UNUSED", "EMBRYO", "SLEEPING", "RUNNABLE", "RUNNING", "ZOMBIE"}

\* user: in user mode; call: trap() found p->killed clear, syscall() comes next;
\* kalloc, copy, ready: in fork(); wait: in wait(); block: p->killed tested,
\* about to sleep in sys_sleep(); ticks: woken in its loop; exit: in exit(),
\* before it takes ptable.lock.
PCs == {"user", "call", "kalloc", "copy", "ready", "wait", "block", "ticks",
        "exit"}

Running(s) == state[s] = "RUNNING" /\ ~panicked
Children(s) == {c \in Slots : parent[c] = s}
Zombies(s) == {c \in Children(s) : state[c] = "ZOMBIE"}

\* The slot a scan of the table finds first.
First(S) == CHOOSE s \in S : \A t \in S : s <= t

\* What userinit() leaves: init is runnable in the first slot.
Init ==
  /\ state = [s \in Slots |-> IF s = initproc THEN "RUNNABLE" ELSE "UNUSED"]
  /\ pid = [s \in Slots |-> IF s = initproc THEN 1 ELSE 0]
  /\ parent = [s \in Slots |-> 0]
  /\ chan = [s \in Slots |-> 0]
  /\ killed = [s \in Slots |-> FALSE]
  /\ mem = [s \in Slots |-> IF s = initproc THEN {"kstack", "pgdir"} ELSE {}]
  /\ nextpid = 2
  /\ pc = [s \in Slots |-> "user"]
  /\ np = [s \in Slots |-> 0]
  /\ panicked = FALSE
-----------------------------------------------------------------------------
(* Off and on the processor.                                               *)

\* scheduler() runs a runnable process on a free CPU; a process that slept
\* first clears p->chan, still under ptable.lock.
dispatch(s) ==
  /\ ~panicked
  /\ state[s] = "RUNNABLE"
  /\ Cardinality({t \in Slots : state[t] = "RUNNING"}) < NCPU
  /\ state' = [state EXCEPT ![s] = "RUNNING"]
  /\ chan' = [chan EXCEPT ![s] = 0]
  /\ UNCHANGED <<pid, parent, killed, mem, nextpid, pc, np, panicked>>

\* The timer interrupt; none is taken while a spinlock is held or spun for.
yield(s) ==
  /\ Running(s)
  /\ pc[s] \notin {"block", "ticks"}
  /\ state' = [state EXCEPT ![s] = "RUNNABLE"]
  /\ UNCHANGED <<pid, parent, chan, killed, mem, nextpid, pc, np,
                 panicked>>

\* Every process sleeping on c becomes runnable in st.
wakeup1(st, c) ==
  [t \in Slots |-> IF st[t] = "SLEEPING" /\ chan[t] = c THEN "RUNNABLE" ELSE st[t]]
-----------------------------------------------------------------------------
(* fork()                                                                  *)

\* trap() on a system call: a killed process does not get to syscall().
syscall(s) ==
  /\ Running(s)
  /\ pc[s] = "user" /\ ~killed[s]
  /\ pc' = [pc EXCEPT ![s] = "call"]
  /\ UNCHANGED <<state, pid, parent, chan, killed, mem, nextpid, np,
                 panicked>>

FreeSlots == {t \in Slots : state[t] = "UNUSED"}

\* allocproc() up to its release: the first free slot becomes an embryo.
allocproc(s) ==
  LET free == FreeSlots
  IN  /\ Running(s)
      /\ pc[s] = "call"
      /\ nextpid <= MaxPid
      /\ \/ /\ free # {}
            /\ state' = [state EXCEPT ![First(free)] = "EMBRYO"]
            /\ pid' = [pid EXCEPT ![First(free)] = nextpid]
            /\ nextpid' = nextpid + 1
            /\ np' = [np EXCEPT ![s] = First(free)]
            /\ pc' = [pc EXCEPT ![s] = "kalloc"]
         \/ /\ free = {}
            /\ pc' = [pc EXCEPT ![s] = "user"]
            /\ UNCHANGED <<state, pid, nextpid, np>>
      /\ UNCHANGED <<parent, chan, killed, mem, panicked>>

\* The rest of allocproc(), without the lock.
kalloc_kstack(s) ==
  /\ Running(s)
  /\ pc[s] = "kalloc"
  /\ \/ /\ mem' = [mem EXCEPT ![np[s]] = @ \cup {"kstack"}]
        /\ pc' = [pc EXCEPT ![s] = "copy"]
        /\ UNCHANGED <<state, np>>
     \/ /\ OutOfMemory
        /\ state' = [state EXCEPT ![np[s]] = "UNUSED"]
        /\ pc' = [pc EXCEPT ![s] = "user"]
        /\ np' = [np EXCEPT ![s] = 0]
        /\ UNCHANGED mem
  /\ UNCHANGED <<pid, parent, chan, killed, nextpid, panicked>>

\* Mutant: the failing fork() forgets the kernel stack.
copy_failed_Leaks(s) == mem

\* copyuvm() failed: what fork() leaves of the embryo's memory.
copy_failed(s) == [mem EXCEPT ![np[s]] = @ \ {"kstack"}]

\* fork() from copyuvm() to the acquire.
copyuvm(s) ==
  /\ Running(s)
  /\ pc[s] = "copy"
  /\ \/ /\ mem' = [mem EXCEPT ![np[s]] = @ \cup {"pgdir"}]
        /\ parent' = [parent EXCEPT ![np[s]] = s]
        /\ pc' = [pc EXCEPT ![s] = "ready"]
        /\ UNCHANGED <<state, np>>
     \/ /\ OutOfMemory
        /\ mem' = copy_failed(s)
        /\ state' = [state EXCEPT ![np[s]] = "UNUSED"]
        /\ pc' = [pc EXCEPT ![s] = "user"]
        /\ np' = [np EXCEPT ![s] = 0]
        /\ UNCHANGED parent
  /\ UNCHANGED <<pid, chan, killed, nextpid, panicked>>

\* The end of fork(): the child is runnable and starts in user mode.
fork_ready(s) ==
  /\ Running(s)
  /\ pc[s] = "ready"
  /\ state' = [state EXCEPT ![np[s]] = "RUNNABLE"]
  /\ pc' = [pc EXCEPT ![s] = "user", ![np[s]] = "user"]
  /\ np' = [np EXCEPT ![s] = 0]
  /\ UNCHANGED <<pid, parent, chan, killed, mem, nextpid, panicked>>
-----------------------------------------------------------------------------
(* exit() and wait()                                                       *)

\* exit() called by the program, or forced by trap() on a killed process or
\* after a fault; it closes the files and the directory before it takes
\* ptable.lock.  Nobody sees the flag that a fault sets on its own process.
\* init.c calls exit() only when fork() fails, which ends in the panic: that
\* call is left out.
exit(s) ==
  /\ Running(s)
  /\ (pc[s] = "call" /\ s # initproc) \/ (pc[s] = "user" /\ killed[s])
  /\ panicked' = (s = initproc)
  /\ pc' = [pc EXCEPT ![s] = "exit"]
  /\ UNCHANGED <<state, pid, parent, chan, killed, mem, nextpid, np>>

\* Mutant: init is not told about the zombies it inherits.
exit_wakes_ParentOnly(s) == wakeup1(state, parent[s])

\* Mutant: the parent is woken by the last of its children only.
exit_wakes_Last(s) ==
  IF Children(parent[s]) \subseteq Zombies(parent[s]) \cup {s}
  THEN wakeup1(state, parent[s]) ELSE state

\* The processes exit() wakes: its parent, and init if it inherits a zombie.
exit_wakes(s) ==
  LET st == wakeup1(state, parent[s])
  IN  IF Zombies(s) # {} THEN wakeup1(st, initproc) ELSE st

\* Mutant: the children are left with the dead parent.
reparent_Forgotten(s) == parent

\* Abandoned children pass to init.
reparent(s) == [t \in Slots |-> IF parent[t] = s THEN initproc ELSE parent[t]]

\* exit() under ptable.lock, up to the swtch.
exit_zombie(s) ==
  /\ Running(s)
  /\ pc[s] = "exit"
  /\ state' = [exit_wakes(s) EXCEPT ![s] = "ZOMBIE"]
  /\ parent' = reparent(s)
  /\ UNCHANGED <<pid, chan, killed, mem, nextpid, pc, np, panicked>>

\* wait() clears the flag of the slot it frees.
reap_killed(z) == [killed EXCEPT ![z] = FALSE]

\* wait(): one turn of its loop, under ptable.lock.
wait(s) ==
  /\ Running(s)
  /\ pc[s] \in {"call", "wait"}
  /\ \/ /\ Zombies(s) # {}
        /\ LET z == First(Zombies(s))
           IN  /\ mem' = [mem EXCEPT ![z] = {}]
               /\ pid' = [pid EXCEPT ![z] = 0]
               /\ parent' = [parent EXCEPT ![z] = 0]
               /\ killed' = reap_killed(z)
               /\ state' = [state EXCEPT ![z] = "UNUSED"]
        /\ pc' = [pc EXCEPT ![s] = "user"]
        /\ UNCHANGED chan
     \/ /\ Zombies(s) = {}
        /\ Children(s) = {} \/ killed[s]
        /\ pc' = [pc EXCEPT ![s] = "user"]
        /\ UNCHANGED <<mem, pid, parent, killed, state, chan>>
     \/ /\ Zombies(s) = {}
        /\ Children(s) # {} /\ ~killed[s]
        /\ chan' = [chan EXCEPT ![s] = s]
        /\ state' = [state EXCEPT ![s] = "SLEEPING"]
        /\ pc' = [pc EXCEPT ![s] = "wait"]
        /\ UNCHANGED <<mem, pid, parent, killed>>
  /\ UNCHANGED <<nextpid, np, panicked>>
-----------------------------------------------------------------------------
(* sys_sleep() and kill().  sys_sleep() tests p->killed under tickslock,   *)
(* which kill() does not take, and then sleeps.                            *)

\* The loop's tests: enough ticks have passed, or the process is killed, or it
\* goes to sleep with tickslock held.
sys_sleep(s) ==
  /\ Blocking
  /\ Running(s)
  /\ pc[s] \in {"call", "ticks"}
  /\ \A t \in Slots : pc[t] # "block"
  /\ \/ pc' = [pc EXCEPT ![s] = "user"]
     \/ /\ ~killed[s]
        /\ pc' = [pc EXCEPT ![s] = "block"]
  /\ UNCHANGED <<state, pid, parent, chan, killed, mem, nextpid, np,
                 panicked>>

\* sleep(&ticks, &tickslock): the lock is held until ptable.lock is.
sleep(s) ==
  /\ Running(s)
  /\ pc[s] = "block"
  /\ chan' = [chan EXCEPT ![s] = TICKS]
  /\ state' = [state EXCEPT ![s] = "SLEEPING"]
  /\ pc' = [pc EXCEPT ![s] = "ticks"]
  /\ UNCHANGED <<pid, parent, killed, mem, nextpid, np, panicked>>

\* The timer trap of CPU 0 calls wakeup(&ticks) under tickslock.
wakeup ==
  /\ ~panicked
  /\ \A t \in Slots : pc[t] # "block"
  /\ \E t \in Slots : state[t] = "SLEEPING" /\ chan[t] = TICKS
  /\ state' = wakeup1(state, TICKS)
  /\ UNCHANGED <<pid, parent, chan, killed, mem, nextpid, pc, np,
                 panicked>>

\* Mutant: only the flag is set.
kill_wakes_Nobody(t) == state

\* The killed process is taken out of its sleep.
kill_wakes(t) ==
  IF state[t] = "SLEEPING" THEN [state EXCEPT ![t] = "RUNNABLE"] ELSE state

\* kill(n) from process s: the first slot with that pid, whatever its state.
kill(s, n) ==
  LET hit == {t \in Slots : pid[t] = n}
  IN  /\ Running(s)
      /\ pc[s] = "call"
      /\ \/ /\ hit # {}
            /\ killed' = [killed EXCEPT ![First(hit)] = TRUE]
            /\ state' = kill_wakes(First(hit))
         \/ hit = {} /\ UNCHANGED <<killed, state>>
      /\ pc' = [pc EXCEPT ![s] = "user"]
      /\ UNCHANGED <<pid, parent, chan, mem, nextpid, np, panicked>>

Step(s) ==
  \/ syscall(s)
  \/ allocproc(s) \/ kalloc_kstack(s) \/ copyuvm(s) \/ fork_ready(s)
  \/ exit(s) \/ exit_zombie(s) \/ wait(s)
  \/ sys_sleep(s) \/ sleep(s)
  \/ \E n \in KillPids : kill(s, n)

Next == wakeup \/ \E s \in Slots : dispatch(s) \/ yield(s) \/ Step(s)

Spec == Init /\ [][Next]_vars

\* A kernel path once entered goes on, and a killed process meets trap()'s
\* test: the CPU runs at least one step between two timer interrupts.  The
\* system call a process makes is its own choice.
Continues(s) ==
  \/ (pc[s] = "call" /\ Step(s))
  \/ kalloc_kstack(s) \/ copyuvm(s) \/ fork_ready(s)
  \/ (killed[s] /\ exit(s)) \/ exit_zombie(s)
  \/ (pc[s] = "wait" /\ wait(s))
  \/ (pc[s] = "ticks" /\ sys_sleep(s)) \/ sleep(s)

\* scheduler() scans the whole table: with equal priorities no runnable
\* process is passed over forever.  yield and wakeup: the timer keeps ticking.
\* init.c calls wait() in a loop, and a sleep() lasts a number of ticks.
Fairness ==
  /\ \A s \in Slots : /\ SF_vars(dispatch(s))
                      /\ SF_vars(Continues(s))
                      /\ WF_vars(yield(s))
  /\ SF_vars(syscall(initproc)) /\ SF_vars(wait(initproc))
  /\ SF_vars(sys_sleep(initproc) /\ pc'[initproc] = "user")
  /\ WF_vars(wakeup)

FairSpec == Spec /\ Fairness
-----------------------------------------------------------------------------
(* Properties.                                                             *)

TypeOK ==
  /\ state \in [Slots -> States]
  /\ pid \in [Slots -> 0..MaxPid]
  /\ parent \in [Slots -> {0} \cup Slots]
  /\ chan \in [Slots -> {0, TICKS} \cup Slots]
  /\ killed \in [Slots -> BOOLEAN]
  /\ mem \in [Slots -> SUBSET {"kstack", "pgdir"}]
  /\ nextpid \in 2..(MaxPid + 1)
  /\ pc \in [Slots -> PCs]
  /\ np \in [Slots -> {0} \cup Slots]
  /\ panicked \in BOOLEAN

\* A child's parent is a process that can still call wait() for it: exit()
\* has passed the children of a dead process to init, embryos included.
ParentAlive ==
  \A c \in Slots : parent[c] # 0 =>
    state[parent[c]] \in {"SLEEPING", "RUNNABLE", "RUNNING"}

\* No wakeup is lost between wait() and exit() or kill(): a process asleep in
\* wait() has a child, none that has exited, and has not been killed.
NoMissedExit ==
  \A s \in Slots : state[s] = "SLEEPING" /\ chan[s] = s =>
    Children(s) # {} /\ Zombies(s) = {} /\ ~killed[s]

\* Kernel stack and page table: none in a free slot, both in a process that
\* has run, so nothing leaks through fork()'s failures or twice through
\* wait().  An embryo belongs to one fork() in progress, which nobody can make
\* free or reuse under it.
MemoryOwned ==
  \A c \in Slots :
    /\ state[c] = "UNUSED" => mem[c] = {}
    /\ state[c] \notin {"UNUSED", "EMBRYO"} => mem[c] = {"kstack", "pgdir"}
    /\ state[c] = "EMBRYO" =>
         \E s \in Slots :
           /\ np[s] = c /\ pc[s] \in {"kalloc", "copy", "ready"}
           /\ state[s] \in {"RUNNING", "RUNNABLE"}
           /\ \A t \in Slots \ {s} : np[t] # c

\* init reaps every zombie it is given.
OrphansReaped ==
  \A s \in Slots :
    (state[s] = "ZOMBIE" /\ parent[s] = initproc) ~> (state[s] = "UNUSED")

\* A killed process exits, asleep in wait() or in sys_sleep() as it may have been:
\* kill() wakes it, or, coming between sys_sleep()'s test and its sleep, is seen
\* at the next tick.  (Nothing ticks for a pipe: see Pipe's KilledCallsEnd.)
KilledDie ==
  \A s \in Slots :
    (killed[s] /\ state[s] \in {"RUNNABLE", "RUNNING", "SLEEPING"})
      ~> (state[s] \in {"ZOMBIE", "UNUSED"})
=============================================================================
