------------------------------ MODULE LockOrder ------------------------------
(***************************************************************************)
(* The two spinlocks of part2 that are held together: ptable.lock and      *)
(* tickslock.  Each CPU runs the scheduler loop or a process; at[c] says   *)
(* which acquire() or release() its code comes to next.  The lock that     *)
(* swtch() hands over stays with the CPU.  No process exits.               *)
(*                                                                         *)
(* scheduler() calls sys_uptime() with ptable.lock held; the timer trap    *)
(* and sys_sleep() take ptable.lock with tickslock held.                   *)
(***************************************************************************)
EXTENDS Integers

CONSTANTS
  Tasks,       \* how many processes there are
  Processors   \* the CPUs, numbers; CPU 0 keeps the time

ASSUME LockOrderAssumption ==
  Processors \subseteq Nat /\ 0 \in Processors /\ Tasks \in Nat

VARIABLES
  at,      \* where each CPU is
  holder,  \* lk->cpu, NoCPU when the lock is free
  busy,    \* CPUs that have a process: myproc() # 0
  ready,   \* number of runnable processes that return from yield() or fork()
  asleep,  \* number of processes asleep in sys_sleep()
  woken    \* number of runnable processes that return from that sleep

lockvars == <<at, holder, busy, ready, asleep, woken>>

NoCPU == -1
Locks == {"ptable", "tickslock"}

\* The places where a CPU spins in acquire(), interrupts off, and the lock.
Spins ==
  [start |-> "ptable",  stamp |-> "tickslock", off |-> "tickslock",
   yield |-> "ptable",  wake |-> "tickslock",  block |-> "ptable",
   tick |-> "tickslock", ticked |-> "ptable"]

Places == DOMAIN Spins \cup
  {"loop", "pass", "stamped", "switch", "run", "charged", "sleep", "handoff",
   "woke", "tickend"}

LockInit ==
  /\ at = [c \in Processors |-> "loop"]
  /\ holder = [l \in Locks |-> NoCPU]
  /\ busy = {}
  /\ ready = Tasks
  /\ asleep = 0
  /\ woken = 0
-----------------------------------------------------------------------------
(* spinlock.c                                                              *)

Goto(c, from, to) == at[c] = from /\ at' = [at EXCEPT ![c] = to]

\* The exchange that ends the spin at `from'.
acquire(c, from, to) ==
  /\ Goto(c, from, to)
  /\ holder[Spins[from]] = NoCPU
  /\ holder' = [holder EXCEPT ![Spins[from]] = c]

release(c, l, from, to) ==
  /\ Goto(c, from, to)
  /\ holder' = [holder EXCEPT ![l] = NoCPU]
-----------------------------------------------------------------------------
(* scheduler()                                                             *)

\* The head of the loop, its end, and a process that is found.
scheduler(c) ==
  /\ \/ Goto(c, "loop", "start") /\ UNCHANGED holder
     \/ acquire(c, "start", "pass")
     \/ release(c, "ptable", "pass", "loop")
     \/ /\ ready + woken > 0
        /\ Goto(c, "pass", "stamp")
        /\ UNCHANGED holder
  /\ UNCHANGED <<busy, ready, asleep, woken>>

\* sys_uptime() before and after the process runs.
sys_uptime(c) ==
  /\ \/ acquire(c, "stamp", "stamped") /\ UNCHANGED busy
     \/ release(c, "tickslock", "stamped", "switch") /\ UNCHANGED busy
     \/ acquire(c, "off", "charged") /\ UNCHANGED busy
     \/ /\ release(c, "tickslock", "charged", "pass")
        /\ busy' = busy \ {c}
  /\ UNCHANGED <<ready, asleep, woken>>

\* swtch(): the process releases ptable.lock at the end of yield() or in
\* forkret(), or in sleep(), which then goes for tickslock again.
resume(c) ==
  /\ busy' = busy \cup {c}
  /\ \/ /\ ready > 0
        /\ release(c, "ptable", "switch", "run")
        /\ ready' = ready - 1
        /\ UNCHANGED woken
     \/ /\ woken > 0
        /\ release(c, "ptable", "switch", "wake")
        /\ woken' = woken - 1
        /\ UNCHANGED ready
  /\ UNCHANGED asleep
-----------------------------------------------------------------------------
(* The timer trap.                                                         *)

\* Mutant: pushcli() does not turn the interrupts off.
Interruptible_Always == {"loop", "run", "sleep"}

\* Where interrupts are on.
Interruptible == {"loop", "run"}

\* The interrupt arrives: CPU 0 counts, the others go to yield().
timer(c) ==
  /\ at[c] \in Interruptible
  /\ c = 0 \/ c \in busy
  /\ at' = [at EXCEPT ![c] = IF c = 0 THEN "tick" ELSE "yield"]
  /\ UNCHANGED <<holder, busy, ready, asleep, woken>>

\* ticks++ and wakeup(&ticks), then yield() if a process was interrupted.
tick_trap(c) ==
  /\ \/ acquire(c, "tick", "ticked") /\ UNCHANGED <<asleep, woken>>
     \/ /\ acquire(c, "ticked", "woke")
        /\ asleep' = 0
        /\ woken' = woken + asleep
     \/ release(c, "ptable", "woke", "tickend") /\ UNCHANGED <<asleep, woken>>
     \/ /\ release(c, "tickslock", "tickend",
                   IF c \in busy THEN "yield" ELSE "loop")
        /\ UNCHANGED <<asleep, woken>>
  /\ UNCHANGED <<busy, ready>>

\* yield() up to the swtch.
yield(c) ==
  /\ acquire(c, "yield", "off")
  /\ ready' = ready + 1
  /\ UNCHANGED <<busy, asleep, woken>>
-----------------------------------------------------------------------------
(* sys_sleep()                                                             *)

\* Mutant: sleep() keeps the caller's lock.
sleep_Keeps(c) ==
  /\ Goto(c, "handoff", "off")
  /\ asleep' = asleep + 1
  /\ UNCHANGED <<holder, busy, ready, woken>>

\* sleep(&ticks, &tickslock), once it has ptable.lock: release(lk), swtch.
sleep(c) ==
  /\ release(c, "tickslock", "handoff", "off")
  /\ asleep' = asleep + 1
  /\ UNCHANGED <<busy, ready, woken>>

\* The call, its loop, its return, and sleep()'s acquire of ptable.lock.
sys_sleep(c) ==
  /\ \/ Goto(c, "run", "wake") /\ UNCHANGED holder
     \/ acquire(c, "wake", "sleep")
     \/ release(c, "tickslock", "sleep", "run")
     \/ Goto(c, "sleep", "block") /\ UNCHANGED holder
     \/ acquire(c, "block", "handoff")
  /\ UNCHANGED <<busy, ready, asleep, woken>>

Step(c) ==
  \/ scheduler(c) \/ sys_uptime(c) \/ resume(c)
  \/ timer(c) \/ tick_trap(c) \/ yield(c)
  \/ sys_sleep(c) \/ sleep(c)

LockNext == \E c \in Processors : Step(c)

LockSpec == LockInit /\ [][LockNext]_lockvars
-----------------------------------------------------------------------------
(* Properties.                                                             *)

\* sched() is entered with ptable.lock and no other lock, its panic("sched
\* locks"): no path from yield() or sleep() brings tickslock along.
SchedHoldsOne ==
  \A c \in Processors : at[c] = "off" =>
    holder["ptable"] = c /\ holder["tickslock"] # c

\* No CPU spins for a lock it holds itself, acquire()'s panic("acquire"):
\* interrupts are off wherever a lock the trap needs is held.
NoSelfWait ==
  \A c \in Processors : at[c] \in DOMAIN Spins => holder[Spins[at[c]]] # c

\* "Loops (spins) until the lock is acquired": no two CPUs spin for the lock
\* the other one holds.
NoDeadlock ==
  \A c, d \in Processors :
    at[c] \in DOMAIN Spins /\ at[d] \in DOMAIN Spins =>
      ~(holder[Spins[at[c]]] = d /\ holder[Spins[at[d]]] = c)
=============================================================================
