-------------------------------- MODULE Sched --------------------------------
(***************************************************************************)
(* The two-priority scheduler of part2/proc.c and its tick accounting:     *)
(* scheduler(), setpri(), the timer interrupt, and what sleep(), wakeup(), *)
(* fork(), exit() and wait() do to a process's priority and counters.      *)
(*                                                                         *)
(* A CPU holds ptable.lock from the moment its process gives it up until   *)
(* the next process runs or the pass ends, so that is one step.  A tick    *)
(* that falls inside such a step is taken before or after it; what the     *)
(* two locks do to each other is module LockOrder's question.              *)
(***************************************************************************)
EXTENDS Integers, FiniteSets

CONSTANTS
  NPROC,    \* slots of ptable.proc, at least 2
  NCPU,     \* processors; the timer of CPU 0 keeps the time
  TickMod   \* ticks and the counters are unsigned: arithmetic modulo TickMod
            \* (1 leaves the accounting out)

ASSUME SchedAssumption ==
  /\ NPROC \in Nat /\ NPROC >= 2
  /\ NCPU \in Nat \ {0}
  /\ TickMod \in Nat \ {0}

VARIABLES
  state,       \* p->state
  pri,         \* p->pri
  proc,        \* c->proc, 0 between two processes
  search_pri,  \* scheduler()'s search_pri
  ticks,       \* ticks
  sched_time,  \* p->sched_time
  charged,     \* p->lop_ticks and p->hip_ticks
  intr,        \* CPU 0's process is in the timer interrupt, before yield()
  spent,       \* history: ticks that fell while p ran at each priority
  turn,        \* history: p's turn is "fresh" or has "ticked", and "moved" once a
               \* setpri followed a tick of the same turn
  overtaken    \* history: each CPU's LOW dispatches since p is runnable at HIGH

vars == <<state, pri, proc, search_pri, ticks, sched_time, charged, intr,
          spent, turn, overtaken>>

Slots == 1..NPROC
CPUs == 0..(NCPU - 1)
LOW_PRI == 1
HIGH_PRI == 2
Pris == {LOW_PRI, HIGH_PRI}
States == {"UNUSED", "SLEEPING", "RUNNABLE", "RUNNING", "ZOMBIE"}
Turns == {"fresh", "ticked", "moved"}
NoTicks == [v \in Pris |-> 0]

First(S) == CHOOSE s \in S : \A t \in S : s <= t

\* ++ on an unsigned.
Bump(n) == (n + 1) % TickMod

\* userinit() has made init runnable; every CPU enters its loop.
Init ==
  /\ state = [p \in Slots |-> IF p = 1 THEN "RUNNABLE" ELSE "UNUSED"]
  /\ pri = [p \in Slots |-> LOW_PRI]
  /\ proc = [c \in CPUs |-> 0]
  /\ search_pri = [c \in CPUs |-> LOW_PRI]
  /\ ticks = 0
  /\ sched_time = [p \in Slots |-> 0]
  /\ charged = [p \in Slots |-> NoTicks]
  /\ intr = FALSE
  /\ spent = [p \in Slots |-> NoTicks]
  /\ turn = [p \in Slots |-> "fresh"]
  /\ overtaken = [p \in Slots |-> [c \in CPUs |-> 0]]
-----------------------------------------------------------------------------
(* scheduler()                                                             *)

\* Mutant: no first loop.
TopPri_Low(st) == LOW_PRI

\* The first loop: is there a runnable process of high priority?
TopPri(st) ==
  IF \E p \in Slots : st[p] = "RUNNABLE" /\ pri[p] = HIGH_PRI
  THEN HIGH_PRI ELSE LOW_PRI

\* What the second loop, from slot `from' on, may choose.
Eligible(st, v, from) == {p \in from..NPROC : st[p] = "RUNNABLE" /\ pri[p] = v}

\* Mutant: the start of a later turn is not noted.
stamp_Once(p) == [sched_time EXCEPT ![p] = IF @ = 0 THEN ticks ELSE @]

\* p->sched_time = sys_uptime()
stamp(p) == [sched_time EXCEPT ![p] = ticks]

\* The history of high-priority processes passed over by c's dispatch at v.
Overtake(c, st, v) ==
  [p \in Slots |-> [d \in CPUs |->
     IF st[p] = "RUNNABLE" /\ pri[p] = HIGH_PRI
     THEN overtaken[p][d] + (IF d = c /\ v = LOW_PRI THEN 1 ELSE 0)
     ELSE 0]]

\* CPU c goes on with the second loop at slot `from': it runs the next process
\* of priority v, or its pass ends.
scan(c, from, v, st) ==
  LET next == Eligible(st, v, from)
      p == First(next)
  IN  \/ /\ next # {}
         /\ state' = [st EXCEPT ![p] = "RUNNING"]
         /\ proc' = [proc EXCEPT ![c] = p]
         /\ search_pri' = [search_pri EXCEPT ![c] = v]
         /\ sched_time' = stamp(p)
         /\ turn' = [turn EXCEPT ![p] = IF @ = "moved" THEN @ ELSE "fresh"]
         /\ overtaken' = Overtake(c, [st EXCEPT ![p] = "RUNNING"], v)
      \/ /\ next = {}
         /\ state' = st
         /\ proc' = [proc EXCEPT ![c] = 0]
         /\ search_pri' = [search_pri EXCEPT ![c] = LOW_PRI]
         /\ UNCHANGED <<sched_time, turn>>
         /\ overtaken' = Overtake(c, st, HIGH_PRI)

\* A new pass over the table.
pass(c) ==
  /\ proc[c] = 0
  /\ scan(c, 1, TopPri(state), state)
  /\ UNCHANGED <<pri, ticks, charged, intr, spent>>

\* Mutant: every tick is charged to the low counter.
charge_Low(p) == [charged EXCEPT ![p][LOW_PRI] =
                    (@ + ticks - sched_time[p]) % TickMod]

\* tdif goes to the counter of the priority p has now.
charge(p) == [charged EXCEPT ![p][pri[p]] =
                (@ + ticks - sched_time[p]) % TickMod]

\* Mutant: the scan steps over a slot.
Following_Skips(p) == p + 2

Following(p) == p + 1

\* The process of CPU c enters the scheduler in state st: yield(), sleep() or
\* exit().  CPU 0 yields only at a tick; the other CPUs have their own timers.
leave(c, st) ==
  LET p == proc[c]
  IN  /\ p # 0
      /\ st = "RUNNABLE" => (c # 0 \/ intr)
      /\ st = "SLEEPING" => ~(c = 0 /\ intr)
      /\ st = "ZOMBIE" => p # 1
      /\ charged' = charge(p)
      /\ scan(c, Following(p),
              IF st # "ZOMBIE" /\ pri[p] > search_pri[c]
              THEN pri[p] ELSE search_pri[c],
              [state EXCEPT ![p] = st])
      /\ intr' = (intr /\ c # 0)
      /\ UNCHANGED <<pri, ticks, spent>>
-----------------------------------------------------------------------------
(* The timer interrupt and the system calls.                               *)

\* wakeup() of any of the sleepers.
Wake(W) == [p \in Slots |-> IF p \in W THEN "RUNNABLE" ELSE state[p]]
Sleepers == {p \in Slots : state[p] = "SLEEPING"}

\* CPU 0's timer: ticks++ and wakeup(&ticks), then yield() if a process runs.
\* Which sleepers wait for the clock is left open.
tick ==
  /\ ~intr
  /\ ticks' = Bump(ticks)
  /\ \E W \in SUBSET Sleepers : state' = Wake(W)
  /\ intr' = (proc[0] # 0)
  /\ spent' = [p \in Slots |->
                 IF state[p] = "RUNNING" THEN [spent[p] EXCEPT ![pri[p]] = Bump(@)]
                                         ELSE spent[p]]
  /\ turn' = [p \in Slots |->
                IF state[p] = "RUNNING" /\ turn[p] = "fresh" /\ ticks' # ticks
                THEN "ticked" ELSE turn[p]]
  /\ UNCHANGED <<pri, proc, search_pri, sched_time, charged, overtaken>>

\* A wakeup() that is not the clock's.
wakeup ==
  /\ \E W \in SUBSET Sleepers \ {{}} : state' = Wake(W)
  /\ UNCHANGED <<pri, proc, search_pri, ticks, sched_time, charged, intr,
                 spent, turn, overtaken>>

\* The process of CPU c can make a system call.
InCall(c) == proc[c] # 0 /\ ~(c = 0 /\ intr)

\* setpri() refuses any other priority.
setpri(c, v) ==
  /\ InCall(c)
  /\ v \in Pris
  /\ pri' = [pri EXCEPT ![proc[c]] = v]
  /\ turn' = [turn EXCEPT ![proc[c]] =
                IF @ = "ticked" /\ v # pri[proc[c]] THEN "moved" ELSE @]
  /\ UNCHANGED <<state, proc, search_pri, ticks, sched_time, charged, intr,
                 spent, overtaken>>

\* fork(): the child starts at LOW_PRI with clear counters.
fork(c) ==
  LET free == {p \in Slots : state[p] = "UNUSED"}
      p == First(free)
  IN  /\ InCall(c)
      /\ free # {}
      /\ state' = [state EXCEPT ![p] = "RUNNABLE"]
      /\ pri' = [pri EXCEPT ![p] = LOW_PRI]
      /\ charged' = [charged EXCEPT ![p] = NoTicks]
      /\ spent' = [spent EXCEPT ![p] = NoTicks]
      /\ turn' = [turn EXCEPT ![p] = "fresh"]
      /\ UNCHANGED <<proc, search_pri, ticks, sched_time, intr, overtaken>>

\* wait() frees a zombie's slot; its counters stay for getpinfo() to show.
wait(c) ==
  /\ InCall(c)
  /\ \E p \in Slots : state[p] = "ZOMBIE" /\ state' = [state EXCEPT ![p] = "UNUSED"]
  /\ UNCHANGED <<pri, proc, search_pri, ticks, sched_time, charged, intr,
                 spent, turn, overtaken>>

Leaves(c) == \E st \in {"RUNNABLE", "SLEEPING", "ZOMBIE"} : leave(c, st)

Next ==
  \/ tick \/ wakeup
  \/ \E c \in CPUs :
       \/ pass(c) \/ Leaves(c) \/ fork(c) \/ wait(c)
       \/ \E v \in Pris : setpri(c, v)

Spec == Init /\ [][Next]_vars

\* Every CPU goes on with its loop, and its timer interrupts what it runs.
Fairness ==
  /\ \A c \in CPUs : WF_vars(pass(c)) /\ WF_vars(Leaves(c))
  /\ WF_vars(tick)

FairSpec == Spec /\ Fairness
-----------------------------------------------------------------------------
(* Properties.                                                             *)

TypeOK ==
  /\ state \in [Slots -> States]
  /\ pri \in [Slots -> Pris]
  /\ proc \in [CPUs -> {0} \cup Slots]
  /\ search_pri \in [CPUs -> Pris]
  /\ ticks \in 0..(TickMod - 1)
  /\ sched_time \in [Slots -> 0..(TickMod - 1)]
  /\ charged \in [Slots -> [Pris -> 0..(TickMod - 1)]]
  /\ intr \in BOOLEAN
  /\ spent \in [Slots -> [Pris -> 0..(TickMod - 1)]]
  /\ turn \in [Slots -> Turns]
  /\ overtaken \in [Slots -> [CPUs -> Nat]]

\* Ticks of p's turn that the scheduler has not charged yet.
Uncharged(p) == IF state[p] = "RUNNING" THEN ticks - sched_time[p] ELSE 0

\* The two counters together, with the turn in progress, hold exactly the
\* ticks during which the process ran, also when the unsigned clock wraps.
TicksConserved ==
  \A p \in Slots : state[p] # "UNUSED" =>
    (charged[p][LOW_PRI] + charged[p][HIGH_PRI] + Uncharged(p)) % TickMod
      = (spent[p][LOW_PRI] + spent[p][HIGH_PRI]) % TickMod

\* "time spent in low priority", "time spent in high priority": each counter
\* of a process that is off the CPU holds the ticks spent at that priority.
\* scheduler() charges a turn to the priority at its end, so the claim is made
\* up to the first setpri that changes the priority after a tick of its turn.
TicksByPriority ==
  \A p \in Slots :
    state[p] \notin {"UNUSED", "RUNNING"} /\ turn[p] # "moved" => charged[p] = spent[p]

\* search_pri is chosen once for a pass, so low-priority processes may still
\* be run after one of high priority became runnable, but by each CPU at most
\* those left in the pass it is in.
BoundedOvertaking ==
  \A p \in Slots, c \in CPUs : overtaken[p][c] <= NPROC - 2

WaitsHigh(p) == state[p] = "RUNNABLE" /\ pri[p] = HIGH_PRI
Runs(p) == state[p] = "RUNNING"

\* A runnable process of high priority runs, whatever the others do.
HighRuns == \A p \in Slots : WaitsHigh(p) ~> Runs(p)
=============================================================================
