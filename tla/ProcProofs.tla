----------------------------- MODULE ProcProofs -----------------------------
(***************************************************************************)
(* Proofs about Proc, for any number of slots, CPUs and pids: parents that *)
(* can wait, no exit missed, and memory that is neither leaked nor freed   *)
(* twice.                                                                  *)
(***************************************************************************)
EXTENDS Proc, Arithmetic

Forking == {"kalloc", "copy", "ready"}
Alive == {"SLEEPING", "RUNNABLE", "RUNNING"}
Both == {"kstack", "pgdir"}

\* fork() in progress and the embryos: each embryo is the np of one process,
\* which is in fork() and neither asleep nor gone.
Embryos ==
  /\ \A s \in Slots :
       IF pc[s] \in Forking
       THEN /\ np[s] \in Slots /\ state[np[s]] = "EMBRYO"
            /\ state[s] \in {"RUNNING", "RUNNABLE"}
       ELSE np[s] = 0
  /\ \A c \in Slots : state[c] = "EMBRYO" => \E s \in Slots : np[s] = c
  /\ \A s, t \in Slots : np[s] = np[t] /\ np[s] # 0 => s = t

\* How much of an embryo's memory there is follows from where its fork() is.
Memory ==
  /\ \A c \in Slots : state[c] = "UNUSED" => mem[c] = {}
  /\ \A c \in Slots : state[c] \notin {"UNUSED", "EMBRYO"} => mem[c] = Both
  /\ \A s \in Slots :
       /\ pc[s] = "kalloc" => mem[np[s]] = {}
       /\ pc[s] = "copy" => mem[np[s]] = {"kstack"}
       /\ pc[s] = "ready" => mem[np[s]] = Both

\* init is there for the orphans: if it exits the kernel has panicked.
InitAlive == state[initproc] \in Alive /\ (pc[initproc] = "exit" => panicked)

\* A slot has a parent, another one, from copyuvm() to wait(); init has none.
NoStaleParent ==
  /\ parent[initproc] = 0
  /\ \A c \in Slots : parent[c] # c
  /\ \A c \in Slots : state[c] = "UNUSED" => parent[c] = 0
  /\ \A s \in Slots : pc[s] \in {"kalloc", "copy"} => parent[np[s]] = 0

\* The inductive invariant.
IInv ==
  /\ TypeOK
  /\ Embryos
  /\ Memory
  /\ InitAlive
  /\ NoStaleParent
  /\ ParentAlive
  /\ NoMissedExit
-----------------------------------------------------------------------------
(* Facts about the helpers.                                                *)

\* A scan that finds something finds a slot of the set.
LEMMA FirstIn ==
  ASSUME NEW S \in SUBSET Slots, S # {}
  PROVE  First(S) \in S /\ First(S) \in Slots
<1>1. S \in SUBSET Nat
  BY ProcAssumption DEF Slots
<1> QED BY <1>1, LeastExists DEF First

\* wakeup() makes sleepers runnable and touches nobody else.
LEMMA WakeupEffect ==
  ASSUME NEW st \in [Slots -> States], NEW c
  PROVE  /\ wakeup1(st, c) \in [Slots -> States]
         /\ \A t \in Slots :
              IF st[t] = "SLEEPING" /\ chan[t] = c THEN wakeup1(st, c)[t] = "RUNNABLE"
                                                   ELSE wakeup1(st, c)[t] = st[t]
BY DEF wakeup1, States

LEMMA SlotFacts == initproc \in Slots /\ 0 \notin Slots /\ TICKS \notin Slots
BY ProcAssumption DEF Slots, initproc, TICKS

LEMMA InitIInv == Init => IInv
<1> SUFFICES ASSUME Init PROVE IInv OBVIOUS
<1> USE SlotFacts DEF Init
<1>1. TypeOK
  <2>1. pid \in [Slots -> 0..MaxPid] /\ nextpid \in 2..(MaxPid + 1)
    BY ProcAssumption
  <2>2. state \in [Slots -> States] /\ pc \in [Slots -> PCs]
    BY DEF States, PCs
  <2>3. mem \in [Slots -> SUBSET {"kstack", "pgdir"}]
    OBVIOUS
  <2>4. killed \in [Slots -> BOOLEAN] /\ panicked \in BOOLEAN
    OBVIOUS
  <2> QED BY <2>1, <2>2, <2>3, <2>4 DEF TypeOK
<1>2. Embryos BY DEF Embryos, Forking
<1>3. Memory BY DEF Memory, Both
<1>4. InitAlive BY DEF InitAlive, Alive
<1>5. NoStaleParent BY DEF NoStaleParent, initproc
<1>6. ParentAlive BY DEF ParentAlive
<1>7. NoMissedExit BY DEF NoMissedExit
<1> QED BY <1>1, <1>2, <1>3, <1>4, <1>5, <1>6, <1>7 DEF IInv
-----------------------------------------------------------------------------
(* Off and on the processor.                                               *)

LEMMA DispatchKeeps == ASSUME IInv, NEW s \in Slots, dispatch(s) PROVE IInv'
<1> USE SlotFacts DEF IInv, TypeOK, dispatch
<1>1. TypeOK' BY DEF States
<1>2. Embryos' BY DEF Embryos, Forking
<1>3. Memory' BY DEF Memory
<1>4. InitAlive' BY DEF InitAlive, Alive
<1>5. NoStaleParent' BY DEF NoStaleParent
<1>6. ParentAlive' BY DEF ParentAlive
<1>7. NoMissedExit' BY DEF NoMissedExit, Children, Zombies
<1> QED BY <1>1, <1>2, <1>3, <1>4, <1>5, <1>6, <1>7

LEMMA YieldKeeps == ASSUME IInv, NEW s \in Slots, yield(s) PROVE IInv'
<1> USE SlotFacts DEF IInv, TypeOK, yield, Running
<1>1. TypeOK' BY DEF States
<1>2. Embryos' BY DEF Embryos, Forking
<1>3. Memory' BY DEF Memory
<1>4. InitAlive' BY DEF InitAlive, Alive
<1>5. NoStaleParent' BY DEF NoStaleParent
<1>6. ParentAlive' BY DEF ParentAlive
<1>7. NoMissedExit' BY DEF NoMissedExit, Children, Zombies
<1> QED BY <1>1, <1>2, <1>3, <1>4, <1>5, <1>6, <1>7
-----------------------------------------------------------------------------
(* fork()                                                                  *)

LEMMA SyscallKeeps == ASSUME IInv, NEW s \in Slots, syscall(s) PROVE IInv'
<1> USE SlotFacts DEF IInv, TypeOK, syscall, Running
<1>1. TypeOK' BY DEF States, PCs
<1>2. Embryos' BY DEF Embryos, Forking
<1>3. Memory' BY DEF Memory, Both
<1>4. InitAlive' BY DEF InitAlive, Alive, initproc
<1>5. NoStaleParent' BY DEF NoStaleParent
<1>6. ParentAlive' BY DEF ParentAlive
<1>7. NoMissedExit' BY DEF NoMissedExit, Children, Zombies
<1> QED BY <1>1, <1>2, <1>3, <1>4, <1>5, <1>6, <1>7

LEMMA AllocprocKeeps == ASSUME IInv, NEW s \in Slots, allocproc(s) PROVE IInv'
<1> USE SlotFacts DEF IInv, TypeOK
<1>1. /\ state[s] = "RUNNING" /\ pc[s] = "call" /\ nextpid \in 2..MaxPid
      /\ UNCHANGED <<parent, chan, killed, mem, panicked>>
  BY DEF allocproc, Running
<1>2. CASE FreeSlots = {}
  <2>1. pc' = [pc EXCEPT ![s] = "user"] /\ UNCHANGED <<state, pid, nextpid, np>>
    BY <1>2 DEF allocproc
  <2> USE <1>1, <2>1
  <2>2. TypeOK' BY DEF States, PCs
  <2>3. Embryos' BY DEF Embryos, Forking
  <2>4. Memory' BY DEF Memory, Both
  <2>5. InitAlive' BY DEF InitAlive, Alive
  <2>6. NoStaleParent' BY DEF NoStaleParent
  <2>7. ParentAlive' BY DEF ParentAlive, Alive
  <2>8. NoMissedExit' BY DEF NoMissedExit, Children, Zombies
  <2> QED BY <2>2, <2>3, <2>4, <2>5, <2>6, <2>7, <2>8
<1>3. CASE FreeSlots # {}
  <2> DEFINE c == First(FreeSlots)
  <2>1. /\ state' = [state EXCEPT ![c] = "EMBRYO"]
        /\ pid' = [pid EXCEPT ![c] = nextpid]
        /\ nextpid' = nextpid + 1
        /\ np' = [np EXCEPT ![s] = c]
        /\ pc' = [pc EXCEPT ![s] = "kalloc"]
    BY <1>3 DEF allocproc
  <2>2. c \in Slots /\ state[c] = "UNUSED"
    <3>1. FreeSlots \in SUBSET Slots BY DEF FreeSlots
    <3>2. c \in FreeSlots BY <1>3, <3>1, FirstIn
    <3> QED BY <3>2 DEF FreeSlots
  <2> HIDE DEF c
  <2>3. c # s /\ c # initproc /\ c # 0
    BY <1>1, <2>2 DEF InitAlive, Alive
  <2>4. \A t \in Slots : np[t] # c
    BY <2>2, <2>3 DEF Embryos
  <2> USE <1>1, <2>1, <2>2, <2>3, <2>4
  <2>5. TypeOK' BY ProcAssumption DEF States, PCs
  <2>6. Embryos' BY DEF Embryos, Forking
  <2>7. Memory' BY DEF Memory, Both
  <2>8. InitAlive' BY DEF InitAlive, Alive
  <2>9. NoStaleParent' BY DEF NoStaleParent
  <2>10. ParentAlive' BY DEF ParentAlive, Alive
  <2>11. NoMissedExit' BY DEF NoMissedExit, Children, Zombies
  <2> QED BY <2>5, <2>6, <2>7, <2>8, <2>9, <2>10, <2>11
<1> QED BY <1>2, <1>3

\* The embryo of a fork() in progress.
LEMMA OwnEmbryo ==
  ASSUME IInv, NEW s \in Slots, pc[s] \in Forking
  PROVE  /\ np[s] \in Slots /\ state[np[s]] = "EMBRYO"
         /\ np[s] # s /\ np[s] # initproc /\ np[s] # 0
         /\ \A t \in Slots : np[t] = np[s] => t = s
BY SlotFacts DEF IInv, Embryos, InitAlive, Alive

\* fork() gives up: the slot is free again, and so is its memory.
LEMMA ForkFailsKeeps ==
  ASSUME IInv, NEW s \in Slots, state[s] = "RUNNING", pc[s] \in {"kalloc", "copy"},
         state' = [state EXCEPT ![np[s]] = "UNUSED"],
         pc' = [pc EXCEPT ![s] = "user"],
         np' = [np EXCEPT ![s] = 0],
         mem' = [mem EXCEPT ![np[s]] = {}],
         UNCHANGED <<pid, parent, chan, killed, nextpid, panicked>>
  PROVE  IInv'
<1> DEFINE c == np[s]
<1>1. /\ c \in Slots /\ state[c] = "EMBRYO" /\ c # s /\ c # initproc /\ c # 0
      /\ \A t \in Slots : np[t] = c => t = s
  BY OwnEmbryo DEF Forking
<1>2. /\ state' = [state EXCEPT ![c] = "UNUSED"]
      /\ mem' = [mem EXCEPT ![c] = {}]
      /\ np[s] = c /\ parent[c] = 0
  BY DEF IInv, NoStaleParent
<1> HIDE DEF c
<1> USE <1>1, <1>2, SlotFacts DEF IInv, TypeOK
<1>3. TypeOK' BY DEF States, PCs
<1>4. Embryos' BY DEF Embryos, Forking
<1>5. Memory' BY DEF Memory, Both
<1>6. InitAlive' BY DEF InitAlive, Alive
<1>7. NoStaleParent' BY DEF NoStaleParent
<1>8. ParentAlive' BY DEF ParentAlive, Alive
<1>9. NoMissedExit' BY DEF NoMissedExit, Children, Zombies
<1> QED BY <1>3, <1>4, <1>5, <1>6, <1>7, <1>8, <1>9

LEMMA KallocKeeps == ASSUME IInv, NEW s \in Slots, kalloc_kstack(s) PROVE IInv'
<1> DEFINE c == np[s]
<1>1. /\ state[s] = "RUNNING" /\ pc[s] = "kalloc"
      /\ UNCHANGED <<pid, parent, chan, killed, nextpid, panicked>>
  BY DEF kalloc_kstack, Running
<1>2. /\ c \in Slots /\ state[c] = "EMBRYO" /\ c # s /\ c # initproc /\ c # 0
      /\ \A t \in Slots : np[t] = c => t = s
  BY <1>1, OwnEmbryo DEF Forking
<1>3. mem[c] = {} /\ mem \in [Slots -> SUBSET Both]
  BY <1>1 DEF IInv, Memory, TypeOK, Both
<1>4. CASE /\ mem' = [mem EXCEPT ![c] = @ \cup {"kstack"}]
           /\ pc' = [pc EXCEPT ![s] = "copy"]
           /\ UNCHANGED <<state, np>>
  <2>1. mem' = [mem EXCEPT ![c] = {"kstack"}] /\ np[s] = c
    BY <1>2, <1>3, <1>4
  <2> HIDE DEF c
  <2> USE <1>1, <1>2, <1>4, <2>1, SlotFacts DEF IInv, TypeOK
  <2>2. TypeOK' BY DEF States, PCs
  <2>3. Embryos' BY DEF Embryos, Forking
  <2>4. Memory' BY DEF Memory, Both
  <2>5. InitAlive' BY DEF InitAlive, Alive
  <2>6. NoStaleParent' BY DEF NoStaleParent
  <2>7. ParentAlive' BY DEF ParentAlive, Alive
  <2>8. NoMissedExit' BY DEF NoMissedExit, Children, Zombies
  <2> QED BY <2>2, <2>3, <2>4, <2>5, <2>6, <2>7, <2>8
<1>5. CASE /\ state' = [state EXCEPT ![c] = "UNUSED"]
           /\ pc' = [pc EXCEPT ![s] = "user"]
           /\ np' = [np EXCEPT ![s] = 0]
           /\ UNCHANGED mem
  <2>1. mem' = [mem EXCEPT ![c] = {}]
    BY <1>2, <1>3, <1>5
  <2> QED BY <1>1, <1>5, <2>1, ForkFailsKeeps
<1> QED BY <1>4, <1>5 DEF kalloc_kstack

LEMMA CopyuvmKeeps == ASSUME IInv, NEW s \in Slots, copyuvm(s) PROVE IInv'
<1> DEFINE c == np[s]
<1>1. /\ state[s] = "RUNNING" /\ pc[s] = "copy"
      /\ UNCHANGED <<pid, chan, killed, nextpid, panicked>>
  BY DEF copyuvm, Running
<1>2. /\ c \in Slots /\ state[c] = "EMBRYO" /\ c # s /\ c # initproc /\ c # 0
      /\ \A t \in Slots : np[t] = c => t = s
  BY <1>1, OwnEmbryo DEF Forking
<1>3. mem[c] = {"kstack"} /\ mem \in [Slots -> SUBSET Both]
  BY <1>1 DEF IInv, Memory, TypeOK, Both
<1>4. CASE /\ mem' = [mem EXCEPT ![c] = @ \cup {"pgdir"}]
           /\ parent' = [parent EXCEPT ![c] = s]
           /\ pc' = [pc EXCEPT ![s] = "ready"]
           /\ UNCHANGED <<state, np>>
  <2>1. mem' = [mem EXCEPT ![c] = Both] /\ np[s] = c
    BY <1>2, <1>3, <1>4 DEF Both
  <2> HIDE DEF c
  <2> USE <1>1, <1>2, <1>4, <2>1, SlotFacts DEF IInv, TypeOK
  <2>2. TypeOK' BY DEF States, PCs
  <2>3. Embryos' BY DEF Embryos, Forking
  <2>4. Memory' BY DEF Memory, Both
  <2>5. InitAlive' BY DEF InitAlive, Alive
  <2>6. NoStaleParent' BY DEF NoStaleParent
  <2>7. ParentAlive' BY DEF ParentAlive, Alive
  <2>8. NoMissedExit'
    <3> SUFFICES ASSUME NEW t \in Slots, state[t] = "SLEEPING", chan[t] = t
                 PROVE  Children(t)' # {} /\ Zombies(t)' = {} /\ ~killed[t]
      BY DEF NoMissedExit
    <3>1. Children(t) # {} /\ Zombies(t) = {} /\ ~killed[t]
      BY DEF NoMissedExit
    <3>2. parent[c] # t
      BY DEF NoStaleParent
    <3>3. Children(t)' = Children(t)
      BY <3>2 DEF Children
    <3> QED BY <3>1, <3>3 DEF Zombies
  <2> QED BY <2>2, <2>3, <2>4, <2>5, <2>6, <2>7, <2>8
<1>5. CASE /\ mem' = copy_failed(s)
           /\ state' = [state EXCEPT ![c] = "UNUSED"]
           /\ pc' = [pc EXCEPT ![s] = "user"]
           /\ np' = [np EXCEPT ![s] = 0]
           /\ UNCHANGED parent
  <2>1. mem' = [mem EXCEPT ![c] = {}]
    BY <1>2, <1>3, <1>5 DEF copy_failed
  <2> QED BY <1>1, <1>5, <2>1, ForkFailsKeeps
<1> QED BY <1>4, <1>5 DEF copyuvm

LEMMA ForkReadyKeeps == ASSUME IInv, NEW s \in Slots, fork_ready(s) PROVE IInv'
<1> USE SlotFacts DEF IInv, TypeOK, fork_ready, Running
<1>1. TypeOK' BY DEF States, PCs
<1>2. Embryos' BY DEF Embryos, Forking
<1>3. Memory' BY DEF Memory, Both
<1>4. InitAlive' BY DEF InitAlive, Alive, initproc
<1>5. NoStaleParent' BY DEF NoStaleParent
<1>6. ParentAlive' BY DEF ParentAlive
<1>7. NoMissedExit' BY DEF NoMissedExit, Children, Zombies
<1> QED BY <1>1, <1>2, <1>3, <1>4, <1>5, <1>6, <1>7

-----------------------------------------------------------------------------
(* exit() and wait()                                                       *)

LEMMA ExitKeeps == ASSUME IInv, NEW s \in Slots, exit(s) PROVE IInv'
<1> USE SlotFacts DEF IInv, TypeOK, exit, Running
<1>1. TypeOK' BY DEF States, PCs
<1>2. Embryos' BY DEF Embryos, Forking
<1>3. Memory' BY DEF Memory, Both
<1>4. InitAlive' BY DEF InitAlive, Alive, initproc
<1>5. NoStaleParent' BY DEF NoStaleParent
<1>6. ParentAlive' BY DEF ParentAlive
<1>7. NoMissedExit' BY DEF NoMissedExit, Children, Zombies
<1> QED BY <1>1, <1>2, <1>3, <1>4, <1>5, <1>6, <1>7

\* What exit() does to the states of the others: it wakes sleepers only, and
\* nobody whom it should have woken is left asleep.
LEMMA ExitWakes ==
  ASSUME TypeOK, NEW s \in Slots, NEW t \in Slots
  PROVE  /\ exit_wakes(s) \in [Slots -> States]
         /\ state[t] # "SLEEPING" => exit_wakes(s)[t] = state[t]
         /\ state[t] = "SLEEPING" => exit_wakes(s)[t] \in {"SLEEPING", "RUNNABLE"}
         /\ exit_wakes(s)[t] = "SLEEPING" =>
              chan[t] # parent[s] /\ (Zombies(s) # {} => chan[t] # initproc)
<1> DEFINE st == wakeup1(state, parent[s])
           su == wakeup1(st, initproc)
<1>1. /\ st \in [Slots -> States]
      /\ IF state[t] = "SLEEPING" /\ chan[t] = parent[s]
         THEN st[t] = "RUNNABLE" ELSE st[t] = state[t]
  BY WakeupEffect DEF TypeOK
<1> HIDE DEF st
<1>2. /\ su \in [Slots -> States]
      /\ IF st[t] = "SLEEPING" /\ chan[t] = initproc
         THEN su[t] = "RUNNABLE" ELSE su[t] = st[t]
  BY <1>1, WakeupEffect
<1>3. exit_wakes(s) = IF Zombies(s) # {} THEN su ELSE st
  BY DEF exit_wakes, st
<1> HIDE DEF su
<1> QED BY <1>1, <1>2, <1>3

LEMMA ExitZombieKeeps == ASSUME IInv, NEW s \in Slots, exit_zombie(s) PROVE IInv'
<1> DEFINE w == exit_wakes(s)
<1>1. /\ state[s] = "RUNNING" /\ pc[s] = "exit" /\ ~panicked
      /\ state' = [w EXCEPT ![s] = "ZOMBIE"]
      /\ \A t \in Slots : parent'[t] = IF parent[t] = s THEN initproc ELSE parent[t]
      /\ parent' \in [Slots -> {0} \cup Slots]
      /\ UNCHANGED <<pid, chan, killed, mem, nextpid, pc, np, panicked>>
  BY SlotFacts DEF exit_zombie, Running, reparent, IInv, TypeOK
<1>2. /\ w \in [Slots -> States]
      /\ \A t \in Slots :
           /\ state[t] # "SLEEPING" => w[t] = state[t]
           /\ state[t] = "SLEEPING" => w[t] \in {"SLEEPING", "RUNNABLE"}
           /\ w[t] = "SLEEPING" =>
                chan[t] # parent[s] /\ (Zombies(s) # {} => chan[t] # initproc)
  BY ExitWakes DEF IInv
<1> HIDE DEF w
<1>3. s # initproc
  BY <1>1 DEF IInv, InitAlive
<1>4. /\ state'[s] = "ZOMBIE"
      /\ \A t \in Slots \ {s} : state'[t] = w[t]
      /\ state' \in [Slots -> States]
  BY <1>1, <1>2 DEF States
<1> USE <1>3, SlotFacts DEF IInv, TypeOK
<1>5. TypeOK' BY <1>1, <1>4
<1>6. Embryos' BY <1>1, <1>2, <1>4 DEF Embryos, Forking
<1>7. Memory' BY <1>1, <1>2, <1>4 DEF Memory, Both
<1>8. InitAlive' BY <1>1, <1>2, <1>4 DEF InitAlive, Alive
<1>9. NoStaleParent'
  <2>1. \A c \in Slots : parent[c] = 0 => parent'[c] = 0
    BY <1>1
  <2>2. \A c \in Slots : state'[c] = "UNUSED" => state[c] = "UNUSED"
    BY <1>1, <1>2, <1>4
  <2>3. \A t \in Slots : pc[t] \in Forking => np[t] \in Slots
    BY DEF Embryos
  <2>4. parent'[initproc] = 0 /\ \A c \in Slots : parent'[c] # c
    BY <1>1 DEF NoStaleParent
  <2> QED BY <1>1, <2>1, <2>2, <2>3, <2>4 DEF NoStaleParent, Forking
<1>10. ParentAlive'
  <2> SUFFICES ASSUME NEW c \in Slots, parent'[c] # 0
               PROVE  state'[parent'[c]] \in Alive
    BY DEF ParentAlive, Alive
  <2>1. CASE parent[c] = s
    BY <1>1, <1>8, <2>1 DEF InitAlive
  <2>2. CASE parent[c] # s
    <3>1. parent'[c] = parent[c] /\ parent[c] \in Slots \ {s}
      BY <1>1, <2>2
    <3>2. state[parent[c]] \in Alive
      BY <3>1 DEF ParentAlive, Alive
    <3> QED BY <1>2, <1>4, <3>1, <3>2 DEF Alive
  <2> QED BY <2>1, <2>2
<1>11. NoMissedExit'
  <2> SUFFICES ASSUME NEW t \in Slots, state'[t] = "SLEEPING", chan[t] = t
               PROVE  Children(t)' # {} /\ Zombies(t)' = {} /\ ~killed[t]
    BY <1>1 DEF NoMissedExit
  <2>1. /\ t # s /\ state[t] = "SLEEPING"
        /\ t # parent[s] /\ (Zombies(s) # {} => t # initproc)
    BY <1>1, <1>2, <1>4
  <2>2. Children(t) # {} /\ Zombies(t) = {} /\ ~killed[t]
    BY <2>1 DEF NoMissedExit
  <2>3. Children(t) \subseteq Children(t)'
    BY <1>1, <2>1 DEF Children
  <2>4. ASSUME NEW c \in Slots, parent'[c] = t, state'[c] = "ZOMBIE" PROVE FALSE
    <3>1. CASE parent[c] = s
      <4>1. t = initproc /\ Zombies(s) = {}
        BY <1>1, <2>1, <2>4, <3>1
      <4>2. state[c] # "ZOMBIE"
        BY <3>1, <4>1 DEF Zombies, Children
      <4>3. c # s /\ state'[c] # "ZOMBIE"
        BY <1>2, <1>4, <3>1, <4>2 DEF NoStaleParent
      <4> QED BY <2>4, <4>3
    <3>2. CASE parent[c] # s
      <4>1. parent[c] = t /\ c # s
        BY <1>1, <2>1, <2>4, <3>2
      <4>2. state[c] # "ZOMBIE"
        BY <2>2, <4>1 DEF Zombies, Children
      <4> QED BY <1>2, <1>4, <2>4, <4>1, <4>2
    <3> QED BY <3>1, <3>2
  <2> QED BY <2>2, <2>3, <2>4 DEF Zombies, Children
<1> QED BY <1>5, <1>6, <1>7, <1>8, <1>9, <1>10, <1>11

LEMMA WaitKeeps == ASSUME IInv, NEW s \in Slots, wait(s) PROVE IInv'
<1> USE SlotFacts DEF IInv, TypeOK
<1>1. /\ state[s] = "RUNNING" /\ pc[s] \in {"call", "wait"}
      /\ UNCHANGED <<nextpid, np, panicked>>
  BY DEF wait, Running
<1>2. CASE Zombies(s) # {}
  <2> DEFINE z == First(Zombies(s))
  <2>1. /\ mem' = [mem EXCEPT ![z] = {}]
        /\ pid' = [pid EXCEPT ![z] = 0]
        /\ parent' = [parent EXCEPT ![z] = 0]
        /\ killed' = [killed EXCEPT ![z] = FALSE]
        /\ state' = [state EXCEPT ![z] = "UNUSED"]
        /\ pc' = [pc EXCEPT ![s] = "user"]
        /\ UNCHANGED chan
    BY <1>2 DEF wait, reap_killed
  <2>2. z \in Slots /\ parent[z] = s /\ state[z] = "ZOMBIE"
    <3>1. Zombies(s) \in SUBSET Slots BY DEF Zombies, Children
    <3>2. z \in Zombies(s) BY <1>2, <3>1, FirstIn
    <3> QED BY <3>2 DEF Zombies, Children
  <2> HIDE DEF z
  <2>3. z # s /\ z # initproc /\ \A t \in Slots : np[t] # z
    BY <1>1, <2>2 DEF Embryos, InitAlive, Alive
  <2>4. \A c \in Slots : parent[c] # z
    BY <2>2 DEF ParentAlive
  <2> USE <1>1, <2>1, <2>2, <2>3, <2>4
  <2>5. TypeOK' BY ProcAssumption DEF States, PCs
  <2>6. Embryos' BY DEF Embryos, Forking
  <2>7. Memory' BY DEF Memory, Both, Embryos, Forking
  <2>8. InitAlive' BY DEF InitAlive, Alive
  <2>9. NoStaleParent' BY DEF NoStaleParent, Embryos, Forking
  <2>10. ParentAlive' BY DEF ParentAlive, Alive
  <2>11. NoMissedExit' BY DEF NoMissedExit, Children, Zombies
  <2> QED BY <2>5, <2>6, <2>7, <2>8, <2>9, <2>10, <2>11
<1>3. CASE Zombies(s) = {} /\ (Children(s) = {} \/ killed[s])
  <2>1. /\ pc' = [pc EXCEPT ![s] = "user"]
        /\ UNCHANGED <<mem, pid, parent, killed, state, chan>>
    BY <1>3 DEF wait
  <2> USE <1>1, <2>1
  <2>2. TypeOK' BY DEF States, PCs
  <2>3. Embryos' BY DEF Embryos, Forking
  <2>4. Memory' BY DEF Memory
  <2>5. InitAlive' BY DEF InitAlive, Alive
  <2>6. NoStaleParent' BY DEF NoStaleParent
  <2>7. ParentAlive' BY DEF ParentAlive
  <2>8. NoMissedExit' BY DEF NoMissedExit, Children, Zombies
  <2> QED BY <2>2, <2>3, <2>4, <2>5, <2>6, <2>7, <2>8
<1>4. CASE Zombies(s) = {} /\ Children(s) # {} /\ ~killed[s]
  <2>1. /\ chan' = [chan EXCEPT ![s] = s]
        /\ state' = [state EXCEPT ![s] = "SLEEPING"]
        /\ pc' = [pc EXCEPT ![s] = "wait"]
        /\ UNCHANGED <<mem, pid, parent, killed>>
    BY <1>4 DEF wait
  <2> USE <1>1, <2>1
  <2>2. TypeOK' BY DEF States, PCs
  <2>3. Embryos' BY DEF Embryos, Forking
  <2>4. Memory' BY DEF Memory
  <2>5. InitAlive' BY DEF InitAlive, Alive
  <2>6. NoStaleParent' BY DEF NoStaleParent
  <2>7. ParentAlive' BY DEF ParentAlive
  <2>8. NoMissedExit'
    <3> SUFFICES ASSUME NEW t \in Slots, state'[t] = "SLEEPING", chan'[t] = t
                 PROVE  Children(t)' # {} /\ Zombies(t)' = {} /\ ~killed'[t]
      BY DEF NoMissedExit
    <3>1. Children(t) # {} /\ Zombies(t) = {} /\ ~killed[t]
      BY <1>4 DEF NoMissedExit
    <3>2. Children(t)' = Children(t)
      BY DEF Children
    <3>3. \A c \in Slots : state'[c] = "ZOMBIE" => state[c] = "ZOMBIE"
      OBVIOUS
    <3> QED BY <3>1, <3>2, <3>3 DEF Zombies, Children
  <2> QED BY <2>2, <2>3, <2>4, <2>5, <2>6, <2>7, <2>8
<1> QED BY <1>2, <1>3, <1>4

-----------------------------------------------------------------------------
(* sys_sleep() and kill().                                                 *)

LEMMA SysSleepKeeps == ASSUME IInv, NEW s \in Slots, sys_sleep(s) PROVE IInv'
<1> USE SlotFacts DEF IInv, TypeOK, sys_sleep, Running
<1>1. TypeOK' BY DEF States, PCs
<1>2. Embryos' BY DEF Embryos, Forking
<1>3. Memory' BY DEF Memory, Both
<1>4. InitAlive' BY DEF InitAlive, Alive, initproc
<1>5. NoStaleParent' BY DEF NoStaleParent
<1>6. ParentAlive' BY DEF ParentAlive
<1>7. NoMissedExit' BY DEF NoMissedExit, Children, Zombies
<1> QED BY <1>1, <1>2, <1>3, <1>4, <1>5, <1>6, <1>7

LEMMA SleepKeeps == ASSUME IInv, NEW s \in Slots, sleep(s) PROVE IInv'
<1> USE SlotFacts DEF IInv, TypeOK, sleep, Running
<1>1. TypeOK' BY DEF States, PCs
<1>2. Embryos' BY DEF Embryos, Forking
<1>3. Memory' BY DEF Memory, Both
<1>4. InitAlive' BY DEF InitAlive, Alive, initproc
<1>5. NoStaleParent' BY DEF NoStaleParent
<1>6. ParentAlive' BY DEF ParentAlive
<1>7. NoMissedExit' BY DEF NoMissedExit, Children, Zombies
<1> QED BY <1>1, <1>2, <1>3, <1>4, <1>5, <1>6, <1>7

LEMMA WakeupKeeps == ASSUME IInv, wakeup PROVE IInv'
<1> DEFINE w == wakeup1(state, TICKS)
<1>1. state' = w /\ UNCHANGED <<pid, parent, chan, killed, mem, nextpid, pc, np, panicked>>
  BY DEF wakeup
<1>2. /\ w \in [Slots -> States]
      /\ \A t \in Slots : \/ w[t] = state[t]
                          \/ w[t] = "RUNNABLE" /\ state[t] = "SLEEPING"
  BY WakeupEffect DEF IInv, TypeOK
<1> HIDE DEF w
<1> USE <1>1, <1>2, SlotFacts DEF IInv, TypeOK
<1>3. TypeOK' OBVIOUS
<1>4. Embryos' BY DEF Embryos, Forking
<1>5. Memory' BY DEF Memory
<1>6. InitAlive' BY DEF InitAlive, Alive
<1>7. NoStaleParent' BY DEF NoStaleParent
<1>8. ParentAlive' BY DEF ParentAlive
<1>9. NoMissedExit' BY DEF NoMissedExit, Children, Zombies
<1> QED BY <1>3, <1>4, <1>5, <1>6, <1>7, <1>8, <1>9

LEMMA KillKeeps == ASSUME IInv, NEW s \in Slots, NEW n, kill(s, n) PROVE IInv'
<1> DEFINE hit == {t \in Slots : pid[t] = n}
           v == First(hit)
<1> USE SlotFacts DEF IInv, TypeOK
<1>1. /\ state[s] = "RUNNING" /\ pc[s] = "call"
      /\ pc' = [pc EXCEPT ![s] = "user"]
      /\ UNCHANGED <<pid, parent, chan, mem, nextpid, np, panicked>>
  BY DEF kill, Running
<1>2. CASE hit # {}
  <2>1. killed' = [killed EXCEPT ![v] = TRUE] /\ state' = kill_wakes(v)
    BY <1>2 DEF kill
  <2>2. v \in Slots
    BY <1>2, FirstIn
  <2> HIDE DEF v
  <2>3. /\ state' \in [Slots -> States]
        /\ state'[v] # "SLEEPING"
        /\ \A t \in Slots : \/ state'[t] = state[t]
                            \/ state'[t] = "RUNNABLE" /\ state[t] = "SLEEPING"
    BY <2>1, <2>2 DEF kill_wakes, States
  <2> USE <1>1
  <2>4. TypeOK' BY <2>1, <2>2, <2>3 DEF PCs
  <2>5. Embryos' BY <2>3 DEF Embryos, Forking
  <2>6. Memory' BY <2>3 DEF Memory
  <2>7. InitAlive' BY <2>3 DEF InitAlive, Alive
  <2>8. NoStaleParent' BY <2>3 DEF NoStaleParent
  <2>9. ParentAlive' BY <2>3 DEF ParentAlive
  <2>10. NoMissedExit'
    <3> SUFFICES ASSUME NEW t \in Slots, state'[t] = "SLEEPING", chan[t] = t
                 PROVE  Children(t)' # {} /\ Zombies(t)' = {} /\ ~killed'[t]
      BY DEF NoMissedExit
    <3>1. t # v /\ state[t] = "SLEEPING"
      BY <2>3
    <3>2. Children(t) # {} /\ Zombies(t) = {} /\ ~killed[t]
      BY <3>1 DEF NoMissedExit
    <3>3. ~killed'[t]
      BY <2>1, <2>2, <3>1, <3>2
    <3>4. Children(t)' = Children(t)
      BY DEF Children
    <3> QED BY <2>3, <3>2, <3>3, <3>4 DEF Zombies, Children
  <2> QED BY <2>4, <2>5, <2>6, <2>7, <2>8, <2>9, <2>10
<1>3. CASE hit = {}
  <2>1. UNCHANGED <<killed, state>>
    BY <1>3 DEF kill
  <2> USE <1>1, <2>1
  <2>2. TypeOK' BY DEF States, PCs
  <2>3. Embryos' BY DEF Embryos, Forking
  <2>4. Memory' BY DEF Memory
  <2>5. InitAlive' BY DEF InitAlive, Alive
  <2>6. NoStaleParent' BY DEF NoStaleParent
  <2>7. ParentAlive' BY DEF ParentAlive
  <2>8. NoMissedExit' BY DEF NoMissedExit, Children, Zombies
  <2> QED BY <2>2, <2>3, <2>4, <2>5, <2>6, <2>7, <2>8
<1> QED BY <1>2, <1>3
-----------------------------------------------------------------------------
(* The theorems.                                                           *)

LEMMA NextKeeps == IInv /\ [Next]_vars => IInv'
<1> SUFFICES ASSUME IInv, [Next]_vars PROVE IInv' OBVIOUS
<1>1. ASSUME NEW s \in Slots, Step(s) PROVE IInv'
  BY <1>1, SyscallKeeps, AllocprocKeeps, KallocKeeps, CopyuvmKeeps,
     ForkReadyKeeps, ExitKeeps, ExitZombieKeeps, WaitKeeps, SysSleepKeeps,
     SleepKeeps, KillKeeps DEF Step
<1>2. CASE Next
  BY <1>1, <1>2, WakeupKeeps, DispatchKeeps, YieldKeeps DEF Next
<1>3. CASE UNCHANGED vars
  BY <1>3 DEF vars, IInv, TypeOK, Embryos, Memory, InitAlive, NoStaleParent,
     ParentAlive, NoMissedExit, Children, Zombies
<1> QED BY <1>2, <1>3

\* Types, embryos and their memory, init and the families of processes stay
\* as IInv says, in every process table.
THEOREM Invariance == Spec => []IInv
BY InitIInv, NextKeeps, PTL DEF Spec

\* exit() leaves no child with a parent that cannot wait() for it.
THEOREM ParentsCanWait == Spec => []ParentAlive
<1>1. IInv => ParentAlive BY DEF IInv
<1> QED BY <1>1, Invariance, PTL

\* No process sleeps in wait() past an exit() of a child or a kill().
THEOREM ExitsSeen == Spec => []NoMissedExit
<1>1. IInv => NoMissedExit BY DEF IInv
<1> QED BY <1>1, Invariance, PTL

\* Stacks and page tables are freed once and kept while in use, and nobody
\* takes an embryo from the fork() that made it.
THEOREM MemoryIsOwned == Spec => []MemoryOwned
<1>1. ASSUME IInv PROVE MemoryOwned
  <2> SUFFICES ASSUME NEW c \in Slots, state[c] = "EMBRYO"
               PROVE  \E s \in Slots :
                        /\ np[s] = c /\ pc[s] \in Forking
                        /\ state[s] \in {"RUNNING", "RUNNABLE"}
                        /\ \A t \in Slots \ {s} : np[t] # c
    BY <1>1 DEF IInv, Memory, MemoryOwned, Forking, Both
  <2>1. PICK s \in Slots : np[s] = c
    BY <1>1 DEF IInv, Embryos
  <2>2. pc[s] \in Forking
    BY <1>1, <2>1, SlotFacts DEF IInv, Embryos
  <2> QED BY <1>1, <2>1, <2>2, SlotFacts DEF IInv, Embryos
<1> QED BY <1>1, Invariance, PTL
=============================================================================
