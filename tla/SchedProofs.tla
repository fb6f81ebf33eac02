----------------------------- MODULE SchedProofs -----------------------------
(***************************************************************************)
(* Proofs about Sched, for any number of slots and CPUs and any width of   *)
(* the tick counters.                                                      *)
(*                                                                         *)
(* leave() puts the process it takes off the CPU into its new state,       *)
(* charges it and goes on with scan(), all in one step.  The parts of the  *)
(* invariant that scan() has to keep therefore say of which states (st)    *)
(* and which charges (ch) they hold.                                       *)
(*                                                                         *)
(* The second part is about LockOrder: for any number of CPUs sched() is   *)
(* entered with ptable.lock alone, and no CPU spins for a lock of its own. *)
(***************************************************************************)
EXTENDS Sched, LockOrder, Arithmetic

\* A CPU's process is running, and on that CPU only.
Running ==
  /\ \A c \in CPUs : proc[c] # 0 => state[proc[c]] = "RUNNING"
  /\ \A c, d \in CPUs : proc[c] # 0 /\ proc[c] = proc[d] => c = d

\* TicksConserved.
Sums(st, ch) ==
  \A p \in Slots : st[p] # "UNUSED" =>
    (ch[p][LOW_PRI] + ch[p][HIGH_PRI]
       + (IF st[p] = "RUNNING" THEN ticks - sched_time[p] ELSE 0)) % TickMod
      = (spent[p][LOW_PRI] + spent[p][HIGH_PRI]) % TickMod

\* TicksByPriority, with what is true of a process while it runs: the ticks of
\* its turn belong to its priority, and there are none in a fresh turn.
Split(st, ch) ==
  \A p \in Slots : st[p] # "UNUSED" /\ turn[p] # "moved" =>
    IF st[p] = "RUNNING"
    THEN /\ \A v \in Pris :
              spent[p][v] = (ch[p][v] + (IF v = pri[p] THEN ticks - sched_time[p] ELSE 0))
                              % TickMod
         /\ turn[p] = "fresh" => ticks = sched_time[p]
    ELSE ch[p] = spent[p]

\* p waits at high priority.
Waits(st, p) == st[p] = "RUNNABLE" /\ pri[p] = HIGH_PRI

\* How many slots CPU c can still come to, without p's, in a pass at LOW_PRI
\* that has come to slot i.
Ahead(i, p) == (NPROC - i) - (IF p > i THEN 1 ELSE 0)

\* What a pass at low priority may still do is within the bound.
Overtaking ==
  \A p \in Slots, c \in CPUs :
    /\ ~Waits(state, p) => overtaken[p][c] = 0
    /\ overtaken[p][c] <= NPROC - 2
    /\ Waits(state, p) /\ proc[c] # 0 /\ search_pri[c] = LOW_PRI =>
         overtaken[p][c] + Ahead(proc[c], p) <= NPROC - 2

\* The inductive invariant.
IInv ==
  /\ TypeOK /\ Running
  /\ Sums(state, charged) /\ Split(state, charged)
  /\ Overtaking
-----------------------------------------------------------------------------
LEMMA Sizes ==
  /\ NPROC \in Nat /\ NPROC >= 2 /\ NCPU \in Nat \ {0} /\ TickMod \in Nat \ {0}
  /\ Slots \subseteq Nat \ {0} /\ 1 \in Slots /\ 0 \in CPUs
  /\ \A p \in Slots : p >= 1 /\ p <= NPROC
  /\ 0 \in 0..(TickMod - 1)
BY SchedAssumption DEF Slots, CPUs

LEMMA FirstIn ==
  ASSUME NEW S \in SUBSET Nat, S # {}
  PROVE  First(S) \in S
<1>1. \E x \in S : \A y \in S : x <= y
  BY LeastExists
<1> QED BY <1>1 DEF First

LEMMA BumpIn ==
  ASSUME NEW n \in Int
  PROVE  Bump(n) \in 0..(TickMod - 1)
<1>1. n + 1 \in Int
  OBVIOUS
<1> QED BY <1>1, Sizes, DivMod DEF Bump

\* Nobody is overtaken that has just become runnable: CPU c has passed a slot,
\* and it is not p's.
LEMMA AheadBound ==
  ASSUME NEW p \in Slots, NEW q \in Slots, p # q
  PROVE  Ahead(q, p) \in Int /\ Ahead(q, p) <= NPROC - 2
BY Sizes DEF Ahead

\* A dispatch at slot q uses up one of the slots ahead.
LEMMA AheadStep ==
  ASSUME NEW i \in Slots, NEW q \in Slots, NEW p \in Slots, q > i, p # q, p # i,
         NEW n \in Nat, n + Ahead(i, p) <= NPROC - 2
  PROVE  (n + 1) + Ahead(q, p) <= NPROC - 2 /\ n + 1 <= NPROC - 2
BY Sizes DEF Ahead

LEMMA InitIInv == Init => IInv
<1> SUFFICES ASSUME Init PROVE IInv
  OBVIOUS
<1> USE Sizes DEF Init
<1>1. TypeOK
  BY DEF TypeOK, States, Pris, NoTicks, Turns, LOW_PRI, HIGH_PRI
<1>2. Running
  BY DEF Running
<1>3. Sums(state, charged)
  BY DEF Sums, NoTicks, Pris, LOW_PRI, HIGH_PRI
<1>4. Split(state, charged)
  BY DEF Split
<1>5. Overtaking
  BY DEF Overtaking, Waits
<1> QED BY <1>1, <1>2, <1>3, <1>4, <1>5 DEF IInv
-----------------------------------------------------------------------------
(* scheduler()                                                             *)

\* The two ends of a scan: it runs process q, or its pass is over.
Dispatches(c, from, v, st, q) ==
  /\ q >= from /\ st[q] = "RUNNABLE" /\ pri[q] = v
  /\ state' = [st EXCEPT ![q] = "RUNNING"]
  /\ proc' = [proc EXCEPT ![c] = q]
  /\ search_pri' = [search_pri EXCEPT ![c] = v]
  /\ sched_time' = [sched_time EXCEPT ![q] = ticks]
  /\ turn' = [turn EXCEPT ![q] = IF turn[q] = "moved" THEN "moved" ELSE "fresh"]
  /\ overtaken' = Overtake(c, [st EXCEPT ![q] = "RUNNING"], v)

Ends(c, st) ==
  /\ state' = st
  /\ proc' = [proc EXCEPT ![c] = 0]
  /\ search_pri' = [search_pri EXCEPT ![c] = LOW_PRI]
  /\ UNCHANGED <<sched_time, turn>>
  /\ overtaken' = Overtake(c, st, HIGH_PRI)

LEMMA ScanCases ==
  ASSUME TypeOK, NEW c, NEW from \in Nat \ {0}, NEW v, NEW st, scan(c, from, v, st)
  PROVE  (\E q \in Slots : Dispatches(c, from, v, st, q)) \/ Ends(c, st)
<1> DEFINE next == Eligible(st, v, from)
           q == First(next)
<1>1. CASE next = {}
  BY <1>1 DEF scan, Ends
<1>2. CASE next # {}
  <2>1. next \subseteq Nat
    BY Sizes DEF Eligible
  <2>2. q \in next
    BY <1>2, <2>1, FirstIn
  <2>3. q \in Slots /\ q >= from /\ st[q] = "RUNNABLE" /\ pri[q] = v
    BY <2>2, Sizes DEF Eligible, Slots
  <2>4. Dispatches(c, from, v, st, q)
    BY <1>2, <2>3 DEF scan, Dispatches, stamp
  <2> QED BY <2>3, <2>4
<1> QED BY <1>1, <1>2

LEMMA OvertakeType ==
  ASSUME TypeOK, NEW c, NEW st, NEW v
  PROVE  Overtake(c, st, v) \in [Slots -> [CPUs -> Nat]]
BY DEF Overtake, TypeOK

\* A scan keeps what st and the new charges have, and gives the CPU to a
\* process that no CPU has.
LEMMA ScanKeeps ==
  ASSUME TypeOK, NEW c \in CPUs, NEW from \in Nat \ {0}, NEW v \in Pris,
         NEW st \in [Slots -> States], scan(c, from, v, st),
         UNCHANGED <<pri, ticks, spent>>, intr' \in BOOLEAN,
         charged' \in [Slots -> [Pris -> 0..(TickMod - 1)]],
         \A d \in CPUs \ {c} : proc[d] # 0 => st[proc[d]] = "RUNNING",
         \A d, e \in CPUs : proc[d] # 0 /\ proc[d] = proc[e] => d = e,
         Sums(st, charged'), Split(st, charged')
  PROVE  TypeOK' /\ Running' /\ Sums(state, charged)' /\ Split(state, charged)'
<1> USE Sizes
<1>1. ASSUME NEW q \in Slots, Dispatches(c, from, v, st, q)
      PROVE  TypeOK' /\ Running' /\ Sums(state, charged)' /\ Split(state, charged)'
  <2> USE <1>1 DEF Dispatches
  <2>1. TypeOK'
    <3>1. state' \in [Slots -> States] /\ turn' \in [Slots -> Turns]
      BY DEF TypeOK, States, Turns
    <3>2. /\ proc' \in [CPUs -> {0} \cup Slots] /\ search_pri' \in [CPUs -> Pris]
          /\ sched_time' \in [Slots -> 0..(TickMod - 1)]
      BY DEF TypeOK
    <3>3. overtaken' \in [Slots -> [CPUs -> Nat]]
      BY OvertakeType
    <3> QED BY <3>1, <3>2, <3>3 DEF TypeOK
  <2>2. Running'
    <3>1. \A d \in CPUs \ {c} : proc[d] # q
      OBVIOUS
    <3> QED BY <3>1 DEF Running, TypeOK
  <2>3. Sums(state, charged)'
    <3> SUFFICES ASSUME NEW p \in Slots, state'[p] # "UNUSED"
                 PROVE  (charged'[p][LOW_PRI] + charged'[p][HIGH_PRI]
                          + (IF state'[p] = "RUNNING" THEN ticks' - sched_time'[p] ELSE 0))
                            % TickMod
                          = (spent'[p][LOW_PRI] + spent'[p][HIGH_PRI]) % TickMod
      BY DEF Sums
    <3>1. CASE p = q
      <4>1. state'[p] = "RUNNING" /\ ticks' - sched_time'[p] = 0 /\ st[p] = "RUNNABLE"
        BY <3>1 DEF TypeOK
      <4> QED BY <3>1, <4>1 DEF Sums
    <3>2. CASE p # q
      <4>1. state'[p] = st[p] /\ sched_time'[p] = sched_time[p]
        BY <3>2 DEF TypeOK
      <4> QED BY <3>2, <4>1 DEF Sums
    <3> QED BY <3>1, <3>2
  <2>4. Split(state, charged)'
    <3> SUFFICES ASSUME NEW p \in Slots, state'[p] # "UNUSED", turn'[p] # "moved"
                 PROVE  IF state'[p] = "RUNNING"
                        THEN /\ \A u \in Pris :
                                  spent'[p][u] =
                                    (charged'[p][u] + (IF u = pri'[p] THEN ticks' - sched_time'[p]
                                                                      ELSE 0)) % TickMod
                             /\ turn'[p] = "fresh" => ticks' = sched_time'[p]
                        ELSE charged'[p] = spent'[p]
      BY DEF Split
    <3>1. CASE p = q
      <4>1. /\ state'[p] = "RUNNING" /\ sched_time'[p] = ticks /\ ticks - ticks = 0
            /\ st[p] = "RUNNABLE" /\ turn[p] # "moved"
        BY <3>1 DEF TypeOK
      <4>2. charged'[p] = spent[p]
        BY <4>1 DEF Split
      <4>3. ASSUME NEW u \in Pris PROVE spent[p][u] = (charged'[p][u] + 0) % TickMod
        <5>1. charged'[p][u] \in 0..(TickMod - 1) /\ charged'[p][u] \in Int
          OBVIOUS
        <5>2. charged'[p][u] % TickMod = charged'[p][u]
          BY <5>1, ModNear
        <5> QED BY <4>2, <5>1, <5>2
      <4> QED BY <4>1, <4>3
    <3>2. CASE p # q
      <4>1. state'[p] = st[p] /\ sched_time'[p] = sched_time[p] /\ turn'[p] = turn[p]
        BY <3>2 DEF TypeOK
      <4> QED BY <4>1 DEF Split
    <3> QED BY <3>1, <3>2
  <2> QED BY <2>1, <2>2, <2>3, <2>4
<1>2. CASE Ends(c, st)
  <2> USE <1>2 DEF Ends
  <2>1. TypeOK'
    <3>1. overtaken' \in [Slots -> [CPUs -> Nat]]
      BY OvertakeType
    <3> QED BY <3>1 DEF TypeOK, Pris
  <2>2. Running'
    BY DEF Running, TypeOK
  <2>3. Sums(state, charged)'
    BY DEF Sums
  <2>4. Split(state, charged)'
    BY DEF Split
  <2> QED BY <2>1, <2>2, <2>3, <2>4
<1> QED BY <1>1, <1>2, ScanCases

\* At high priority nobody is overtaken; at low priority those that wait have
\* room for another dispatch behind slot from - 1.
LEMMA ScanOvertakes ==
  ASSUME TypeOK, NEW c \in CPUs, NEW from \in Nat \ {0}, NEW v \in Pris,
         NEW st \in [Slots -> States], scan(c, from, v, st), UNCHANGED pri,
         \A p \in Slots, d \in CPUs : Waits(st, p) => overtaken[p][d] <= NPROC - 2,
         \A p \in Slots, d \in CPUs \ {c} :
           Waits(st, p) /\ proc[d] # 0 /\ search_pri[d] = LOW_PRI =>
             overtaken[p][d] + Ahead(proc[d], p) <= NPROC - 2,
         \A p \in Slots : v = LOW_PRI /\ Waits(st, p) =>
           /\ from - 1 \in Slots /\ p # from - 1
           /\ overtaken[p][c] + Ahead(from - 1, p) <= NPROC - 2
  PROVE  Overtaking'
<1> USE Sizes
<1>1. ASSUME NEW q \in Slots, Dispatches(c, from, v, st, q)
      PROVE  Overtaking'
  <2> SUFFICES ASSUME NEW p \in Slots, NEW d \in CPUs
               PROVE  /\ ~Waits(state, p)' => overtaken'[p][d] = 0
                      /\ overtaken'[p][d] <= NPROC - 2
                      /\ Waits(state, p)' /\ proc'[d] # 0 /\ search_pri'[d] = LOW_PRI =>
                           overtaken'[p][d] + Ahead(proc'[d], p) <= NPROC - 2
    BY DEF Overtaking, Waits, Ahead
  <2>1. /\ proc'[d] = (IF d = c THEN q ELSE proc[d])
        /\ search_pri'[d] = (IF d = c THEN v ELSE search_pri[d])
        /\ Waits(state, p)' <=> p # q /\ Waits(st, p)
        /\ overtaken'[p][d] = (IF Waits(state, p)'
                               THEN overtaken[p][d] + (IF d = c /\ v = LOW_PRI THEN 1 ELSE 0)
                               ELSE 0)
    BY <1>1 DEF Dispatches, Overtake, Waits, TypeOK
  <2>2. overtaken[p][d] \in Nat /\ q >= from
    BY <1>1 DEF TypeOK, Dispatches
  <2>3. CASE ~Waits(state, p)'
    BY <2>1, <2>3
  <2>4. CASE Waits(state, p)' /\ d = c /\ v = LOW_PRI
    <3>0. p # q /\ Waits(st, p)
      BY <2>1, <2>4
    <3>1. /\ from - 1 \in Slots /\ p # from - 1
          /\ overtaken[p][c] + Ahead(from - 1, p) <= NPROC - 2
      BY <2>4, <3>0
    <3>2. q > from - 1 /\ overtaken[p][c] \in Nat
      BY <2>2, <2>4
    <3>3. /\ (overtaken[p][c] + 1) + Ahead(q, p) <= NPROC - 2
          /\ overtaken[p][c] + 1 <= NPROC - 2
      BY <3>0, <3>1, <3>2, AheadStep
    <3> QED BY <2>1, <2>4, <3>3
  <2>5. CASE Waits(state, p)' /\ (d # c \/ v # LOW_PRI)
    <3>1. overtaken'[p][d] = overtaken[p][d] /\ Waits(st, p)
      BY <2>1, <2>2, <2>5
    <3> QED BY <2>1, <2>5, <3>1
  <2> QED BY <2>3, <2>4, <2>5
<1>2. CASE Ends(c, st)
  <2> SUFFICES ASSUME NEW p \in Slots, NEW d \in CPUs
               PROVE  /\ ~Waits(state, p)' => overtaken'[p][d] = 0
                      /\ overtaken'[p][d] <= NPROC - 2
                      /\ Waits(state, p)' /\ proc'[d] # 0 /\ search_pri'[d] = LOW_PRI =>
                           overtaken'[p][d] + Ahead(proc'[d], p) <= NPROC - 2
    BY DEF Overtaking, Waits, Ahead
  <2>1. /\ proc'[d] = (IF d = c THEN 0 ELSE proc[d])
        /\ d # c => search_pri'[d] = search_pri[d]
        /\ Waits(state, p)' <=> Waits(st, p)
        /\ overtaken'[p][d] = (IF Waits(st, p) THEN overtaken[p][d] ELSE 0)
    BY <1>2 DEF Ends, Overtake, Waits, TypeOK, LOW_PRI, HIGH_PRI
  <2>2. CASE ~Waits(st, p)
    BY <2>1, <2>2
  <2>3. CASE Waits(st, p)
    <3>1. overtaken[p][d] <= NPROC - 2
      BY <2>3
    <3> QED BY <2>1, <2>3, <3>1
  <2> QED BY <2>2, <2>3
<1> QED BY <1>1, <1>2, ScanCases

\* A new pass is at low priority only if nobody waits at high priority.
LEMMA PassKeeps ==
  ASSUME IInv, NEW c \in CPUs, pass(c)
  PROVE  IInv'
<1> USE Sizes DEF IInv
<1> DEFINE v == TopPri(state)
<1>1. /\ proc[c] = 0 /\ scan(c, 1, v, state)
      /\ UNCHANGED <<pri, ticks, charged, intr, spent>>
  BY DEF pass
<1>2. v \in Pris /\ (v = LOW_PRI => \A p \in Slots : ~Waits(state, p))
  BY DEF TopPri, Pris, Waits, LOW_PRI, HIGH_PRI
<1> HIDE DEF v
<1>3. state \in [Slots -> States] /\ charged \in [Slots -> [Pris -> 0..(TickMod - 1)]]
      /\ intr \in BOOLEAN /\ 1 \in Nat \ {0}
  BY DEF TypeOK
<1>4. Sums(state, charged') /\ Split(state, charged')
  BY <1>1
<1>5. TypeOK' /\ Running' /\ Sums(state, charged)' /\ Split(state, charged)'
  BY <1>1, <1>2, <1>3, <1>4, ScanKeeps DEF Running
<1>6. Overtaking'
  <2>1. \A p \in Slots, d \in CPUs : overtaken[p][d] <= NPROC - 2
    BY DEF Overtaking
  <2>2. \A p \in Slots, d \in CPUs :
          Waits(state, p) /\ proc[d] # 0 /\ search_pri[d] = LOW_PRI =>
            overtaken[p][d] + Ahead(proc[d], p) <= NPROC - 2
    BY DEF Overtaking
  <2> QED BY <1>1, <1>2, <1>3, <2>1, <2>2, ScanOvertakes
<1> QED BY <1>5, <1>6

\* charge() moves the ticks of the turn to the counter of p's priority.
LEMMA ChargeType ==
  ASSUME TypeOK, NEW p \in Slots
  PROVE  /\ charge(p) \in [Slots -> [Pris -> 0..(TickMod - 1)]]
         /\ \A q \in Slots : q # p => charge(p)[q] = charged[q]
         /\ \A u \in Pris : u # pri[p] => charge(p)[p][u] = charged[p][u]
         /\ charge(p)[p][pri[p]] =
              (charged[p][pri[p]] + (ticks - sched_time[p])) % TickMod
<1> DEFINE x == charged[p][pri[p]] + ticks - sched_time[p]
<1>1. /\ pri[p] \in Pris /\ charged[p] \in [Pris -> 0..(TickMod - 1)]
      /\ charged[p][pri[p]] \in Int /\ ticks \in Int /\ sched_time[p] \in Int
  BY Sizes DEF TypeOK
<1>2. x \in Int /\ x = charged[p][pri[p]] + (ticks - sched_time[p])
  BY <1>1
<1>3. x % TickMod \in 0..(TickMod - 1)
  BY <1>2, Sizes, DivMod
<1>4. charge(p) = [charged EXCEPT ![p] = [charged[p] EXCEPT ![pri[p]] = x % TickMod]]
  BY DEF charge
<1> HIDE DEF x
<1>5. [charged[p] EXCEPT ![pri[p]] = x % TickMod] \in [Pris -> 0..(TickMod - 1)]
  BY <1>1, <1>3
<1> QED BY <1>1, <1>2, <1>4, <1>5 DEF TypeOK

\* The process that leaves is charged what it ran.
LEMMA ChargeKeeps ==
  ASSUME IInv, NEW p \in Slots, state[p] = "RUNNING",
         NEW s \in {"RUNNABLE", "SLEEPING", "ZOMBIE"}
  PROVE  /\ Sums([state EXCEPT ![p] = s], charge(p))
         /\ Split([state EXCEPT ![p] = s], charge(p))
<1> USE Sizes DEF IInv
<1> DEFINE st == [state EXCEPT ![p] = s]
           ch == charge(p)
<1>1. \A q \in Slots : q # p => st[q] = state[q] /\ ch[q] = charged[q]
  BY ChargeType DEF TypeOK
<1>2. st[p] = s /\ s # "RUNNING"
  BY DEF TypeOK
<1>3. /\ pri[p] \in Pris /\ ticks - sched_time[p] \in Int
      /\ \A u \in Pris : charged[p][u] \in 0..(TickMod - 1) /\ charged[p][u] \in Int
      /\ spent[p] \in [Pris -> 0..(TickMod - 1)] /\ ch[p] \in [Pris -> 0..(TickMod - 1)]
  BY ChargeType DEF TypeOK
<1> DEFINE t == ticks - sched_time[p]
           a == charged[p][LOW_PRI]
           b == charged[p][HIGH_PRI]
<1>4. /\ ch[p][pri[p]] = (charged[p][pri[p]] + t) % TickMod
      /\ \A u \in Pris : u # pri[p] => ch[p][u] = charged[p][u]
  BY ChargeType
<1>5. t \in Int /\ a \in Int /\ b \in Int /\ LOW_PRI \in Pris /\ HIGH_PRI \in Pris
  BY <1>3 DEF Pris
<1> HIDE DEF st, ch, t
<1>6. Sums(st, ch)
  <2>1. (ch[p][LOW_PRI] + ch[p][HIGH_PRI] + 0) % TickMod = (a + b + t) % TickMod
    <3>1. CASE pri[p] = LOW_PRI
      <4>1. ch[p][LOW_PRI] = (a + t) % TickMod /\ ch[p][HIGH_PRI] = b
        BY <1>4, <3>1 DEF Pris, LOW_PRI, HIGH_PRI
      <4>2. a + t \in Int
        BY <1>5
      <4>3. (((a + t) % TickMod) + b) % TickMod = ((a + t) + b) % TickMod
        BY <1>5, <4>2, ModPlus
      <4>4. ((a + t) % TickMod) + b = ((a + t) % TickMod) + b + 0
        <5>1. (a + t) % TickMod \in 0..(TickMod - 1)
          BY <4>2, DivMod
        <5> QED BY <1>5, <5>1
      <4>5. (a + t) + b = a + b + t
        BY <1>5
      <4> QED BY <4>1, <4>3, <4>4, <4>5
    <3>2. CASE pri[p] = HIGH_PRI
      <4>1. ch[p][HIGH_PRI] = (b + t) % TickMod /\ ch[p][LOW_PRI] = a
        BY <1>4, <3>2 DEF Pris, LOW_PRI, HIGH_PRI
      <4>2. b + t \in Int
        BY <1>5
      <4>3. (((b + t) % TickMod) + a) % TickMod = ((b + t) + a) % TickMod
        BY <1>5, <4>2, ModPlus
      <4>4. ((b + t) % TickMod) + a = a + ((b + t) % TickMod) + 0
        <5>1. (b + t) % TickMod \in 0..(TickMod - 1)
          BY <4>2, DivMod
        <5> QED BY <1>5, <5>1
      <4>5. (b + t) + a = a + b + t
        BY <1>5
      <4> QED BY <4>1, <4>3, <4>4, <4>5
    <3> QED BY <1>3, <3>1, <3>2 DEF Pris
  <2>2. (a + b + t) % TickMod = (spent[p][LOW_PRI] + spent[p][HIGH_PRI]) % TickMod
    BY DEF Sums, t
  <2>3. ASSUME NEW q \in Slots, st[q] # "UNUSED"
        PROVE  (ch[q][LOW_PRI] + ch[q][HIGH_PRI]
                  + (IF st[q] = "RUNNING" THEN ticks - sched_time[q] ELSE 0)) % TickMod
                 = (spent[q][LOW_PRI] + spent[q][HIGH_PRI]) % TickMod
    <3>1. CASE q = p
      BY <1>2, <2>1, <2>2, <3>1
    <3>2. CASE q # p
      BY <1>1, <2>3, <3>2 DEF Sums
    <3> QED BY <3>1, <3>2
  <2> QED BY <2>3 DEF Sums
<1>7. Split(st, ch)
  <2>1. ASSUME turn[p] # "moved" PROVE ch[p] = spent[p]
    <3>1. \A u \in Pris : spent[p][u] =
            (charged[p][u] + (IF u = pri[p] THEN t ELSE 0)) % TickMod
      BY <2>1 DEF Split, t
    <3>2. ASSUME NEW u \in Pris, u # pri[p] PROVE ch[p][u] = spent[p][u]
      <4>1. charged[p][u] \in 0..(TickMod - 1) /\ charged[p][u] \in Int
        BY <1>3, <3>2
      <4>2. charged[p][u] % TickMod = charged[p][u]
        BY <4>1, ModNear
      <4>3. charged[p][u] + 0 = charged[p][u]
        BY <4>1
      <4> QED BY <1>4, <3>1, <3>2, <4>2, <4>3
    <3>3. ch[p][pri[p]] = spent[p][pri[p]]
      BY <1>3, <1>4, <3>1
    <3> QED BY <1>3, <3>2, <3>3
  <2>2. ASSUME NEW q \in Slots, st[q] # "UNUSED", turn[q] # "moved"
        PROVE  IF st[q] = "RUNNING"
               THEN /\ \A u \in Pris :
                         spent[q][u] =
                           (ch[q][u] + (IF u = pri[q] THEN ticks - sched_time[q] ELSE 0))
                              % TickMod
                    /\ turn[q] = "fresh" => ticks = sched_time[q]
               ELSE ch[q] = spent[q]
    <3>1. CASE q = p
      BY <1>2, <2>1, <2>2, <3>1
    <3>2. CASE q # p
      BY <1>1, <2>2, <3>2 DEF Split
    <3> QED BY <3>1, <3>2
  <2> QED BY <2>2 DEF Split
<1> QED BY <1>6, <1>7 DEF st, ch

LEMMA LeaveKeeps ==
  ASSUME IInv, NEW c \in CPUs, NEW s \in {"RUNNABLE", "SLEEPING", "ZOMBIE"}, leave(c, s)
  PROVE  IInv'
<1> USE Sizes DEF IInv
<1> DEFINE p == proc[c]
           st == [state EXCEPT ![p] = s]
           v == IF s # "ZOMBIE" /\ pri[p] > search_pri[c] THEN pri[p] ELSE search_pri[c]
<1>1. /\ p # 0 /\ charged' = charge(p) /\ scan(c, p + 1, v, st)
      /\ intr' = (intr /\ c # 0) /\ UNCHANGED <<pri, ticks, spent>>
  BY DEF leave, Following
<1>2. p \in Slots /\ state[p] = "RUNNING" /\ p + 1 \in Nat \ {0} /\ (p + 1) - 1 = p
  <2>1. p \in Slots /\ state[p] = "RUNNING"
    BY <1>1 DEF TypeOK, Running
  <2> HIDE DEF p
  <2> QED BY <2>1
<1>3. v \in Pris /\ st \in [Slots -> States]
  BY <1>2 DEF TypeOK, States
<1>4. intr' \in BOOLEAN
  BY <1>1 DEF TypeOK
<1>5. Sums(st, charged') /\ Split(st, charged') /\ charged' \in [Slots -> [Pris -> 0..(TickMod - 1)]]
  BY <1>1, <1>2, ChargeKeeps, ChargeType
<1>6. \A d \in CPUs \ {c} : proc[d] # 0 => proc[d] # p /\ st[proc[d]] = "RUNNING"
  BY <1>1, <1>2 DEF Running, TypeOK
<1>7. TypeOK' /\ Running' /\ Sums(state, charged)' /\ Split(state, charged)'
  <2> HIDE DEF v, st, p
  <2> QED BY <1>1, <1>2, <1>3, <1>4, <1>5, <1>6, ScanKeeps DEF Running
<1>8. Overtaking'
  <2>1. \A q \in Slots, d \in CPUs : overtaken[q][d] <= NPROC - 2
    BY DEF Overtaking
  <2>2. \A q \in Slots : Waits(st, q) => (Waits(state, q) \/ q = p)
    BY <1>2 DEF Waits, TypeOK
  <2>3. \A d \in CPUs : overtaken[p][d] = 0
    BY <1>2 DEF Overtaking, Waits
  <2>4. ASSUME NEW q \in Slots, NEW d \in CPUs \ {c},
               Waits(st, q), proc[d] # 0, search_pri[d] = LOW_PRI
        PROVE  overtaken[q][d] + Ahead(proc[d], q) <= NPROC - 2
    <3>1. CASE q = p
      <4>1. proc[d] \in Slots /\ proc[d] # p
        BY <1>6, <2>4 DEF TypeOK
      <4>2. Ahead(proc[d], p) \in Int /\ Ahead(proc[d], p) <= NPROC - 2
        BY <1>2, <4>1, AheadBound
      <4> QED BY <2>3, <3>1, <4>2
    <3>2. CASE q # p
      BY <2>2, <2>4, <3>2 DEF Overtaking
    <3> QED BY <3>1, <3>2
  <2>5. ASSUME NEW q \in Slots, v = LOW_PRI, Waits(st, q)
        PROVE  p \in Slots /\ q # p /\ overtaken[q][c] + Ahead(p, q) <= NPROC - 2
    <3>1. search_pri[c] = LOW_PRI /\ (s = "RUNNABLE" => pri[p] = LOW_PRI)
      BY <1>2, <2>5 DEF TypeOK, Pris, LOW_PRI, HIGH_PRI
    <3>2. q # p
      BY <1>2, <2>5, <3>1 DEF Waits, TypeOK, LOW_PRI, HIGH_PRI
    <3> QED BY <1>1, <1>2, <2>2, <2>5, <3>1, <3>2 DEF Overtaking
  <2> HIDE DEF v, st, p
  <2>6. p + 1 \in Nat \ {0} /\ (p + 1) - 1 = p
    BY <1>2
  <2>7. \A q \in Slots : v = LOW_PRI /\ Waits(st, q) =>
          /\ (p + 1) - 1 \in Slots /\ q # (p + 1) - 1
          /\ overtaken[q][c] + Ahead((p + 1) - 1, q) <= NPROC - 2
    BY <2>5, <2>6
  <2>8. TypeOK /\ UNCHANGED pri
    BY <1>1
  <2> QED BY <1>1, <1>3, <2>1, <2>4, <2>6, <2>7, <2>8, ScanOvertakes
<1> QED BY <1>7, <1>8
-----------------------------------------------------------------------------
(* The timer interrupt and the system calls.                               *)

\* Outside the scheduler nobody stops waiting, and who begins to is on no CPU.
LEMMA OvertakingStays ==
  ASSUME TypeOK, Overtaking, UNCHANGED <<proc, search_pri, overtaken>>,
         \A p \in Slots : Waits(state, p) => Waits(state, p)',
         \A p \in Slots : Waits(state, p)' /\ ~Waits(state, p) =>
           \A c \in CPUs : proc[c] # p
  PROVE  Overtaking'
<1> SUFFICES ASSUME NEW p \in Slots, NEW c \in CPUs
             PROVE  /\ ~Waits(state, p)' => overtaken[p][c] = 0
                    /\ overtaken[p][c] <= NPROC - 2
                    /\ Waits(state, p)' /\ proc[c] # 0 /\ search_pri[c] = LOW_PRI =>
                         overtaken[p][c] + Ahead(proc[c], p) <= NPROC - 2
  BY DEF Overtaking, Ahead
<1>1. CASE Waits(state, p)
  BY <1>1 DEF Overtaking
<1>2. CASE ~Waits(state, p)
  <2>1. overtaken[p][c] = 0
    BY <1>2 DEF Overtaking
  <2>2. ASSUME Waits(state, p)', proc[c] # 0
        PROVE  overtaken[p][c] + Ahead(proc[c], p) <= NPROC - 2
    <3>1. proc[c] \in Slots /\ p # proc[c]
      BY <1>2, <2>2 DEF TypeOK
    <3>2. Ahead(proc[c], p) \in Int /\ Ahead(proc[c], p) <= NPROC - 2
      BY <3>1, AheadBound
    <3> QED BY <2>1, <3>2
  <2>3. overtaken[p][c] <= NPROC - 2
    BY <2>1, Sizes
  <2> QED BY <2>1, <2>2, <2>3
<1> QED BY <1>1, <1>2

\* Only sleepers wake.
LEMMA WakeFacts ==
  ASSUME TypeOK, Running, NEW W \in SUBSET Sleepers, state' = Wake(W),
         UNCHANGED <<pri, proc>>
  PROVE  /\ state' \in [Slots -> States]
         /\ \A p \in Slots : \/ state'[p] = state[p]
                             \/ state[p] = "SLEEPING" /\ state'[p] = "RUNNABLE"
         /\ Running'
         /\ \A p \in Slots : Waits(state, p) => Waits(state, p)'
         /\ \A p \in Slots : Waits(state, p)' /\ ~Waits(state, p) =>
              \A c \in CPUs : proc[c] # p
<1>1. state' \in [Slots -> States]
  BY DEF TypeOK, States, Wake
<1>2. \A p \in Slots : \/ state'[p] = state[p]
                       \/ state[p] = "SLEEPING" /\ state'[p] = "RUNNABLE"
  BY DEF Wake, Sleepers
<1>0. \A c \in CPUs : proc[c] # 0 => proc[c] \in Slots /\ state[proc[c]] = "RUNNING"
  BY DEF Running, TypeOK
<1>3. Running'
  <2>1. \A c \in CPUs : proc[c] # 0 => state'[proc[c]] = "RUNNING"
    BY <1>0, <1>2
  <2> QED BY <2>1 DEF Running
<1>4. \A p \in Slots : Waits(state, p) => Waits(state, p)'
  BY <1>2 DEF Waits
<1>5. \A p \in Slots : Waits(state, p)' /\ ~Waits(state, p) =>
        \A c \in CPUs : proc[c] # p
  <2>1. \A p \in Slots : Waits(state, p)' /\ ~Waits(state, p) => state[p] = "SLEEPING"
    BY <1>2 DEF Waits
  <2>2. \A p \in Slots : p # 0
    BY Sizes
  <2> QED BY <1>0, <2>1, <2>2
<1> QED BY <1>1, <1>2, <1>3, <1>4, <1>5

\* Both sides of the sum move by one for a process that runs.
LEMMA SumTicks ==
  ASSUME NEW x \in Int, NEW s \in Int, NEW y \in Int, NEW z \in Int, NEW t \in Int,
         (x + (t - s)) % TickMod = (y + z) % TickMod
  PROVE  (x + (Bump(t) - s)) % TickMod = (Bump(y) + z) % TickMod
<1> USE Sizes
<1>1. x + (t - s) \in Int /\ y + z \in Int /\ t + 1 \in Int /\ y + 1 \in Int
      /\ x - s \in Int /\ 1 \in Int
  OBVIOUS
<1>2. (((t + 1) % TickMod) + (x - s)) % TickMod = ((t + 1) + (x - s)) % TickMod
  BY <1>1, ModPlus
<1>3. (((x + (t - s)) % TickMod) + 1) % TickMod = ((x + (t - s)) + 1) % TickMod
  BY <1>1, ModPlus
<1>4. (((y + z) % TickMod) + 1) % TickMod = ((y + z) + 1) % TickMod
  BY <1>1, ModPlus
<1>5. (((y + 1) % TickMod) + z) % TickMod = ((y + 1) + z) % TickMod
  BY <1>1, ModPlus
<1>6. Bump(t) = (t + 1) % TickMod /\ Bump(t) \in Int /\ Bump(y) = (y + 1) % TickMod
  BY BumpIn DEF Bump
<1>7. /\ x + (Bump(t) - s) = Bump(t) + (x - s)
      /\ (t + 1) + (x - s) = (x + (t - s)) + 1
      /\ (y + z) + 1 = (y + 1) + z
  BY <1>6
<1> QED BY <1>2, <1>3, <1>4, <1>5, <1>6, <1>7

LEMMA TickKeeps ==
  ASSUME IInv, tick
  PROVE  IInv'
<1> USE Sizes DEF IInv
<1>1. PICK W \in SUBSET Sleepers : state' = Wake(W)
  BY DEF tick
<1>2. /\ ticks' = Bump(ticks) /\ intr' = (proc[0] # 0)
      /\ spent' = [p \in Slots |->
                     IF state[p] = "RUNNING" THEN [spent[p] EXCEPT ![pri[p]] = Bump(spent[p][pri[p]])]
                                             ELSE spent[p]]
      /\ turn' = [p \in Slots |->
                    IF state[p] = "RUNNING" /\ turn[p] = "fresh" /\ ticks' # ticks
                    THEN "ticked" ELSE turn[p]]
      /\ UNCHANGED <<pri, proc, search_pri, sched_time, charged, overtaken>>
  BY DEF tick
<1>3. /\ state' \in [Slots -> States] /\ Running'
      /\ \A p \in Slots : \/ state'[p] = state[p]
                          \/ state[p] = "SLEEPING" /\ state'[p] = "RUNNABLE"
      /\ \A p \in Slots : Waits(state, p) => Waits(state, p)'
      /\ \A p \in Slots : Waits(state, p)' /\ ~Waits(state, p) =>
           \A c \in CPUs : proc[c] # p
  BY <1>1, <1>2, WakeFacts
<1>4. ticks \in Int /\ ticks' \in 0..(TickMod - 1)
  BY <1>2, BumpIn DEF TypeOK
<1>5. spent' \in [Slots -> [Pris -> 0..(TickMod - 1)]]
  <2>1. ASSUME NEW p \in Slots
        PROVE  [spent[p] EXCEPT ![pri[p]] = Bump(spent[p][pri[p]])]
                 \in [Pris -> 0..(TickMod - 1)]
    <3>1. spent[p] \in [Pris -> 0..(TickMod - 1)] /\ spent[p][pri[p]] \in Int
      BY DEF TypeOK
    <3>2. Bump(spent[p][pri[p]]) \in 0..(TickMod - 1)
      BY <3>1, BumpIn
    <3> QED BY <3>1, <3>2
  <2> QED BY <1>2, <2>1 DEF TypeOK
<1>6. TypeOK'
  <2>1. turn' \in [Slots -> Turns]
    BY <1>2 DEF TypeOK, Turns
  <2>2. intr' \in BOOLEAN
    BY <1>2
  <2> QED BY <1>2, <1>3, <1>4, <1>5, <2>1, <2>2 DEF TypeOK
<1>7. Sums(state, charged)'
  <2> SUFFICES ASSUME NEW p \in Slots, state'[p] # "UNUSED"
               PROVE  (charged[p][LOW_PRI] + charged[p][HIGH_PRI]
                        + (IF state'[p] = "RUNNING" THEN ticks' - sched_time[p] ELSE 0))
                          % TickMod
                        = (spent'[p][LOW_PRI] + spent'[p][HIGH_PRI]) % TickMod
    BY <1>2 DEF Sums
  <2> DEFINE x == charged[p][LOW_PRI] + charged[p][HIGH_PRI]
             y == spent[p][LOW_PRI]
             z == spent[p][HIGH_PRI]
  <2>1. /\ x \in Int /\ y \in Int /\ z \in Int /\ ticks \in Int /\ sched_time[p] \in Int
        /\ pri[p] \in Pris /\ LOW_PRI # HIGH_PRI /\ spent[p] \in [Pris -> 0..(TickMod - 1)]
        /\ LOW_PRI \in Pris /\ HIGH_PRI \in Pris
    BY DEF TypeOK, Pris, LOW_PRI, HIGH_PRI
  <2>2. state[p] # "UNUSED" /\ (state'[p] = "RUNNING" <=> state[p] = "RUNNING")
    BY <1>3
  <2>3. (x + (IF state[p] = "RUNNING" THEN ticks - sched_time[p] ELSE 0)) % TickMod
          = (y + z) % TickMod
    BY <2>2 DEF Sums
  <2>4. CASE state[p] # "RUNNING"
    BY <1>2, <2>2, <2>3, <2>4
  <2>5. CASE state[p] = "RUNNING" /\ pri[p] = LOW_PRI
    <3>1. spent'[p][LOW_PRI] = Bump(y) /\ spent'[p][HIGH_PRI] = z
      BY <1>2, <2>1, <2>5
    <3> HIDE DEF x, y, z
    <3>2. (x + (ticks - sched_time[p])) % TickMod = (y + z) % TickMod
      BY <2>3, <2>5
    <3>3. (x + (Bump(ticks) - sched_time[p])) % TickMod = (Bump(y) + z) % TickMod
      BY <2>1, <3>2, SumTicks
    <3> QED BY <1>2, <2>2, <2>5, <3>1, <3>3 DEF x
  <2>6. CASE state[p] = "RUNNING" /\ pri[p] = HIGH_PRI
    <3>1. spent'[p][HIGH_PRI] = Bump(z) /\ spent'[p][LOW_PRI] = y
      BY <1>2, <2>1, <2>6
    <3>0. Bump(z) \in Int
      BY <2>1, BumpIn
    <3> HIDE DEF x, y, z
    <3>2. (x + (ticks - sched_time[p])) % TickMod = (z + y) % TickMod
      <4>1. y + z = z + y
        BY <2>1
      <4> QED BY <2>3, <2>6, <4>1
    <3>3. (x + (Bump(ticks) - sched_time[p])) % TickMod = (Bump(z) + y) % TickMod
      BY <2>1, <3>2, SumTicks
    <3>4. Bump(z) + y = y + Bump(z)
      BY <2>1, <3>0
    <3> QED BY <1>2, <2>2, <2>6, <3>1, <3>3, <3>4 DEF x
  <2> QED BY <2>1, <2>4, <2>5, <2>6 DEF Pris
<1>8. Split(state, charged)'
  <2> SUFFICES ASSUME NEW p \in Slots, state'[p] # "UNUSED", turn'[p] # "moved"
               PROVE  IF state'[p] = "RUNNING"
                      THEN /\ \A u \in Pris :
                                spent'[p][u] =
                                  (charged[p][u] + (IF u = pri[p] THEN ticks' - sched_time[p]
                                                                  ELSE 0)) % TickMod
                           /\ turn'[p] = "fresh" => ticks' = sched_time[p]
                      ELSE charged[p] = spent'[p]
    BY <1>2 DEF Split
  <2>1. state[p] # "UNUSED" /\ (state'[p] = "RUNNING" <=> state[p] = "RUNNING")
        /\ turn[p] # "moved"
    BY <1>2, <1>3
  <2>2. CASE state[p] # "RUNNING"
    BY <1>2, <2>1, <2>2 DEF Split
  <2>3. CASE state[p] = "RUNNING"
    <3>1. /\ \A u \in Pris : spent[p][u] =
               (charged[p][u] + (IF u = pri[p] THEN ticks - sched_time[p] ELSE 0)) % TickMod
          /\ turn[p] = "fresh" => ticks = sched_time[p]
      BY <2>1, <2>3 DEF Split
    <3>2. turn'[p] = "fresh" => ticks' = sched_time[p]
      BY <1>2, <2>3, <3>1
    <3>3. pri[p] \in Pris /\ spent[p] \in [Pris -> 0..(TickMod - 1)]
          /\ sched_time[p] \in Int /\ \A u \in Pris : charged[p][u] \in Int
      BY DEF TypeOK
    <3>4. ASSUME NEW u \in Pris, u # pri[p]
          PROVE  spent'[p][u] = (charged[p][u] + 0) % TickMod
      BY <1>2, <2>3, <3>1, <3>3, <3>4
    <3> DEFINE x == charged[p][pri[p]]
               y == spent[p][pri[p]]
    <3>5. spent'[p][pri[p]] = Bump(y)
      BY <1>2, <2>3, <3>3
    <3>6. x \in Int /\ y \in 0..(TickMod - 1) /\ y \in Int /\ ticks \in Int /\ 0 \in Int
      BY <1>4, <3>3
    <3>7. (x + (ticks - sched_time[p])) % TickMod = y
      BY <3>1, <3>3
    <3> HIDE DEF x, y
    <3>8. y % TickMod = y /\ y + 0 = y
      BY <3>6, ModNear
    <3>9. (x + (Bump(ticks) - sched_time[p])) % TickMod = (Bump(y) + 0) % TickMod
      <4>1. (x + (ticks - sched_time[p])) % TickMod = (y + 0) % TickMod
        BY <3>7, <3>8
      <4> QED BY <3>3, <3>6, <4>1, SumTicks
    <3>10. (Bump(y) + 0) % TickMod = Bump(y)
      <4>1. Bump(y) \in 0..(TickMod - 1) /\ Bump(y) \in Int
        BY <3>6, BumpIn
      <4>2. Bump(y) % TickMod = Bump(y)
        BY <4>1, ModNear
      <4>3. Bump(y) + 0 = Bump(y)
        BY <4>1
      <4> QED BY <4>2, <4>3
    <3>11. spent'[p][pri[p]] = (charged[p][pri[p]] + (ticks' - sched_time[p])) % TickMod
      BY <1>2, <3>5, <3>9, <3>10 DEF x
    <3> QED BY <2>1, <2>3, <3>2, <3>4, <3>11
  <2> QED BY <2>2, <2>3
<1>9. Overtaking'
  BY <1>2, <1>3, OvertakingStays
<1> QED BY <1>3, <1>6, <1>7, <1>8, <1>9

LEMMA WakeupKeeps ==
  ASSUME IInv, wakeup
  PROVE  IInv'
<1> USE DEF IInv
<1>1. PICK W \in SUBSET Sleepers : state' = Wake(W)
  BY DEF wakeup
<1>2. UNCHANGED <<pri, proc, search_pri, ticks, sched_time, charged, intr,
                  spent, turn, overtaken>>
  BY DEF wakeup
<1>3. /\ state' \in [Slots -> States] /\ Running'
      /\ \A p \in Slots : \/ state'[p] = state[p]
                          \/ state[p] = "SLEEPING" /\ state'[p] = "RUNNABLE"
      /\ \A p \in Slots : Waits(state, p) => Waits(state, p)'
      /\ \A p \in Slots : Waits(state, p)' /\ ~Waits(state, p) =>
           \A c \in CPUs : proc[c] # p
  BY <1>1, <1>2, WakeFacts
<1>4. TypeOK'
  <2>1. intr' \in BOOLEAN
    BY <1>2 DEF TypeOK
  <2> QED BY <1>2, <1>3, <2>1 DEF TypeOK
<1>5. \A p \in Slots : /\ state'[p] # "UNUSED" => state[p] # "UNUSED"
                       /\ state'[p] = "RUNNING" <=> state[p] = "RUNNING"
  BY <1>3
<1>6. Sums(state, charged)'
  BY <1>2, <1>5 DEF Sums
<1>7. Split(state, charged)'
  BY <1>2, <1>5 DEF Split
<1>8. Overtaking'
  BY <1>2, <1>3, OvertakingStays
<1> QED BY <1>3, <1>4, <1>6, <1>7, <1>8

\* A change of priority in a fresh turn moves no ticks; a later one is noted.
LEMMA SetpriKeeps ==
  ASSUME IInv, NEW c \in CPUs, NEW v \in Pris, setpri(c, v)
  PROVE  IInv'
<1> USE DEF IInv
<1> DEFINE q == proc[c]
<1>1. q \in Slots /\ state[q] = "RUNNING"
  BY DEF setpri, InCall, Running, TypeOK
<1>2. /\ pri' = [pri EXCEPT ![q] = v]
      /\ turn' = [turn EXCEPT ![q] =
                    IF turn[q] = "ticked" /\ v # pri[q] THEN "moved" ELSE turn[q]]
      /\ UNCHANGED <<state, proc, search_pri, ticks, sched_time, charged, intr,
                     spent, overtaken>>
  BY DEF setpri
<1> HIDE DEF q
<1>3. TypeOK'
  <2>1. pri' \in [Slots -> Pris] /\ turn' \in [Slots -> Turns]
    BY <1>1, <1>2 DEF TypeOK, Turns
  <2>2. intr' \in BOOLEAN
    BY <1>2 DEF TypeOK
  <2> QED BY <1>2, <2>1, <2>2 DEF TypeOK
<1>4. Running'
  BY <1>2 DEF Running
<1>5. Sums(state, charged)'
  BY <1>2 DEF Sums
<1>6. Split(state, charged)'
  <2> SUFFICES ASSUME NEW p \in Slots, state[p] # "UNUSED", turn'[p] # "moved"
               PROVE  IF state[p] = "RUNNING"
                      THEN /\ \A u \in Pris :
                                spent[p][u] =
                                  (charged[p][u] + (IF u = pri'[p] THEN ticks - sched_time[p]
                                                                   ELSE 0)) % TickMod
                           /\ turn'[p] = "fresh" => ticks = sched_time[p]
                      ELSE charged[p] = spent[p]
    BY <1>2 DEF Split
  <2>1. CASE p # q
    <3>1. pri'[p] = pri[p] /\ turn'[p] = turn[p]
      BY <1>2, <2>1 DEF TypeOK
    <3> QED BY <3>1 DEF Split
  <2>2. CASE p = q
    <3>1. /\ pri'[p] = v /\ turn'[p] = turn[p] /\ turn[p] \in {"fresh", "ticked"}
          /\ turn[p] = "ticked" => v = pri[p]
      BY <1>1, <1>2, <2>2 DEF TypeOK, Turns
    <3>2. /\ \A u \in Pris : spent[p][u] =
               (charged[p][u] + (IF u = pri[p] THEN ticks - sched_time[p] ELSE 0)) % TickMod
          /\ turn[p] = "fresh" => ticks = sched_time[p]
      BY <1>1, <2>2, <3>1 DEF Split
    <3>3. CASE turn[p] = "ticked"
      BY <1>1, <2>2, <3>1, <3>2, <3>3
    <3>4. CASE turn[p] = "fresh"
      <4>1. ticks - sched_time[p] = 0
        BY <3>2, <3>4, Sizes DEF TypeOK
      <4>2. \A u \in Pris : spent[p][u] = (charged[p][u] + 0) % TickMod
        BY <3>2, <4>1
      <4> QED BY <1>1, <2>2, <3>1, <3>2, <4>1, <4>2
    <3> QED BY <3>1, <3>3, <3>4
  <2> QED BY <2>1, <2>2
<1>7. Overtaking'
  <2>1. \A p \in Slots : Waits(state, p)' <=> Waits(state, p)
    BY <1>1, <1>2 DEF Waits, TypeOK
  <2> QED BY <1>2, <2>1, OvertakingStays
<1> QED BY <1>3, <1>4, <1>5, <1>6, <1>7

\* The child takes a free slot, which no CPU runs.
LEMMA ForkKeeps ==
  ASSUME IInv, NEW c \in CPUs, fork(c)
  PROVE  IInv'
<1> USE DEF IInv
<1> DEFINE free == {p \in Slots : state[p] = "UNUSED"}
           q == First(free)
<1>1. q \in Slots /\ state[q] = "UNUSED"
  <2>1. free # {} /\ free \in SUBSET Nat
    BY Sizes DEF fork
  <2>2. q \in free
    BY <2>1, FirstIn
  <2> QED BY <2>2
<1>2. /\ state' = [state EXCEPT ![q] = "RUNNABLE"]
      /\ pri' = [pri EXCEPT ![q] = LOW_PRI]
      /\ charged' = [charged EXCEPT ![q] = NoTicks]
      /\ spent' = [spent EXCEPT ![q] = NoTicks]
      /\ turn' = [turn EXCEPT ![q] = "fresh"]
      /\ UNCHANGED <<proc, search_pri, ticks, sched_time, intr, overtaken>>
  BY DEF fork
<1> HIDE DEF q
<1>3. NoTicks \in [Pris -> 0..(TickMod - 1)] /\ NoTicks[LOW_PRI] = 0 /\ NoTicks[HIGH_PRI] = 0
  BY Sizes DEF NoTicks, Pris
<1>4. TypeOK'
  <2>1. /\ state' \in [Slots -> States] /\ pri' \in [Slots -> Pris]
        /\ turn' \in [Slots -> Turns]
    BY <1>2 DEF TypeOK, States, Pris, Turns
  <2>2. /\ charged' \in [Slots -> [Pris -> 0..(TickMod - 1)]]
        /\ spent' \in [Slots -> [Pris -> 0..(TickMod - 1)]]
    BY <1>2, <1>3 DEF TypeOK
  <2>3. intr' \in BOOLEAN
    BY <1>2 DEF TypeOK
  <2> QED BY <1>2, <2>1, <2>2, <2>3 DEF TypeOK
<1>5. \A p \in Slots : p # q => /\ state'[p] = state[p] /\ pri'[p] = pri[p]
                                /\ charged'[p] = charged[p] /\ spent'[p] = spent[p]
                                /\ turn'[p] = turn[p]
  BY <1>2 DEF TypeOK
<1>6. /\ state'[q] = "RUNNABLE" /\ pri'[q] = LOW_PRI
      /\ charged'[q] = NoTicks /\ spent'[q] = NoTicks
  BY <1>1, <1>2 DEF TypeOK
<1>7. Running'
  <2>1. \A d \in CPUs : proc[d] # 0 =>
          proc[d] \in Slots /\ proc[d] # q /\ state[proc[d]] = "RUNNING"
    BY <1>1 DEF Running, TypeOK
  <2>2. \A d \in CPUs : proc[d] # 0 => state'[proc[d]] = "RUNNING"
    BY <1>5, <2>1
  <2> QED BY <1>2, <2>2 DEF Running
<1>8. Sums(state, charged)'
  <2> SUFFICES ASSUME NEW p \in Slots, state'[p] # "UNUSED"
               PROVE  (charged'[p][LOW_PRI] + charged'[p][HIGH_PRI]
                        + (IF state'[p] = "RUNNING" THEN ticks' - sched_time'[p] ELSE 0))
                          % TickMod
                        = (spent'[p][LOW_PRI] + spent'[p][HIGH_PRI]) % TickMod
    BY DEF Sums
  <2>1. CASE p = q
    BY <1>3, <1>6, <2>1
  <2>2. CASE p # q
    BY <1>2, <1>5, <2>2 DEF Sums
  <2> QED BY <2>1, <2>2
<1>9. Split(state, charged)'
  BY <1>2, <1>5, <1>6 DEF Split
<1>10. Overtaking'
  <2>1. \A p \in Slots : Waits(state, p)' <=> Waits(state, p)
    BY <1>1, <1>5, <1>6 DEF Waits, LOW_PRI, HIGH_PRI
  <2> QED BY <1>2, <2>1, OvertakingStays
<1> QED BY <1>4, <1>7, <1>8, <1>9, <1>10

LEMMA WaitKeeps ==
  ASSUME IInv, NEW c \in CPUs, wait(c)
  PROVE  IInv'
<1> USE DEF IInv
<1>1. PICK q \in Slots : state[q] = "ZOMBIE" /\ state' = [state EXCEPT ![q] = "UNUSED"]
  BY DEF wait
<1>2. UNCHANGED <<pri, proc, search_pri, ticks, sched_time, charged, intr,
                  spent, turn, overtaken>>
  BY DEF wait
<1>3. /\ state' \in [Slots -> States] /\ state'[q] = "UNUSED"
      /\ \A p \in Slots : p # q => state'[p] = state[p]
  BY <1>1 DEF TypeOK, States
<1>4. TypeOK'
  <2>1. intr' \in BOOLEAN
    BY <1>2 DEF TypeOK
  <2> QED BY <1>2, <1>3, <2>1 DEF TypeOK
<1>5. Running'
  <2>1. \A d \in CPUs : proc[d] # 0 =>
          proc[d] \in Slots /\ proc[d] # q /\ state[proc[d]] = "RUNNING"
    BY <1>1 DEF Running, TypeOK
  <2>2. \A d \in CPUs : proc[d] # 0 => state'[proc[d]] = "RUNNING"
    BY <1>3, <2>1
  <2> QED BY <1>2, <2>2 DEF Running
<1>6. Sums(state, charged)'
  BY <1>2, <1>3 DEF Sums
<1>7. Split(state, charged)'
  BY <1>2, <1>3 DEF Split
<1>8. Overtaking'
  <2>1. \A p \in Slots : Waits(state, p)' <=> Waits(state, p)
    BY <1>1, <1>2, <1>3 DEF Waits
  <2> QED BY <1>2, <2>1, OvertakingStays
<1> QED BY <1>4, <1>5, <1>6, <1>7, <1>8

LEMMA NextKeeps ==
  ASSUME IInv, [Next]_vars
  PROVE  IInv'
<1>1. CASE tick
  BY <1>1, TickKeeps
<1>2. CASE wakeup
  BY <1>2, WakeupKeeps
<1>3. ASSUME NEW c \in CPUs, pass(c) PROVE IInv'
  BY <1>3, PassKeeps
<1>4. ASSUME NEW c \in CPUs, Leaves(c) PROVE IInv'
  BY <1>4, LeaveKeeps DEF Leaves
<1>5. ASSUME NEW c \in CPUs, fork(c) PROVE IInv'
  BY <1>5, ForkKeeps
<1>6. ASSUME NEW c \in CPUs, wait(c) PROVE IInv'
  BY <1>6, WaitKeeps
<1>7. ASSUME NEW c \in CPUs, NEW v \in Pris, setpri(c, v) PROVE IInv'
  BY <1>7, SetpriKeeps
<1>8. CASE UNCHANGED vars
  <2>1. UNCHANGED <<state, pri, proc, search_pri, ticks, sched_time, charged, intr,
                    spent, turn, overtaken>>
    BY <1>8 DEF vars
  <2>2. TypeOK'
    BY <2>1 DEF IInv, TypeOK
  <2>3. Running'
    BY <2>1 DEF IInv, Running
  <2>4. Sums(state, charged)'
    BY <2>1 DEF IInv, Sums
  <2>5. Split(state, charged)'
    BY <2>1 DEF IInv, Split
  <2>6. Overtaking'
    BY <2>1 DEF IInv, Overtaking, Waits, Ahead
  <2> QED BY <2>2, <2>3, <2>4, <2>5, <2>6 DEF IInv
<1> QED BY <1>1, <1>2, <1>3, <1>4, <1>5, <1>6, <1>7, <1>8 DEF Next
-----------------------------------------------------------------------------
(* The theorems.                                                           *)

\* scheduler(), setpri(), the timer and the calls keep the invariant.
THEOREM SchedInvariant == Spec => []IInv
<1>1. Init => IInv
  BY InitIInv
<1>2. IInv /\ [Next]_vars => IInv'
  BY NextKeeps
<1> QED BY <1>1, <1>2, PTL DEF Spec

\* The counters that scheduler() keeps lose no tick and count none twice, at
\* any width of the unsigned clock, on any number of CPUs.
THEOREM TicksAreConserved == Spec => []TicksConserved
<1>1. IInv => TicksConserved
  BY DEF IInv, Sums, TicksConserved, Uncharged
<1> QED BY <1>1, SchedInvariant, PTL

\* Until setpri() follows a tick of the same turn, getpinfo() shows each
\* priority exactly the ticks that were spent at it.
THEOREM TicksGoToTheirPriority == Spec => []TicksByPriority
<1>1. IInv => TicksByPriority
  BY DEF IInv, Split, TicksByPriority
<1> QED BY <1>1, SchedInvariant, PTL

\* A process that waits at high priority sees at most NPROC - 2 dispatches of
\* low priority by each CPU before it runs: search_pri may be out of date, but
\* only for the rest of one pass.
THEOREM OvertakingIsBounded == Spec => []BoundedOvertaking
<1>1. IInv => BoundedOvertaking
  BY DEF IInv, Overtaking, BoundedOvertaking
<1> QED BY <1>1, SchedInvariant, PTL
-----------------------------------------------------------------------------
(* Locks.  What makes it inductive is the map from the place a CPU has come *)
(* to in its code to the locks it holds there.                              *)

\* The locks a CPU holds at each place.
HeldAt ==
  [p \in Places |->
     IF p \in {"stamped", "charged", "handoff", "woke"} THEN Locks
     ELSE IF p \in {"pass", "stamp", "switch", "off"} THEN {"ptable"}
     ELSE IF p \in {"sleep", "block", "ticked", "tickend"} THEN {"tickslock"}
     ELSE {}]

ControlTypes ==
  /\ at \in [Processors -> Places]
  /\ holder \in [Locks -> Processors \cup {NoCPU}]

\* The inductive invariant: a CPU is the holder of exactly those locks.
LocksHeld ==
  \A c \in Processors, l \in Locks : holder[l] = c <=> l \in HeldAt[at[c]]

LockInv == ControlTypes /\ LocksHeld

LEMMA NoCPUIsNone == NoCPU \notin Processors
  BY LockOrderAssumption DEF NoCPU

\* acquire(): the lock was nobody's, and becomes c's.
LEMMA AcquireKeeps ==
  ASSUME LockInv, NEW c \in Processors, NEW from \in DOMAIN Spins, NEW to \in Places,
         HeldAt[to] = HeldAt[from] \cup {Spins[from]},
         Spins[from] \in Locks,
         acquire(c, from, to)
  PROVE  LockInv'
<1> DEFINE k == Spins[from]
<1>1. /\ at[c] = from
      /\ at' = [at EXCEPT ![c] = to]
      /\ holder[k] = NoCPU
      /\ holder' = [holder EXCEPT ![k] = c]
  BY DEF acquire, Goto
<1> HIDE DEF k
<1>2. k \in Locks BY DEF k
<1>3. HeldAt[to] = HeldAt[from] \cup {k} BY DEF k
<1>4. ControlTypes'
  BY <1>1, <1>2 DEF LockInv, ControlTypes
<1>5. ASSUME NEW d \in Processors, NEW l \in Locks
      PROVE  holder'[l] = d <=> l \in HeldAt[at'[d]]
  <2>1. holder[l] = d <=> l \in HeldAt[at[d]]
    BY DEF LockInv, LocksHeld
  <2>2. holder'[l] = IF l = k THEN c ELSE holder[l]
    BY <1>1 DEF LockInv, ControlTypes
  <2>3. at'[d] = IF d = c THEN to ELSE at[d]
    BY <1>1 DEF LockInv, ControlTypes
  <2>4. CASE d = c
    BY <2>1, <2>2, <2>3, <2>4, <1>1, <1>3
  <2>5. CASE d # c
    BY <2>1, <2>2, <2>3, <2>5, <1>1, NoCPUIsNone
  <2> QED BY <2>4, <2>5
<1> QED BY <1>4, <1>5 DEF LockInv, LocksHeld

\* release(): the lock was c's, and becomes nobody's.
LEMMA ReleaseKeeps ==
  ASSUME LockInv, NEW c \in Processors, NEW k \in Locks,
         NEW from \in Places, NEW to \in Places,
         k \in HeldAt[from],
         HeldAt[to] = HeldAt[from] \ {k},
         release(c, k, from, to)
  PROVE  LockInv'
<1>1. /\ at[c] = from
      /\ at' = [at EXCEPT ![c] = to]
      /\ holder' = [holder EXCEPT ![k] = NoCPU]
  BY DEF release, Goto
<1>2. ControlTypes'
  BY <1>1 DEF LockInv, ControlTypes
<1>3. ASSUME NEW d \in Processors, NEW l \in Locks
      PROVE  holder'[l] = d <=> l \in HeldAt[at'[d]]
  <2>1. /\ holder[l] = d <=> l \in HeldAt[at[d]]
        /\ holder[k] = c
    BY <1>1 DEF LockInv, LocksHeld
  <2>2. holder'[l] = IF l = k THEN NoCPU ELSE holder[l]
    BY <1>1 DEF LockInv, ControlTypes
  <2>3. at'[d] = IF d = c THEN to ELSE at[d]
    BY <1>1 DEF LockInv, ControlTypes
  <2>4. CASE d = c
    BY <2>1, <2>2, <2>3, <2>4, <1>1, NoCPUIsNone
  <2>5. CASE d # c
    BY <2>1, <2>2, <2>3, <2>5, <1>1, NoCPUIsNone
  <2> QED BY <2>4, <2>5
<1> QED BY <1>2, <1>3 DEF LockInv, LocksHeld

\* A step between two places with the same locks.
LEMMA MoveKeeps ==
  ASSUME LockInv, NEW c \in Processors, NEW from \in Places, NEW to \in Places,
         HeldAt[to] = HeldAt[from],
         at[c] = from, at' = [at EXCEPT ![c] = to], UNCHANGED holder
  PROVE  LockInv'
<1>1. ControlTypes'
  BY DEF LockInv, ControlTypes
<1>2. ASSUME NEW d \in Processors, NEW l \in Locks
      PROVE  holder'[l] = d <=> l \in HeldAt[at'[d]]
  BY DEF LockInv, ControlTypes, LocksHeld
<1> QED BY <1>1, <1>2 DEF LockInv, LocksHeld

LEMMA InitLocks == LockInit => LockInv
<1> SUFFICES ASSUME LockInit PROVE LockInv OBVIOUS
<1>1. "loop" \in Places /\ HeldAt["loop"] = {}
  BY DEF HeldAt, Places, Spins
<1>2. ControlTypes
  BY <1>1 DEF LockInit, ControlTypes
<1>3. LocksHeld
  BY <1>1, NoCPUIsNone DEF LockInit, LocksHeld
<1> QED BY <1>2, <1>3 DEF LockInv

\* The places and their locks, spelt out once.
LEMMA PlaceFacts ==
  /\ DOMAIN Spins \subseteq Places
  /\ DOMAIN Spins = {"start", "stamp", "off", "yield", "wake", "block", "tick",
                     "ticked"}
  /\ \A p \in {"loop", "pass", "stamped", "switch", "run", "charged", "sleep",
               "handoff", "woke", "tickend"} : p \in Places
  /\ \A p \in DOMAIN Spins : Spins[p] \in Locks /\ Spins[p] \notin HeldAt[p]
  BY DEF Places, Spins, Locks, HeldAt

LEMMA StepKeeps == ASSUME LockInv, NEW c \in Processors, Step(c) PROVE LockInv'
<1>1. CASE scheduler(c)
  <2>1. CASE Goto(c, "loop", "start") /\ UNCHANGED holder
    BY <2>1, MoveKeeps, PlaceFacts DEF Goto, HeldAt
  <2>2. CASE acquire(c, "start", "pass")
    <3>1. HeldAt["pass"] = HeldAt["start"] \cup {Spins["start"]}
      BY PlaceFacts DEF HeldAt, Spins
    <3> QED BY <2>2, <3>1, AcquireKeeps, PlaceFacts
  <2>3. CASE release(c, "ptable", "pass", "loop")
    <3>1. /\ "ptable" \in Locks /\ "ptable" \in HeldAt["pass"]
          /\ HeldAt["loop"] = HeldAt["pass"] \ {"ptable"}
      BY PlaceFacts DEF HeldAt, Locks
    <3> QED BY <2>3, <3>1, ReleaseKeeps, PlaceFacts
  <2>4. CASE Goto(c, "pass", "stamp") /\ UNCHANGED holder
    BY <2>4, MoveKeeps, PlaceFacts DEF Goto, HeldAt
  <2> QED BY <1>1, <2>1, <2>2, <2>3, <2>4 DEF scheduler
<1>2. CASE sys_uptime(c)
  <2>1. CASE acquire(c, "stamp", "stamped")
    <3>1. HeldAt["stamped"] = HeldAt["stamp"] \cup {Spins["stamp"]}
      BY PlaceFacts DEF HeldAt, Spins, Locks
    <3> QED BY <2>1, <3>1, AcquireKeeps, PlaceFacts
  <2>2. CASE release(c, "tickslock", "stamped", "switch")
    <3>1. /\ "tickslock" \in Locks /\ "tickslock" \in HeldAt["stamped"]
          /\ HeldAt["switch"] = HeldAt["stamped"] \ {"tickslock"}
      BY PlaceFacts DEF HeldAt, Locks
    <3> QED BY <2>2, <3>1, ReleaseKeeps, PlaceFacts
  <2>3. CASE acquire(c, "off", "charged")
    <3>1. HeldAt["charged"] = HeldAt["off"] \cup {Spins["off"]}
      BY PlaceFacts DEF HeldAt, Spins, Locks
    <3> QED BY <2>3, <3>1, AcquireKeeps, PlaceFacts
  <2>4. CASE release(c, "tickslock", "charged", "pass")
    <3>1. /\ "tickslock" \in Locks /\ "tickslock" \in HeldAt["charged"]
          /\ HeldAt["pass"] = HeldAt["charged"] \ {"tickslock"}
      BY PlaceFacts DEF HeldAt, Locks
    <3> QED BY <2>4, <3>1, ReleaseKeeps, PlaceFacts
  <2> QED BY <1>2, <2>1, <2>2, <2>3, <2>4 DEF sys_uptime
<1>3. CASE resume(c)
  <2>1. /\ "ptable" \in Locks /\ "ptable" \in HeldAt["switch"]
        /\ HeldAt["run"] = HeldAt["switch"] \ {"ptable"}
        /\ HeldAt["wake"] = HeldAt["switch"] \ {"ptable"}
    BY PlaceFacts DEF HeldAt, Locks
  <2>2. CASE release(c, "ptable", "switch", "run")
    BY <2>1, <2>2, ReleaseKeeps, PlaceFacts
  <2>3. CASE release(c, "ptable", "switch", "wake")
    BY <2>1, <2>3, ReleaseKeeps, PlaceFacts
  <2> QED BY <1>3, <2>2, <2>3 DEF resume
<1>4. CASE timer(c)
  <2>1. PICK to \in {"tick", "yield"} : at' = [at EXCEPT ![c] = to]
    BY <1>4 DEF timer
  <2>2. at[c] \in {"loop", "run"} /\ UNCHANGED holder
    BY <1>4 DEF timer, Interruptible
  <2>3. \A p \in {"loop", "run", "tick", "yield"} : p \in Places /\ HeldAt[p] = {}
    BY PlaceFacts DEF HeldAt
  <2> QED BY <2>1, <2>2, <2>3, MoveKeeps
<1>5. CASE tick_trap(c)
  <2>1. CASE acquire(c, "tick", "ticked")
    <3>1. HeldAt["ticked"] = HeldAt["tick"] \cup {Spins["tick"]}
      BY PlaceFacts DEF HeldAt, Spins
    <3> QED BY <2>1, <3>1, AcquireKeeps, PlaceFacts
  <2>2. CASE acquire(c, "ticked", "woke")
    <3>1. HeldAt["woke"] = HeldAt["ticked"] \cup {Spins["ticked"]}
      BY PlaceFacts DEF HeldAt, Spins, Locks
    <3> QED BY <2>2, <3>1, AcquireKeeps, PlaceFacts
  <2>3. CASE release(c, "ptable", "woke", "tickend")
    <3>1. /\ "ptable" \in Locks /\ "ptable" \in HeldAt["woke"]
          /\ HeldAt["tickend"] = HeldAt["woke"] \ {"ptable"}
      BY PlaceFacts DEF HeldAt, Locks
    <3> QED BY <2>3, <3>1, ReleaseKeeps, PlaceFacts
  <2>4. CASE release(c, "tickslock", "tickend",
                     IF c \in busy THEN "yield" ELSE "loop")
    <3>1. /\ "tickslock" \in Locks /\ "tickslock" \in HeldAt["tickend"]
          /\ HeldAt["yield"] = HeldAt["tickend"] \ {"tickslock"}
          /\ HeldAt["loop"] = HeldAt["tickend"] \ {"tickslock"}
      BY PlaceFacts DEF HeldAt, Locks
    <3>2. CASE release(c, "tickslock", "tickend", "yield")
      BY <3>1, <3>2, ReleaseKeeps, PlaceFacts
    <3>3. CASE release(c, "tickslock", "tickend", "loop")
      BY <3>1, <3>3, ReleaseKeeps, PlaceFacts
    <3> QED BY <2>4, <3>2, <3>3
  <2> QED BY <1>5, <2>1, <2>2, <2>3, <2>4 DEF tick_trap
<1>6. CASE yield(c)
  <2>1. HeldAt["off"] = HeldAt["yield"] \cup {Spins["yield"]}
    BY PlaceFacts DEF HeldAt, Spins
  <2> QED BY <1>6, <2>1, AcquireKeeps, PlaceFacts DEF yield
<1>7. CASE sys_sleep(c)
  <2>1. CASE Goto(c, "run", "wake") /\ UNCHANGED holder
    BY <2>1, MoveKeeps, PlaceFacts DEF Goto, HeldAt
  <2>2. CASE acquire(c, "wake", "sleep")
    <3>1. HeldAt["sleep"] = HeldAt["wake"] \cup {Spins["wake"]}
      BY PlaceFacts DEF HeldAt, Spins
    <3> QED BY <2>2, <3>1, AcquireKeeps, PlaceFacts
  <2>3. CASE release(c, "tickslock", "sleep", "run")
    <3>1. /\ "tickslock" \in Locks /\ "tickslock" \in HeldAt["sleep"]
          /\ HeldAt["run"] = HeldAt["sleep"] \ {"tickslock"}
      BY PlaceFacts DEF HeldAt, Locks
    <3> QED BY <2>3, <3>1, ReleaseKeeps, PlaceFacts
  <2>4. CASE Goto(c, "sleep", "block") /\ UNCHANGED holder
    BY <2>4, MoveKeeps, PlaceFacts DEF Goto, HeldAt
  <2>5. CASE acquire(c, "block", "handoff")
    <3>1. HeldAt["handoff"] = HeldAt["block"] \cup {Spins["block"]}
      BY PlaceFacts DEF HeldAt, Spins, Locks
    <3> QED BY <2>5, <3>1, AcquireKeeps, PlaceFacts
  <2> QED BY <1>7, <2>1, <2>2, <2>3, <2>4, <2>5 DEF sys_sleep
<1>8. CASE sleep(c)
  <2>1. /\ "tickslock" \in Locks /\ "tickslock" \in HeldAt["handoff"]
        /\ HeldAt["off"] = HeldAt["handoff"] \ {"tickslock"}
    BY PlaceFacts DEF HeldAt, Locks
  <2> QED BY <1>8, <2>1, ReleaseKeeps, PlaceFacts DEF sleep
<1> QED BY <1>1, <1>2, <1>3, <1>4, <1>5, <1>6, <1>7, <1>8 DEF Step

\* The locks a CPU holds are those of its place in the code, always.
THEOREM LocksFollowControl == LockSpec => []LockInv
<1>1. LockInit => LockInv
  BY InitLocks
<1>2. LockInv /\ [LockNext]_lockvars => LockInv'
  <2>1. ASSUME LockInv, LockNext PROVE LockInv'
    BY <2>1, StepKeeps DEF LockNext
  <2>2. ASSUME LockInv, UNCHANGED lockvars PROVE LockInv'
    BY <2>2 DEF LockInv, ControlTypes, LocksHeld, lockvars
  <2> QED BY <2>1, <2>2
<1> QED BY <1>1, <1>2, PTL DEF LockSpec

\* On any number of CPUs sched() is entered with ptable.lock alone.
THEOREM SchedLocks == LockSpec => []SchedHoldsOne
<1>1. LockInv => SchedHoldsOne
  <2>1. "ptable" \in HeldAt["off"] /\ "tickslock" \notin HeldAt["off"]
    BY PlaceFacts DEF HeldAt
  <2> QED BY <2>1 DEF LockInv, LocksHeld, SchedHoldsOne, Locks
<1> QED BY <1>1, LocksFollowControl, PTL

\* On any number of CPUs no acquire() finds the lock held by its own CPU.
THEOREM NeverSelfWaits == LockSpec => []NoSelfWait
<1>1. LockInv => NoSelfWait
  BY PlaceFacts DEF LockInv, LocksHeld, NoSelfWait
<1> QED BY <1>1, LocksFollowControl, PTL
=============================================================================
