----------------------------- MODULE LogProofs -----------------------------
(***************************************************************************)
(* Proofs about Log, for any number of processes and blocks and any log    *)
(* size.                                                                   *)
(***************************************************************************)
EXTENDS Log, TLAPS, FiniteSetTheorems, FunctionTheorems

\* The types alone, without the bounds that follow from Space.
Types ==
  /\ disk \in [Blocks -> Vals]
  /\ logdata \in [Slots -> Vals]
  /\ head \in Seq(Blocks)
  /\ cache \in [Blocks -> Vals]
  /\ lh \in Seq(Blocks)
  /\ outstanding \in Nat
  /\ committing \in BOOLEAN
  /\ stage \in Stages
  /\ tail \in Nat \ {0}
  /\ panicked \in BOOLEAN
  /\ pc \in [Ops -> PCs]
  /\ used \in [Ops -> SUBSET Blocks]
  /\ buf \in [Ops -> Blocks \cup {NoBlock}]
-----------------------------------------------------------------------------
(* Facts about the helpers.                                                *)

\* wakeup() only turns sleepers into processes that test again.
LEMMA WakeupEffect ==
  ASSUME NEW f \in [Ops -> PCs]
  PROVE  /\ Wakeup(f) \in [Ops -> PCs]
         /\ \A p \in Ops : Wakeup(f)[p] # "sleep"
         /\ \A p \in Ops : f[p] # "sleep" => Wakeup(f)[p] = f[p]
         /\ \A p \in Ops : f[p] = "sleep" => Wakeup(f)[p] = "begin"
BY DEF Wakeup, PCs

\* The calls in progress are finitely many.
LEMMA OpenFinite == IsFiniteSet(Open) /\ Cardinality(Open) \in Nat
<1>1. Open \in SUBSET Ops
  BY DEF Open
<1> QED
  BY <1>1, FS_Subset, FS_CardinalityType, LogAssumption

\* Log absorption keeps the log a sequence of distinct blocks that names the
\* block written and nothing else new.
LEMMA AbsorbEffect ==
  ASSUME NEW s \in Seq(Blocks), NEW b \in Blocks
  PROVE  /\ Absorb(s, b) \in Seq(Blocks)
         /\ InLog(Absorb(s, b)) = InLog(s) \cup {b}
         /\ OneToOne(s) => OneToOne(Absorb(s, b))
<1>1. CASE b \in InLog(s)
  BY <1>1 DEF Absorb
<1>2. CASE b \notin InLog(s)
  <2> DEFINE t == Append(s, b)
  <2>1. /\ Absorb(s, b) = t
        /\ t \in Seq(Blocks)
        /\ Len(t) = Len(s) + 1
        /\ \A i \in 1..Len(s) : t[i] = s[i]
        /\ t[Len(s) + 1] = b
        /\ Len(s) \in Nat
    BY <1>2 DEF Absorb
  <2> HIDE DEF t
  <2>2. 1..Len(t) = (1..Len(s)) \cup {Len(s) + 1}
    BY <2>1
  <2>3. InLog(t) = InLog(s) \cup {b}
    BY <2>1, <2>2 DEF InLog
  <2>4. ASSUME OneToOne(s) PROVE OneToOne(t)
    BY <1>2, <2>1, <2>2, <2>4 DEF OneToOne, InLog
  <2> QED
    BY <2>1, <2>3, <2>4
<1> QED
  BY <1>1, <1>2

\* A sequence of distinct blocks is as long as the set of its blocks is large.
LEMMA LenIsCount ==
  ASSUME NEW s \in Seq(Blocks), OneToOne(s)
  PROVE  Cardinality(InLog(s)) = Len(s)
<1> DEFINE f == [i \in 1..Len(s) |-> s[i]]
<1>1. f \in Bijection(1..Len(s), InLog(s))
  BY DEF OneToOne, InLog, Bijection, Injection, Surjection, IsInjective
<1>2. ExistsBijection(1..Len(s), InLog(s))
  BY <1>1 DEF ExistsBijection
<1> QED
  BY <1>2, FS_CountingElements

\* Counting pairs: at most n blocks for each of the calls in S.
LEMMA ChargeBound ==
  ASSUME NEW S \in SUBSET Ops, NEW u \in [Ops -> SUBSET Blocks], NEW n \in Nat,
         \A p \in S : Cardinality(u[p]) <= n
  PROVE  LET C == {x \in Ops \X Blocks : x[1] \in S /\ x[2] \in u[x[1]]}
         IN  /\ IsFiniteSet(C)
             /\ Cardinality(C) \in Nat
             /\ Cardinality(C) <= Cardinality(S) * n
<1> DEFINE C == {x \in Ops \X Blocks : x[1] \in S /\ x[2] \in u[x[1]]}
           J(p) == Injection(u[p], 1..Cardinality(u[p]))
           h == [p \in Ops |-> CHOOSE f : f \in J(p)]
           F == [x \in C |-> <<x[1], h[x[1]][x[2]]>>]
<1>1. ASSUME NEW p \in Ops PROVE Cardinality(u[p]) \in Nat /\ h[p] \in J(p)
  <2>1. IsFiniteSet(u[p])
    BY FS_Subset, LogAssumption
  <2>2. Cardinality(u[p]) \in Nat /\ ExistsBijection(1..Cardinality(u[p]), u[p])
    BY <2>1, FS_CardinalityType
  <2>3. Bijection(u[p], 1..Cardinality(u[p])) # {}
    BY <2>2, Fun_ExistsBijSymmetric, Fun_ExistsBij
  <2>4. \E f : f \in J(p)
    BY <2>3, Fun_BijectionProperties
  <2> QED
    BY <2>2, <2>4
<1> HIDE DEF h
<1>2. ASSUME NEW x \in C
      PROVE  /\ x = <<x[1], x[2]>>
             /\ x[1] \in S
             /\ h[x[1]][x[2]] \in 1..n
  <2>1. x[1] \in S /\ x[2] \in u[x[1]] /\ x = <<x[1], x[2]>> /\ x[1] \in Ops
    OBVIOUS
  <2>2. h[x[1]] \in [u[x[1]] -> 1..Cardinality(u[x[1]])]
    BY <1>1, <2>1, Fun_InjectionProperties
  <2>3. h[x[1]][x[2]] \in 1..Cardinality(u[x[1]])
    BY <2>1, <2>2
  <2> QED
    BY <1>1, <2>1, <2>3
<1>3. ASSUME NEW x \in C, NEW y \in C, F[x] = F[y] PROVE x = y
  <2>1. x[1] = y[1] /\ h[x[1]][x[2]] = h[x[1]][y[2]]
    BY <1>3
  <2>2. x[1] \in Ops /\ x[2] \in u[x[1]] /\ y[2] \in u[x[1]]
    BY <2>1
  <2>3. \A a, b \in u[x[1]] : h[x[1]][a] = h[x[1]][b] => a = b
    BY <1>1, <2>2, Fun_InjectionProperties
  <2>4. x[2] = y[2]
    BY <2>1, <2>2, <2>3
  <2> QED
    BY <1>2, <2>1, <2>4
<1>4. F \in Injection(C, S \X (1..n))
  <2>1. F \in [C -> S \X (1..n)]
    BY <1>2
  <2> QED
    BY <2>1, <1>3 DEF Injection, IsInjective
<1>5. IsFiniteSet(S) /\ IsFiniteSet(1..n) /\ Cardinality(1..n) = n
  BY FS_Subset, FS_Interval, LogAssumption
<1>6. /\ IsFiniteSet(S \X (1..n))
      /\ Cardinality(S \X (1..n)) = Cardinality(S) * n
  BY <1>5, FS_Product
<1>7. IsFiniteSet(C) /\ Cardinality(C) <= Cardinality(S \X (1..n))
  BY <1>4, <1>6, FS_Injection
<1> QED
  BY <1>6, <1>7, FS_CardinalityType

\* The sets the invariant counts are finite.
LEMMA Finite ==
  ASSUME Types
  PROVE  /\ IsFiniteSet(InLog(lh)) /\ Cardinality(InLog(lh)) \in Nat
         /\ IsFiniteSet(Pending) /\ Cardinality(Pending) \in Nat
         /\ IsFiniteSet(Names) /\ Cardinality(Names) \in Nat
         /\ IsFiniteSet(Charged) /\ Cardinality(Charged) \in Nat
<1>1. InLog(lh) \in SUBSET Blocks
  BY DEF Types, InLog
<1>2. IsFiniteSet(InLog(lh))
  BY <1>1, FS_Subset, LogAssumption
<1>3. IsFiniteSet(Blocks \cup {NoBlock})
  BY FS_AddElement, LogAssumption
<1>4. Pending \in SUBSET (Blocks \cup {NoBlock})
  BY DEF Types, Pending
<1>5. IsFiniteSet(Pending)
  BY <1>3, <1>4, FS_Subset
<1>6. IsFiniteSet(Names)
  BY <1>2, <1>5, FS_Union DEF Names
<1>7. IsFiniteSet(Ops \X Blocks) /\ Charged \in SUBSET (Ops \X Blocks)
  BY FS_Product, LogAssumption DEF Charged
<1>8. IsFiniteSet(Charged)
  BY <1>7, FS_Subset
<1> QED
  BY <1>2, <1>5, <1>6, <1>8, FS_CardinalityType

\* The three parts that do not depend on what is written through.
IndInv == Types /\ Control /\ Space

\* begin_op()'s arithmetic: what is named never exceeds the header's array,
\* by more than the part of their reservation the open calls have not used.
LEMMA RoomLeft ==
  ASSUME IndInv
  PROVE  /\ Cardinality(Charged) <= outstanding * OpBlocks
         /\ Cardinality(Names) + outstanding * (MAXOPBLOCKS - OpBlocks) <= LOGSIZE
         /\ Len(lh) <= Cardinality(Names)
         /\ Len(lh) <= LOGSIZE
<1> USE LogAssumption DEF IndInv
<1>1. Cardinality(Charged) <= Cardinality(Open) * OpBlocks
  <2>1. Open \in SUBSET Ops
    BY DEF Open
  <2>2. \A p \in Open : Cardinality(used[p]) <= OpBlocks
    BY <2>1 DEF Space
  <2> QED
    BY <2>1, <2>2, ChargeBound DEF Types, Charged
<1>2. outstanding = Cardinality(Open) /\ outstanding \in Nat
  BY DEF Control, Types
<1>3. /\ Cardinality(Charged) \in Nat
      /\ Cardinality(Names) \in Nat
      /\ IsFiniteSet(Names)
  BY Finite
<1>4. outstanding * (MAXOPBLOCKS - OpBlocks)
        = outstanding * MAXOPBLOCKS - outstanding * OpBlocks
  BY <1>2
<1>5. outstanding * (MAXOPBLOCKS - OpBlocks) \in Nat
  BY <1>2
<1>6. outstanding * MAXOPBLOCKS \in Nat /\ outstanding * OpBlocks \in Nat
  BY <1>2
<1>7. Cardinality(Names) + outstanding * MAXOPBLOCKS
        <= LOGSIZE + Cardinality(Charged)
  BY DEF Space
<1>8. Cardinality(Names) + outstanding * (MAXOPBLOCKS - OpBlocks) <= LOGSIZE
  BY <1>1, <1>2, <1>3, <1>4, <1>6, <1>7
<1>9. Len(lh) <= Cardinality(Names)
  <2>1. InLog(lh) \in SUBSET Names
    BY DEF Names
  <2>2. Len(lh) = Cardinality(InLog(lh))
    BY LenIsCount DEF Types, Space
  <2> QED
    BY <1>3, <2>1, <2>2, FS_Subset
<1>10. Len(lh) \in Nat
  BY DEF Types
<1>11. Len(lh) <= LOGSIZE
  BY <1>3, <1>5, <1>8, <1>9, <1>10
<1> QED
  BY <1>1, <1>2, <1>8, <1>9, <1>11
-----------------------------------------------------------------------------
(* Types and control.                                                      *)

\* Every variable keeps its type under every step.
LEMMA TypesInductive ==
  ASSUME IndInv, [Next]_vars
  PROVE  Types'
<1> USE LogAssumption DEF IndInv, Types, diskVars, callVars, commitVars, Stages
<1>a. {"idle", "begin", "sleep", "op", "append", "bwrite", "commit"} \subseteq PCs
  BY DEF PCs
<1>b. <<>> \in Seq(Blocks)
  OBVIOUS
<1>0. Len(lh) \in Nat /\ Len(lh) <= LOGSIZE
  BY RoomLeft
<1>1. ASSUME NEW p \in Ops, begin_op(p) PROVE Types'
  <2>1. pc' \in [Ops -> PCs]
    BY <1>a, <1>1 DEF begin_op
  <2>2. used' \in [Ops -> SUBSET Blocks] /\ outstanding' \in Nat
    BY <1>1 DEF begin_op
  <2> QED
    BY <1>1, <2>1, <2>2 DEF begin_op
<1>2. ASSUME NEW p \in Ops, NEW b \in Blocks, NEW v \in Vals, log_write(p, b, v)
      PROVE  Types'
  <2>1. panicked' \in BOOLEAN
    BY <1>2 DEF log_write, LogWritePanics
  <2> QED
    BY <1>a, <1>2, <2>1 DEF log_write
<1>3. ASSUME NEW p \in Ops, log_append(p) PROVE Types'
  <2>1. buf[p] \in Blocks
    BY <1>3 DEF log_append, Control
  <2>2. lh' \in Seq(Blocks)
    BY <1>3, <2>1, AbsorbEffect DEF log_append
  <2> QED
    BY <1>a, <1>3, <2>2 DEF log_append
<1>4. ASSUME NEW p \in Ops, writei_bwrite(p) PROVE Types'
  <2>1. buf[p] \in Blocks
    BY <1>4 DEF writei_bwrite, Control
  <2> QED
    BY <1>a, <1>4, <2>1 DEF writei_bwrite
<1>5. ASSUME NEW p \in Ops, end_op(p) PROVE Types'
  <2>1. p \in Open
    BY <1>5 DEF end_op, Open
  <2>2. outstanding # 0
    BY <2>1, OpenFinite, FS_EmptySet DEF Control
  <2>3. pc' \in [Ops -> PCs]
    <3>1. \A l \in {"idle", "commit"} : [pc EXCEPT ![p] = l] \in [Ops -> PCs]
      BY <1>a
    <3>2. pc' = [pc EXCEPT ![p] = "commit"]
          \/ pc' = Wakeup([pc EXCEPT ![p] = "idle"])
      BY <1>5 DEF end_op
    <3>3. Wakeup([pc EXCEPT ![p] = "idle"]) \in [Ops -> PCs]
      BY <3>1, WakeupEffect
    <3> QED
      BY <3>1, <3>2, <3>3
  <2> QED
    <3>1. outstanding' \in Nat /\ panicked' \in BOOLEAN
      BY <1>5, <2>2 DEF end_op
    <3>2. commit \in Stages
      BY DEF commit
    <3>3. stage' \in Stages /\ tail' \in Nat \ {0}
      BY <1>5, <3>2 DEF end_op
    <3>4. committing' \in BOOLEAN
      BY <1>5 DEF end_op
    <3> QED
      BY <1>5, <2>3, <3>1, <3>3, <3>4 DEF end_op
<1>6. ASSUME NEW p \in Ops, commit_done(p) PROVE Types'
  <2>1. pc' \in [Ops -> PCs]
    <3>1. [pc EXCEPT ![p] = "idle"] \in [Ops -> PCs]
      BY <1>a
    <3> QED
      BY <1>6, <3>1, WakeupEffect DEF commit_done
  <2> QED
    BY <1>6, <2>1 DEF commit_done
<1>7. ASSUME write_log PROVE Types'
  BY <1>0, <1>7 DEF write_log
<1>8. ASSUME write_head \/ read_head \/ clear_head PROVE Types'
  BY <1>8 DEF write_head, read_head, clear_head
<1>9. ASSUME install_trans PROVE Types'
  <2>1. CASE tail <= Len(lh)
    <3>1. tail \in Slots /\ lh[tail] \in Blocks
      BY <1>0, <2>1 DEF Slots
    <3> QED
      <4>1. logdata[tail] \in Vals
        BY <3>1
      <4>2. disk' \in [Blocks -> Vals] /\ cache' \in [Blocks -> Vals]
        BY <1>0, <1>9, <2>1, <3>1, <4>1 DEF install_trans
      <4> QED
        BY <1>0, <1>9, <2>1, <4>2 DEF install_trans
  <2>2. CASE tail > Len(lh)
    <3>1. lh' = <<>>
      BY <1>0, <1>9, <2>2 DEF install_trans
    <3>2. lh' \in Seq(Blocks)
      BY <1>b, <3>1
    <3> QED
      BY <1>0, <1>9, <2>2, <3>2 DEF install_trans
  <2> QED
    BY <1>0, <2>1, <2>2
<1>10. ASSUME Crash PROVE Types'
  <2>1. /\ pc' \in [Ops -> PCs]
        /\ used' \in [Ops -> SUBSET Blocks]
        /\ buf' \in [Ops -> Blocks \cup {NoBlock}]
    BY <1>a, <1>10 DEF Crash
  <2>2. lh' = <<>>
    BY <1>10 DEF Crash
  <2>3. lh' \in Seq(Blocks)
    BY <1>b, <2>2
  <2>4. /\ disk' \in [Blocks -> Vals] /\ cache' \in [Blocks -> Vals]
        /\ logdata' \in [Slots -> Vals] /\ head' \in Seq(Blocks)
    BY <1>10 DEF Crash
  <2>5. outstanding' \in Nat /\ stage' \in Stages /\ tail' \in Nat \ {0}
    BY <1>10 DEF Crash
  <2>6. committing' \in BOOLEAN /\ panicked' \in BOOLEAN
    BY <1>10 DEF Crash
  <2> QED
    BY <2>1, <2>3, <2>4, <2>5, <2>6
<1>11. CASE UNCHANGED vars
  BY <1>11 DEF vars
<1> QED
  BY <1>1, <1>2, <1>3, <1>4, <1>5, <1>6, <1>7, <1>8, <1>9, <1>10, <1>11
     DEF Next, Call, Commit

\* The calls in progress after a step that moves p alone, other sleepers only
\* being woken.
LEMMA OpenMoves ==
  ASSUME NEW p \in Ops,
         \A q \in Ops \ {p} : pc'[q] = pc[q] \/ (pc[q] = "sleep" /\ pc'[q] = "begin")
  PROVE  Open' = IF pc'[p] \in {"op", "append", "bwrite"}
                 THEN Open \cup {p} ELSE Open \ {p}
BY DEF Open

\* The bookkeeping of log.outstanding and log.committing survives each step.
LEMMA ControlInductive ==
  ASSUME IndInv, [Next]_vars
  PROVE  Control'
<1> USE LogAssumption DEF IndInv, diskVars, callVars, commitVars
<1>0. /\ pc \in [Ops -> PCs] /\ pc' \in [Ops -> PCs]
      /\ buf \in [Ops -> Blocks \cup {NoBlock}]
      /\ outstanding \in Nat /\ committing \in BOOLEAN
  BY TypesInductive DEF Types
<1>1. ASSUME NEW p \in Ops, begin_op(p) PROVE Control'
  <2>1. Control /\ Running /\ pc[p] \in {"idle", "begin"}
    BY <1>1 DEF begin_op
  <2>2. \A q \in Ops \ {p} : pc'[q] = pc[q]
    BY <1>0, <1>1 DEF begin_op
  <2>3. p \notin Open
    BY <2>1 DEF Open
  <2>4. CASE MustWait
    <3>1. pc'[p] = "sleep" /\ outstanding' = outstanding
      BY <1>0, <1>1, <2>4 DEF begin_op
    <3>2. Open' = Open
      BY <2>2, <2>3, <3>1, OpenMoves
    <3>3. committing \/ outstanding > 0
      <4>1. SUFFICES ASSUME ~committing, outstanding = 0 PROVE FALSE
        BY <1>0
      <4>2. Open = {}
        BY <2>1, <4>1, OpenFinite, FS_EmptySet DEF Control
      <4>3. Len(lh) = 0
        BY <2>1, <4>1, <4>2 DEF Control, Running, Recovering
      <4> QED
        BY <2>4, <4>1, <4>3 DEF MustWait
    <3> QED
      BY <1>0, <1>1, <2>1, <2>2, <3>1, <3>2, <3>3
         DEF Control, begin_op, NoLostWakeup, Recovering, Running
  <2>5. CASE ~MustWait
    <3>1. pc'[p] = "op" /\ outstanding' = outstanding + 1
      BY <1>0, <1>1, <2>5 DEF begin_op
    <3>2. Open' = Open \cup {p}
      BY <2>2, <3>1, OpenMoves
    <3>3. outstanding' = Cardinality(Open')
      <4>1. Cardinality(Open \cup {p}) = Cardinality(Open) + 1
        BY <2>3, OpenFinite, FS_AddElement
      <4>2. outstanding = Cardinality(Open)
        BY <2>1 DEF Control
      <4> QED
        BY <3>1, <3>2, <4>1, <4>2
    <3>4. ~committing /\ stage = "none"
      BY <2>1, <2>5 DEF MustWait, Running, Recovering
    <3> QED
      BY <1>0, <1>1, <2>1, <2>2, <3>1, <3>2, <3>3, <3>4
         DEF Control, begin_op, NoLostWakeup, Recovering
  <2> QED
    BY <2>4, <2>5
<1>2. ASSUME NEW p \in Ops, NEW b \in Blocks, NEW v \in Vals, log_write(p, b, v)
      PROVE  Control'
  <2>1. /\ pc[p] = "op" /\ pc'[p] = "append" /\ buf'[p] = b
        /\ \A q \in Ops \ {p} : pc'[q] = pc[q] /\ buf'[q] = buf[q]
    BY <1>0, <1>2 DEF log_write
  <2>2. Open' = Open
    BY <2>1, OpenMoves DEF Open
  <2> QED
    BY <1>0, <1>2, <2>1, <2>2 DEF Control, log_write, NoLostWakeup, Recovering
<1>3. ASSUME NEW p \in Ops, log_append(p) \/ writei_bwrite(p) PROVE Control'
  <2>1. /\ pc[p] \in {"append", "bwrite"}
        /\ \/ pc'[p] = "bwrite" /\ buf'[p] # NoBlock
           \/ pc'[p] = "op" /\ buf'[p] = NoBlock
        /\ \A q \in Ops \ {p} : pc'[q] = pc[q] /\ buf'[q] = buf[q]
    BY <1>0, <1>3 DEF log_append, writei_bwrite, Control
  <2>2. Open' = Open /\ p \in Open
    BY <2>1, OpenMoves DEF Open
  <2>3. stage = "none" /\ ~committing
    BY <1>3, <2>2 DEF Control, log_append, writei_bwrite
  <2> QED
    BY <1>0, <1>3, <2>1, <2>2, <2>3
       DEF Control, log_append, writei_bwrite, NoLostWakeup, Recovering
<1>4. ASSUME NEW p \in Ops, end_op(p) PROVE Control'
  <2>1. pc[p] = "op" /\ p \in Open /\ stage = "none" /\ ~committing
    BY <1>4 DEF end_op, Open, Control
  <2>2. CASE outstanding = 1
    <3>1. /\ pc'[p] = "commit" /\ outstanding' = 0 /\ committing'
          /\ \A q \in Ops \ {p} : pc'[q] = pc[q]
          /\ stage' = commit /\ lh' = lh /\ buf' = buf
      BY <1>0, <1>4, <2>2 DEF end_op
    <3>2. Open' = Open \ {p}
      BY <3>1, OpenMoves
    <3>3. Cardinality(Open') = 0 /\ Open' = {}
      <4>1. IsFiniteSet(Open \ {p}) /\ Cardinality(Open \ {p}) = Cardinality(Open) - 1
        BY <2>1, OpenFinite, FS_RemoveElement
      <4>2. Cardinality(Open) = 1
        BY <2>2 DEF Control
      <4>3. Cardinality(Open \ {p}) = 0
        BY <4>1, <4>2
      <4>4. Open \ {p} = {}
        BY <4>1, <4>3, FS_EmptySet
      <4> QED
        BY <3>2, <4>3, <4>4
    <3>4. stage' \in {"end", "write_log"} /\ (stage' = "end" => lh = <<>>)
      BY <3>1 DEF commit
    <3> QED
      BY <1>0, <2>1, <3>1, <3>3, <3>4 DEF Control, NoLostWakeup, Recovering
  <2>3. CASE outstanding # 1
    <3> DEFINE f == [pc EXCEPT ![p] = "idle"]
    <3>1. /\ pc' = Wakeup(f) /\ outstanding' = outstanding - 1
          /\ committing' = committing /\ stage' = stage /\ lh' = lh /\ buf' = buf
      BY <1>4, <2>3 DEF end_op
    <3>2. /\ f \in [Ops -> PCs] /\ f[p] = "idle"
          /\ \A q \in Ops \ {p} : f[q] = pc[q]
      BY <1>0 DEF PCs
    <3> HIDE DEF f
    <3>3. /\ pc'[p] = "idle"
          /\ \A q \in Ops \ {p} : pc'[q] = pc[q] \/ (pc[q] = "sleep" /\ pc'[q] = "begin")
          /\ \A q \in Ops : pc'[q] # "sleep"
      BY <3>1, <3>2, WakeupEffect
    <3>4. Open' = Open \ {p}
      BY <3>3, OpenMoves
    <3>5. outstanding' = Cardinality(Open') /\ Cardinality(Open') # 0
      <4>1. Cardinality(Open \ {p}) = Cardinality(Open) - 1
        BY <2>1, OpenFinite, FS_RemoveElement
      <4>2. outstanding = Cardinality(Open)
        BY DEF Control
      <4> QED
        BY <1>0, <2>3, <3>1, <3>4, <4>1, <4>2
    <3>6. Open' # {}
      BY <3>5, FS_EmptySet
    <3> QED
      BY <1>0, <2>1, <3>1, <3>3, <3>5, <3>6 DEF Control, NoLostWakeup, Recovering
  <2> QED
    BY <2>2, <2>3
<1>5. ASSUME NEW p \in Ops, commit_done(p) PROVE Control'
  <2> DEFINE f == [pc EXCEPT ![p] = "idle"]
  <2>1. /\ pc' = Wakeup(f) /\ outstanding' = outstanding
        /\ pc[p] = "commit" /\ stage = "end"
        /\ ~committing' /\ stage' = "none" /\ lh' = lh /\ buf' = buf
    BY <1>5 DEF commit_done
  <2>2. /\ f \in [Ops -> PCs] /\ f[p] = "idle"
        /\ \A q \in Ops \ {p} : f[q] = pc[q]
    BY <1>0 DEF PCs
  <2> HIDE DEF f
  <2>3. /\ pc'[p] = "idle"
        /\ \A q \in Ops \ {p} : pc'[q] = pc[q] \/ (pc[q] = "sleep" /\ pc'[q] = "begin")
        /\ \A q \in Ops : pc'[q] # "sleep"
    BY <2>1, <2>2, WakeupEffect
  <2>4. Open' = Open /\ Open = {}
    BY <2>1, <2>3, OpenMoves DEF Control, Open
  <2>5. \A q \in Ops : pc'[q] # "commit"
    BY <2>1, <2>3 DEF Control
  <2> QED
    BY <1>0, <2>1, <2>3, <2>4, <2>5 DEF Control, NoLostWakeup, Recovering
<1>6. ASSUME Commit PROVE Control'
  <2>1. /\ pc' = pc /\ buf' = buf /\ committing' = committing
        /\ outstanding' = outstanding /\ stage # "none" /\ stage # "end"
    BY <1>6 DEF Commit, write_log, write_head, read_head, install_trans, clear_head
  <2>2. Open' = Open /\ Open = {}
    BY <2>1 DEF Open, Control
  <2>3. /\ stage' = "none" => ~committing /\ stage = "clear"
        /\ stage' \in {"write_log", "write_head"} => committing
        /\ stage' \in {"end"} => committing
        /\ stage' \in {"none", "write_log", "write_head", "install", "clear", "end"}
        /\ stage' \in {"none", "clear", "end"} => lh' = <<>>
    BY <1>6
       DEF Commit, write_log, write_head, read_head, install_trans, clear_head, Control
  <2> QED
    BY <1>0, <2>1, <2>2, <2>3 DEF Control, NoLostWakeup, Recovering
<1>7. ASSUME Crash PROVE Control'
  <2>1. \A q \in Ops : pc'[q] = "idle" /\ buf'[q] = NoBlock
    BY <1>7 DEF Crash
  <2>2. Open' = {}
    BY <2>1 DEF Open
  <2>3. Cardinality(Open') = 0
    BY <2>2, FS_EmptySet
  <2> QED
    BY <1>7, <2>1, <2>2, <2>3 DEF Crash, Control, NoLostWakeup, Recovering
<1>8. CASE UNCHANGED vars
  BY <1>8 DEF vars, Control, Open, NoLostWakeup, Recovering
<1> QED
  BY <1>1, <1>2, <1>3, <1>4, <1>5, <1>6, <1>7, <1>8 DEF Next, Call
-----------------------------------------------------------------------------
(* The room in the log.                                                    *)

\* A block about to be named is already charged to the call that names it.
LEMMA PendingCharged ==
  ASSUME Types, Space
  PROVE  Cardinality(Pending) <= Cardinality(Charged)
<1> DEFINE T == {x[2] : x \in Charged}
           f == [x \in Charged |-> x[2]]
<1>1. f \in Surjection(Charged, T)
  BY DEF Surjection
<1>2. IsFiniteSet(T) /\ Cardinality(T) <= Cardinality(Charged)
  BY <1>1, Finite, FS_Surjection
<1>3. ASSUME NEW q \in Ops, pc[q] = "append" PROVE buf[q] \in T
  <2>1. buf[q] \in used[q] /\ q \in Open /\ used[q] \subseteq Blocks
    BY <1>3 DEF Space, Open, Types
  <2>2. <<q, buf[q]>> \in Charged
    BY <2>1 DEF Charged
  <2>3. <<q, buf[q]>>[2] = buf[q]
    OBVIOUS
  <2> QED
    BY <2>2, <2>3
<1>4. Pending \in SUBSET T
  BY <1>3 DEF Pending
<1> HIDE DEF T
<1>5. Cardinality(Pending) <= Cardinality(T)
  BY <1>2, <1>4, FS_Subset
<1> QED
  BY <1>2, <1>5, Finite, FS_CardinalityType

\* The sets the invariant counts, after a step that moves no call into or out
\* of the middle of log_write().
LEMMA PendingSame ==
  ASSUME buf' = buf,
         \A q \in Ops : pc'[q] = "append" <=> pc[q] = "append"
  PROVE  Pending' = Pending
BY DEF Pending

\* Nothing is pending, and nothing charged, while no call is in progress.
LEMMA NothingOpen ==
  ASSUME Open = {}
  PROVE  /\ Pending = {} /\ Names = InLog(lh)
         /\ Charged = {} /\ Cardinality(Charged) = 0
<1>1. Pending = {}
  BY DEF Pending, Open
<1>2. Charged = {}
  BY DEF Charged
<1> QED
  BY <1>1, <1>2, FS_EmptySet DEF Names

\* An empty log names nothing.
LEMMA EmptyLog ==
  InLog(<<>>) = {} /\ Cardinality(InLog(<<>>)) = 0 /\ OneToOne(<<>>)
<1>1. InLog(<<>>) = {}
  BY DEF InLog
<1> QED
  BY <1>1, FS_EmptySet DEF OneToOne

LEMMA SpaceBegin ==
  ASSUME IndInv, NEW p \in Ops, begin_op(p)
  PROVE  Space'
<1> USE LogAssumption DEF IndInv
<1>0. /\ pc \in [Ops -> PCs] /\ used \in [Ops -> SUBSET Blocks]
      /\ outstanding \in Nat /\ Len(lh) \in Nat
  BY DEF Types
<1>1. /\ lh' = lh /\ head' = head /\ tail' = tail /\ stage' = stage /\ buf' = buf
      /\ \A q \in Ops \ {p} : pc'[q] = pc[q] /\ used'[q] = used[q]
      /\ pc[p] \in {"idle", "begin"} /\ pc'[p] \in {"sleep", "op"}
  BY <1>0 DEF begin_op, diskVars, commitVars
<1>2. Pending' = Pending
  BY <1>1, PendingSame
<1>3. Names' = Names
  BY <1>1, <1>2 DEF Names
<1>4. p \notin Open
  BY <1>1 DEF Open
<1>5. Charged' = Charged
  BY <1>0, <1>1, <1>4 DEF Charged, Open, begin_op
<1>6. used'[p] = used[p] \/ used'[p] = {}
  BY <1>0 DEF begin_op
<1>7. \A q \in Open' : used'[q] \subseteq Names'
  BY <1>0, <1>1, <1>3, <1>4 DEF Open, Space, begin_op
<1>8. \A q \in Ops : Cardinality(used'[q]) <= OpBlocks
  <2>1. Cardinality({}) <= OpBlocks
    BY FS_EmptySet
  <2>2. \A q \in Ops : used'[q] = used[q] \/ used'[q] = {}
    BY <1>1, <1>6
  <2> QED
    BY <2>1, <2>2 DEF Space
<1>9. Cardinality(Names) + outstanding' * MAXOPBLOCKS
        <= LOGSIZE + Cardinality(Charged)
  <2>1. CASE outstanding' = outstanding
    BY <2>1 DEF Space
  <2>2. CASE ~MustWait /\ outstanding' = outstanding + 1
    <3>1. Len(lh) + outstanding' * MAXOPBLOCKS <= LOGSIZE
      BY <1>0, <2>2 DEF MustWait
    <3>2. Cardinality(Names) <= Len(lh) + Cardinality(Charged)
      <4>1. Cardinality(Names) =
              Cardinality(InLog(lh)) + Cardinality(Pending)
                - Cardinality(InLog(lh) \cap Pending)
        BY Finite, FS_Union DEF Names
      <4>2. Cardinality(InLog(lh) \cap Pending) \in Nat
        BY Finite, FS_Intersection, FS_CardinalityType
      <4>3. Cardinality(InLog(lh)) = Len(lh)
        BY LenIsCount DEF Types, Space
      <4>4. Cardinality(Pending) <= Cardinality(Charged)
        BY PendingCharged
      <4> QED
        BY <1>0, <4>1, <4>2, <4>3, <4>4, Finite
    <3>3. outstanding' * MAXOPBLOCKS \in Nat
      BY <1>0, <2>2
    <3> QED
      BY <1>0, <3>1, <3>2, <3>3, Finite
  <2> QED
    BY <2>1, <2>2 DEF begin_op
<1> QED
  BY <1>1, <1>3, <1>5, <1>7, <1>8, <1>9 DEF Space

LEMMA SpaceLogWrite ==
  ASSUME IndInv, NEW p \in Ops, NEW b \in Blocks, NEW v \in Vals, log_write(p, b, v)
  PROVE  Space'
<1> USE LogAssumption DEF IndInv
<1>0. /\ pc \in [Ops -> PCs] /\ used \in [Ops -> SUBSET Blocks]
      /\ buf \in [Ops -> Blocks \cup {NoBlock}] /\ outstanding \in Nat
  BY DEF Types
<1>1. /\ lh' = lh /\ head' = head /\ tail' = tail /\ stage' = stage
      /\ outstanding' = outstanding
      /\ \A q \in Ops \ {p} : pc'[q] = pc[q] /\ used'[q] = used[q] /\ buf'[q] = buf[q]
      /\ pc[p] = "op" /\ pc'[p] = "append" /\ buf'[p] = b
      /\ used'[p] = used[p] \cup {b}
      /\ b \in used[p] \/ Cardinality(used[p]) < OpBlocks
  BY <1>0 DEF log_write, diskVars, commitVars
<1>2. Pending' = Pending \cup {b}
  BY <1>1 DEF Pending
<1>3. Names' = Names \cup {b}
  BY <1>1, <1>2 DEF Names
<1>4. Open' = Open /\ p \in Open
  BY <1>1 DEF Open
<1>5. \A q \in Open' : used'[q] \subseteq Names'
  BY <1>1, <1>3, <1>4 DEF Space, Open
<1>6. \A q \in Ops : pc'[q] = "append" => buf'[q] \in used'[q]
  BY <1>1 DEF Space
<1>7. IsFiniteSet(used[p]) /\ Cardinality(used[p]) \in Nat
  BY <1>0, FS_Subset, FS_CardinalityType
<1>8. \A q \in Ops : Cardinality(used'[q]) <= OpBlocks
  <2>1. Cardinality(used[p] \cup {b}) <= OpBlocks
    <3>1. Cardinality(used[p] \cup {b}) =
            IF b \in used[p] THEN Cardinality(used[p]) ELSE Cardinality(used[p]) + 1
      BY <1>7, FS_AddElement
    <3>2. Cardinality(used[p]) <= OpBlocks
      BY DEF Space
    <3> QED
      BY <1>1, <1>7, <3>1, <3>2
  <2> QED
    BY <1>1, <2>1 DEF Space
<1>9. Cardinality(Names') + outstanding * MAXOPBLOCKS
        <= LOGSIZE + Cardinality(Charged')
  <2>1. CASE b \in used[p]
    <3>1. Names' = Names
      BY <1>3, <1>4, <2>1 DEF Space
    <3>2. Charged' = Charged
      BY <1>1, <1>4, <2>1 DEF Charged
    <3> QED
      BY <3>1, <3>2 DEF Space
  <2>2. CASE b \notin used[p]
    <3>1. Charged' = Charged \cup {<<p, b>>}
      BY <1>1, <1>4 DEF Charged, Open
    <3>2. <<p, b>> \notin Charged
      BY <2>2 DEF Charged
    <3>3. Cardinality(Charged') = Cardinality(Charged) + 1
      BY <3>1, <3>2, Finite, FS_AddElement
    <3>4. Cardinality(Names') <= Cardinality(Names) + 1
      <4>1. Cardinality(Names \cup {b}) =
              IF b \in Names THEN Cardinality(Names) ELSE Cardinality(Names) + 1
        BY Finite, FS_AddElement
      <4> QED
        BY <1>3, <4>1, Finite
    <3>5. /\ Cardinality(Names) + outstanding * MAXOPBLOCKS
               <= LOGSIZE + Cardinality(Charged)
          /\ outstanding * MAXOPBLOCKS \in Nat
      BY <1>0 DEF Space
    <3>6. Cardinality(Names') \in Nat
      BY <1>3, Finite, FS_AddElement, FS_CardinalityType
    <3> QED
      BY <3>3, <3>4, <3>5, <3>6, Finite
  <2> QED
    BY <2>1, <2>2
<1> QED
  BY <1>1, <1>5, <1>6, <1>8, <1>9 DEF Space

LEMMA SpaceLogAppend ==
  ASSUME IndInv, NEW p \in Ops, log_append(p) \/ writei_bwrite(p)
  PROVE  Space'
<1> USE LogAssumption DEF IndInv
<1>0. /\ pc \in [Ops -> PCs] /\ lh \in Seq(Blocks)
      /\ buf \in [Ops -> Blocks \cup {NoBlock}]
  BY DEF Types
<1>1. /\ head' = head /\ tail' = tail /\ stage' = stage
      /\ outstanding' = outstanding /\ used' = used
      /\ \A q \in Ops \ {p} : pc'[q] = pc[q] /\ buf'[q] = buf[q]
      /\ pc[p] \in {"append", "bwrite"} /\ pc'[p] \in {"bwrite", "op"}
      /\ lh' = IF pc[p] = "append" THEN Absorb(lh, buf[p]) ELSE lh
  BY <1>0 DEF log_append, writei_bwrite, diskVars, commitVars
<1>2. buf[p] \in Blocks
  BY <1>0, <1>1 DEF Control
<1>3. /\ InLog(lh') = InLog(lh) \cup (IF pc[p] = "append" THEN {buf[p]} ELSE {})
      /\ OneToOne(lh')
  BY <1>0, <1>1, <1>2, AbsorbEffect DEF Space
<1>4. Pending = Pending' \cup (IF pc[p] = "append" THEN {buf[p]} ELSE {})
  BY <1>1 DEF Pending
<1>5. Names' = Names
  BY <1>3, <1>4 DEF Names
<1>6. Open' = Open /\ p \in Open
  BY <1>1 DEF Open
<1>7. Charged' = Charged
  BY <1>1, <1>6 DEF Charged
<1>8. stage = "none"
  BY <1>6 DEF Control
<1> QED
  BY <1>1, <1>3, <1>5, <1>6, <1>7, <1>8 DEF Space

LEMMA SpaceEnd ==
  ASSUME IndInv, NEW p \in Ops, end_op(p)
  PROVE  Space'
<1> USE LogAssumption DEF IndInv
<1>0. /\ pc \in [Ops -> PCs] /\ used \in [Ops -> SUBSET Blocks]
      /\ outstanding \in Nat /\ Len(lh) \in Nat
  BY DEF Types
<1> DEFINE f == [pc EXCEPT ![p] = "idle"]
<1>1. /\ lh' = lh /\ head' = head /\ used' = used /\ buf' = buf
      /\ outstanding' = outstanding - 1 /\ pc[p] = "op"
      /\ \/ pc' = [pc EXCEPT ![p] = "commit"] /\ tail' = 1
         \/ pc' = Wakeup(f) /\ tail' = tail /\ stage' = stage
  BY DEF end_op, diskVars, commitVars
<1>2. /\ pc'[p] \in {"commit", "idle"}
      /\ \A q \in Ops \ {p} : pc'[q] = pc[q] \/ (pc[q] = "sleep" /\ pc'[q] = "begin")
  <2>1. CASE pc' = [pc EXCEPT ![p] = "commit"]
    BY <1>0, <2>1
  <2>2. CASE pc' = Wakeup(f)
    <3>1. /\ f \in [Ops -> PCs] /\ f[p] = "idle"
          /\ \A q \in Ops \ {p} : f[q] = pc[q]
      BY <1>0 DEF PCs
    <3> HIDE DEF f
    <3> QED
      BY <2>2, <3>1, WakeupEffect
  <2> QED
    BY <1>1, <2>1, <2>2
<1> HIDE DEF f
<1>3. Pending' = Pending
  BY <1>1, <1>2, PendingSame
<1>4. Names' = Names
  BY <1>1, <1>3 DEF Names
<1>5. p \in Open /\ Open' = Open \ {p}
  BY <1>1, <1>2, OpenMoves DEF Open
<1>6. Charged = Charged' \cup ({p} \X used[p])
  BY <1>0, <1>1, <1>5 DEF Charged
<1>7. IsFiniteSet(used[p]) /\ Cardinality(used[p]) \in Nat
  BY <1>0, FS_Subset, FS_CardinalityType
<1>8. IsFiniteSet({p}) /\ Cardinality({p}) = 1
  BY FS_Singleton
<1>9. /\ IsFiniteSet({p} \X used[p])
      /\ Cardinality({p} \X used[p]) = Cardinality(used[p])
  BY <1>7, <1>8, FS_Product
<1>10. IsFiniteSet(Charged') /\ Cardinality(Charged') \in Nat
  <2>1. Charged' \in SUBSET Charged
    BY <1>6
  <2> QED
    BY <2>1, Finite, FS_Subset, FS_CardinalityType
<1>11. Cardinality(Charged) <= Cardinality(Charged') + MAXOPBLOCKS
  <2> DEFINE A == Charged'
             B == {p} \X used[p]
  <2>1. IsFiniteSet(A) /\ IsFiniteSet(B) /\ Charged = A \cup B
        /\ Cardinality(B) = Cardinality(used[p]) /\ Cardinality(A) \in Nat
    BY <1>6, <1>9, <1>10
  <2> HIDE DEF A, B
  <2>2. /\ Cardinality(A \cup B) =
             Cardinality(A) + Cardinality(B) - Cardinality(A \cap B)
        /\ Cardinality(A \cap B) \in Nat
    BY <2>1, FS_Union, FS_Intersection, FS_CardinalityType
  <2>3. Cardinality(used[p]) <= OpBlocks
    BY DEF Space
  <2>4. Cardinality(Charged) <= Cardinality(A) + MAXOPBLOCKS
    BY <1>7, <2>1, <2>2, <2>3
  <2> QED
    BY <2>4 DEF A
<1>12. Cardinality(Names) + outstanding' * MAXOPBLOCKS
         <= LOGSIZE + Cardinality(Charged')
  <2>1. outstanding' * MAXOPBLOCKS = outstanding * MAXOPBLOCKS - MAXOPBLOCKS
    BY <1>0, <1>1
  <2>2. /\ outstanding * MAXOPBLOCKS \in Nat
        /\ Cardinality(Names) + outstanding * MAXOPBLOCKS
             <= LOGSIZE + Cardinality(Charged)
    BY <1>0 DEF Space
  <2> QED
    BY <1>10, <1>11, <2>1, <2>2, Finite
<1>13. \A q \in Ops : pc'[q] = "append" => pc[q] = "append"
  BY <1>2
<1> QED
  BY <1>0, <1>1, <1>4, <1>5, <1>12, <1>13 DEF Space

\* commit(), recovery and crash: no call is in progress, so the header alone
\* counts.
LEMMA SpaceQuiet ==
  ASSUME IndInv, Types', Control', Open' = {}, outstanding' = 0,
         OneToOne(lh'), OneToOne(head'),
         Cardinality(InLog(head')) <= LOGSIZE,
         Cardinality(InLog(lh')) <= LOGSIZE,
         tail' <= Len(lh') + 1 \/ stage' \notin {"write_log", "install"},
         \A p \in Ops : used'[p] = used[p] \/ used'[p] = {}
  PROVE  Space'
<1>1. /\ Names' = InLog(lh') /\ Cardinality(Charged') = 0
  <2>1. Pending' = {}
    BY DEF Pending, Open
  <2>2. Charged' = {}
    BY DEF Charged
  <2> QED
    BY <2>1, <2>2, FS_EmptySet DEF Names
<1>2. \A p \in Ops : pc'[p] # "append"
  BY DEF Open
<1>3. Cardinality({}) <= OpBlocks
  BY FS_EmptySet, LogAssumption
<1>4. \A p \in Ops : Cardinality(used'[p]) <= OpBlocks
  BY <1>3 DEF IndInv, Space
<1>5. Cardinality(Names') + outstanding' * MAXOPBLOCKS
        <= LOGSIZE + Cardinality(Charged')
  <2>1. Cardinality(Names') \in Nat
    <3>1. InLog(lh') \in SUBSET Blocks
      BY DEF Types, InLog
    <3> QED
      BY <1>1, <3>1, FS_Subset, FS_CardinalityType, LogAssumption
  <2> QED
    BY <1>1, <2>1, LogAssumption
<1> QED
  BY <1>2, <1>4, <1>5 DEF Space

\* begin_op()'s accounting survives each step.
LEMMA SpaceInductive ==
  ASSUME IndInv, [Next]_vars
  PROVE  Space'
<1> USE LogAssumption DEF IndInv, diskVars, callVars, commitVars
<1>0. Types' /\ Control'
  BY TypesInductive, ControlInductive
<1>1. /\ Len(lh) \in Nat /\ tail \in Nat
      /\ Space /\ Control /\ OneToOne(lh) /\ OneToOne(head)
      /\ Cardinality(InLog(head)) <= LOGSIZE
  BY DEF Types, Space
<1>2. Cardinality(InLog(lh)) <= LOGSIZE
  BY RoomLeft, LenIsCount DEF Types, Space
<1>3. ASSUME Commit PROVE Space'
  <2>1. /\ outstanding' = outstanding /\ used' = used /\ pc' = pc /\ stage # "none"
    BY <1>3 DEF Commit, write_log, write_head, read_head, install_trans, clear_head
  <2>2. Open' = {} /\ outstanding' = 0
    BY <2>1, FS_EmptySet DEF Control, Open
  <2>3. /\ lh' \in {lh, head, <<>>}
        /\ head' \in {lh, head}
    BY <1>3 DEF Commit, write_log, write_head, read_head, install_trans, clear_head
  <2>4. /\ OneToOne(lh') /\ OneToOne(head')
        /\ Cardinality(InLog(head')) <= LOGSIZE
        /\ Cardinality(InLog(lh')) <= LOGSIZE
    BY <1>1, <1>2, <2>3, EmptyLog
  <2>5. Len(lh') \in Nat
    BY <1>0 DEF Types
  <2>6. tail' <= Len(lh') + 1 \/ stage' \notin {"write_log", "install"}
    <3>1. CASE write_log
      BY <1>1, <3>1 DEF write_log, Space
    <3>2. CASE write_head \/ read_head
      BY <2>5, <3>2 DEF write_head, read_head
    <3>3. CASE install_trans
      BY <1>1, <3>3 DEF install_trans, Space
    <3>4. CASE clear_head
      BY <3>4 DEF clear_head
    <3> QED
      BY <1>3, <3>1, <3>2, <3>3, <3>4 DEF Commit
  <2> QED
    BY <1>0, <2>1, <2>2, <2>4, <2>6, SpaceQuiet
<1>4. ASSUME NEW p \in Ops, commit_done(p) PROVE Space'
  <2>1. /\ outstanding' = outstanding /\ used' = used /\ lh' = lh /\ head' = head
        /\ stage' = "none" /\ stage = "end"
    BY <1>4 DEF commit_done
  <2>2. Open = {}
    BY <2>1 DEF Control
  <2>3. outstanding' = 0
    BY <2>1, <2>2, FS_EmptySet DEF Control
  <2>4. Cardinality(Open') = 0 /\ IsFiniteSet(Open')
    <3>1. Open' \in SUBSET Ops
      BY DEF Open
    <3> QED
      BY <1>0, <2>3, <3>1, FS_Subset DEF Control
  <2>5. Open' = {}
    BY <2>4, FS_EmptySet
  <2> QED
    BY <1>0, <1>1, <1>2, <2>1, <2>3, <2>5, SpaceQuiet
<1>5. ASSUME Crash PROVE Space'
  <2>1. /\ lh' = <<>> /\ head' = head /\ outstanding' = 0
        /\ stage' = "read_head" /\ \A p \in Ops : used'[p] = {} /\ pc'[p] = "idle"
    BY <1>5 DEF Crash
  <2>2. Open' = {}
    BY <2>1 DEF Open
  <2>3. OneToOne(lh') /\ Cardinality(InLog(lh')) <= LOGSIZE
    BY <2>1, EmptyLog
  <2> QED
    BY <1>0, <1>1, <2>1, <2>2, <2>3, SpaceQuiet
<1>6. CASE UNCHANGED vars
  BY <1>1, <1>6 DEF vars, Space, Names, Pending, Charged, Open
<1> QED
  BY <1>3, <1>4, <1>5, <1>6, SpaceBegin, SpaceLogWrite, SpaceLogAppend, SpaceEnd
     DEF Next, Call
-----------------------------------------------------------------------------
(* The invariant holds, and what follows from it.                          *)

\* A fresh disk satisfies the invariant.
LEMMA InitInv ==
  ASSUME Init
  PROVE  IndInv
<1> USE LogAssumption DEF Init
<1>1. Open = {} /\ outstanding = 0 /\ \A p \in Ops : pc[p] = "idle"
  BY DEF Open
<1>2. Cardinality(Open) = 0
  BY <1>1, FS_EmptySet
<1>3. Types
  <2>1. disk \in [Blocks -> Vals] /\ logdata \in [Slots -> Vals] /\ cache = disk
    OBVIOUS
  <2>2. <<>> \in Seq(Blocks)
    OBVIOUS
  <2>3. head \in Seq(Blocks) /\ lh \in Seq(Blocks)
    BY <2>2
  <2>4. stage \in Stages /\ tail \in Nat \ {0}
    BY DEF Stages
  <2>5. /\ pc \in [Ops -> PCs] /\ used \in [Ops -> SUBSET Blocks]
        /\ buf \in [Ops -> Blocks \cup {NoBlock}]
    BY DEF PCs
  <2>6. committing \in BOOLEAN /\ panicked \in BOOLEAN
    OBVIOUS
  <2> QED
    BY <1>1, <2>1, <2>3, <2>4, <2>5, <2>6 DEF Types
<1>4. Control
  BY <1>1, <1>2 DEF Control, NoLostWakeup, Recovering
<1>5. Space
  <2>1. OneToOne(lh) /\ OneToOne(head) /\ InLog(head) = {} /\ InLog(lh) = {}
    BY EmptyLog
  <2>2. Cardinality(Names) = 0 /\ Cardinality(Charged) = 0
    BY <1>1, <2>1, NothingOpen, FS_EmptySet
  <2>3. \A p \in Ops : Cardinality(used[p]) = 0
    BY FS_EmptySet
  <2>4. Cardinality(InLog(head)) = 0
    BY <2>1, FS_EmptySet
  <2> QED
    BY <1>1, <2>1, <2>2, <2>3, <2>4 DEF Space
<1> QED
  BY <1>3, <1>4, <1>5 DEF IndInv

\* The inductive invariant: for any number of calls and blocks, the types, the
\* bookkeeping of begin_op()/end_op() and the accounting of the log's room.
THEOREM Invariance == Spec => []IndInv
<1>1. IndInv /\ [Next]_vars => IndInv'
  BY TypesInductive, ControlInductive, SpaceInductive DEF IndInv
<1> QED
  BY InitInv, <1>1, PTL DEF Spec

\* TypeOK holds for every number of processes and blocks and every log size:
\* begin_op() admits no more calls than log.lh.block[] has room for, and the
\* loops of write_log() and install_trans() stay inside the log.
THEOREM TypeCorrect == Spec => []TypeOK
<1>1. Init => TypeOK
  <2> SUFFICES ASSUME Init PROVE TypeOK
    OBVIOUS
  <2>1. Types
    BY InitInv DEF IndInv
  <2>2. outstanding * MAXOPBLOCKS <= LOGSIZE /\ tail \in 1..(LOGSIZE + 1)
    BY LogAssumption DEF Init
  <2> QED
    BY <2>1, <2>2 DEF TypeOK, Types
<1>2. IndInv /\ TypeOK /\ [Next]_vars => TypeOK'
  <2> SUFFICES ASSUME IndInv, TypeOK, [Next]_vars PROVE TypeOK'
    OBVIOUS
  <2> USE LogAssumption DEF diskVars, callVars, commitVars
  <2>1. Types'
    BY TypesInductive
  <2>2. /\ outstanding \in Nat /\ tail \in 1..(LOGSIZE + 1) /\ Len(lh) \in Nat
        /\ outstanding * MAXOPBLOCKS <= LOGSIZE
        /\ outstanding' \in Nat /\ Len(lh) <= LOGSIZE
    BY <2>1, RoomLeft DEF TypeOK, Types
  <2>3. \/ outstanding' \in {outstanding, outstanding - 1, 0}
        \/ ~MustWait /\ outstanding' = outstanding + 1
    <3>1. ASSUME NEW p \in Ops, begin_op(p)
          PROVE  \/ outstanding' = outstanding
                 \/ ~MustWait /\ outstanding' = outstanding + 1
      BY <3>1 DEF begin_op
    <3> QED
      BY <3>1 DEF Next, Call, Commit, log_write, log_append, writei_bwrite, end_op,
           commit_done, write_log, write_head, read_head, install_trans, clear_head,
           Crash, vars
  <2>4. outstanding' * MAXOPBLOCKS <= LOGSIZE
    <3>1. CASE outstanding' = outstanding
      BY <2>2, <3>1
    <3>2. CASE outstanding' = outstanding - 1
      <4>1. (outstanding - 1) * MAXOPBLOCKS = outstanding * MAXOPBLOCKS - MAXOPBLOCKS
        BY <2>2
      <4>2. outstanding * MAXOPBLOCKS \in Nat
        BY <2>2
      <4> QED
        BY <2>2, <3>2, <4>1, <4>2
    <3>3. CASE outstanding' = 0
      BY <3>3
    <3>4. CASE ~MustWait /\ outstanding' = outstanding + 1
      BY <2>2, <3>4 DEF MustWait
    <3> QED
      BY <2>3, <3>1, <3>2, <3>3, <3>4
  <2>5. \/ tail' = tail
        \/ tail' = 1
        \/ tail <= Len(lh) /\ tail' = tail + 1
    BY <2>2 DEF Next, Call, Commit, begin_op, log_write, log_append, writei_bwrite,
           end_op, commit_done, write_log, write_head, read_head, install_trans,
           clear_head, Crash, vars
  <2>6. tail' \in 1..(LOGSIZE + 1)
    BY <2>2, <2>5
  <2> QED
    BY <2>1, <2>4, <2>6 DEF TypeOK, Types
<1> QED
  BY <1>1, <1>2, Invariance, PTL DEF Spec

\* log.c:12-15 for every instance: a commit runs alone.
THEOREM CommitsAlone == Spec => []CommitAlone
<1>1. IndInv => CommitAlone
  <2> SUFFICES ASSUME IndInv, committing PROVE
        Open = {} /\ Cardinality({p \in Ops : pc[p] = "commit"}) = 1
    BY DEF CommitAlone
  <2>1. Open = {}
    BY DEF IndInv, Control
  <2>2. PICK p \in Ops : \A q \in Ops : pc[q] = "commit" <=> q = p
    BY DEF IndInv, Control
  <2>3. {q \in Ops : pc[q] = "commit"} = {p}
    BY <2>2
  <2> QED
    BY <2>1, <2>3, FS_Singleton
<1> QED
  BY <1>1, Invariance, PTL

\* begin_op()'s reservation is enough: no interleaving of calls that keep to
\* MAXOPBLOCKS names more blocks than log.lh.block[] holds.
THEOREM LogAlwaysFits == Spec => []LogFits
<1>1. IndInv => LogFits
  <2> SUFFICES ASSUME IndInv PROVE Cardinality(Names) <= LOGSIZE
    BY DEF LogFits
  <2>1. Types /\ outstanding \in Nat
    BY DEF IndInv, Types
  <2>2. outstanding * (MAXOPBLOCKS - OpBlocks) \in Nat
    BY <2>1, LogAssumption
  <2>3. Cardinality(Names) \in Nat
    BY <2>1, Finite
  <2> QED
    BY <2>2, <2>3, RoomLeft, LogAssumption
<1> QED
  BY <1>1, Invariance, PTL

\* A process asleep in begin_op() is never left without a process that will
\* wake it.
THEOREM NoWakeupLost == Spec => []NoLostWakeup
<1>1. IndInv => NoLostWakeup
  BY DEF IndInv, Control
<1> QED
  BY <1>1, Invariance, PTL

\* No panic of log.c is reachable when the log area holds LOGSIZE blocks and
\* each call stays two blocks under its reservation: the header takes one of
\* the LOGSIZE blocks mkfs sets aside, and log_write() refuses the last place
\* even for a block it would absorb.
THEOREM NeverPanics ==
  ASSUME NLOG >= LOGSIZE, OpBlocks + 2 <= MAXOPBLOCKS
  PROVE  Spec => []NoPanic
<1> USE LogAssumption
<1>1. Init => NoPanic
  BY DEF Init, NoPanic
<1>2. IndInv /\ NoPanic /\ [Next]_vars => NoPanic'
  <2> SUFFICES ASSUME IndInv, NoPanic, [Next]_vars PROVE NoPanic'
    OBVIOUS
  <2>1. ASSUME NEW p \in Ops, NEW b \in Blocks, NEW v \in Vals, log_write(p, b, v)
        PROVE  ~LogWritePanics
    <3>1. p \in Open
      BY <2>1 DEF log_write, Open
    <3>2. outstanding \in Nat \ {0}
      BY <3>1, OpenFinite, FS_EmptySet DEF IndInv, Control, Types
    <3>3. 2 <= outstanding * (MAXOPBLOCKS - OpBlocks)
      <4>1. 1 * (MAXOPBLOCKS - OpBlocks) <= outstanding * (MAXOPBLOCKS - OpBlocks)
        BY <3>2
      <4> QED
        BY <3>2, <4>1
    <3>4. Cardinality(Names) \in Nat /\ Len(lh) \in Nat
      BY Finite DEF IndInv, Types
    <3>5. /\ Cardinality(Names) + outstanding * (MAXOPBLOCKS - OpBlocks) <= LOGSIZE
          /\ Len(lh) <= Cardinality(Names)
      BY RoomLeft
    <3>6. outstanding * (MAXOPBLOCKS - OpBlocks) \in Nat
      BY <3>2
    <3>7. Len(lh) + 2 <= LOGSIZE
      BY <3>3, <3>4, <3>5, <3>6
    <3> QED
      BY <3>2, <3>4, <3>7 DEF LogWritePanics
  <2>2. ASSUME NEW p \in Ops, end_op(p) PROVE ~committing
    BY <2>2 DEF end_op, Open, IndInv, Control
  <2> QED
    BY <2>1, <2>2 DEF Next, Call, Commit, begin_op, log_write, log_append,
         writei_bwrite, end_op, commit_done, write_log, write_head, read_head,
         install_trans, clear_head, Crash, vars, NoPanic
<1> QED
  BY <1>1, <1>2, Invariance, PTL DEF Spec
-----------------------------------------------------------------------------
(* Log implements GroupCommit, for every instance in which every write      *)
(* goes through the log (part1's writei(), WriteThrough = {}).              *)

\* Data, and no process in the middle of a write that bypasses the log.
DataInv == Data /\ \A p \in Ops : pc[p] # "bwrite"

\* What a reboot would find, block by block.
LEMMA RecoveredBlocks ==
  ASSUME Types, Space
  PROVE  /\ Recovered = [b \in Blocks |-> Recovered[b]]
         /\ \A i \in 1..Len(head) : Recovered[head[i]] = logdata[i]
         /\ \A b \in Blocks \ InLog(head) : Recovered[b] = disk[b]
         /\ head = <<>> => Recovered = disk
<1>1. ASSUME NEW i \in 1..Len(head) PROVE Recovered[head[i]] = logdata[i]
  <2>1. head[i] \in InLog(head) /\ head[i] \in Blocks
    BY DEF InLog, Types
  <2>2. (CHOOSE j \in 1..Len(head) : head[j] = head[i]) = i
    BY DEF Space, OneToOne
  <2> QED
    BY <2>1, <2>2 DEF Recovered
<1>2. \A b \in Blocks \ InLog(head) : Recovered[b] = disk[b]
  BY DEF Recovered
<1>3. Recovered = [b \in Blocks |-> Recovered[b]]
  BY DEF Recovered
<1>4. ASSUME head = <<>> PROVE Recovered = disk
  <2>1. InLog(head) = {}
    BY <1>4, EmptyLog
  <2>2. Recovered = [b \in Blocks |-> disk[b]]
    BY <1>2, <1>3, <2>1
  <2> QED
    BY <2>2 DEF Types
<1> QED
  BY <1>1, <1>2, <1>3, <1>4

\* The blocks the log names change only in log_write() and in the steps of
\* commit() and recovery.
LEMMA NamesOfCall ==
  ASSUME IndInv, NEW p \in Ops,
         begin_op(p) \/ log_append(p) \/ end_op(p) \/ commit_done(p)
  PROVE  Names' = Names
<1> USE DEF IndInv, diskVars, callVars, commitVars
<1>0. /\ pc \in [Ops -> PCs] /\ lh \in Seq(Blocks)
      /\ buf \in [Ops -> Blocks \cup {NoBlock}]
  BY DEF Types
<1>1. CASE begin_op(p)
  BY <1>0, <1>1, PendingSame DEF begin_op, Names
<1>2. CASE log_append(p)
  <2>1. buf[p] \in Blocks
    BY <1>0, <1>2 DEF log_append, Control
  <2>2. InLog(lh') = InLog(lh) \cup {buf[p]}
    BY <1>0, <1>2, <2>1, AbsorbEffect DEF log_append
  <2>3. Pending = Pending' \cup {buf[p]}
    BY <1>0, <1>2 DEF log_append, Pending
  <2> QED
    BY <2>2, <2>3 DEF Names
<1>3. CASE end_op(p) \/ commit_done(p)
  <2> DEFINE f == [pc EXCEPT ![p] = "idle"]
  <2>1. f \in [Ops -> PCs] /\ f[p] = "idle" /\ \A q \in Ops \ {p} : f[q] = pc[q]
    BY <1>0 DEF PCs
  <2>2. /\ pc[p] \in {"op", "commit"} /\ buf' = buf /\ lh' = lh
        /\ pc' = [pc EXCEPT ![p] = "commit"] \/ pc' = Wakeup(f)
    BY <1>3 DEF end_op, commit_done
  <2> HIDE DEF f
  <2>3. \A q \in Ops : pc'[q] = "append" <=> pc[q] = "append"
    <3>1. CASE pc' = [pc EXCEPT ![p] = "commit"]
      BY <1>0, <2>2, <3>1
    <3>2. CASE pc' = Wakeup(f)
      BY <1>0, <2>1, <2>2, <3>2, WakeupEffect
    <3> QED
      BY <2>2, <3>1, <3>2
  <2> QED
    BY <2>2, <2>3, PendingSame DEF Names
<1> QED
  BY <1>1, <1>2, <1>3
-----------------------------------------------------------------------------
(* Where the contents are.                                                 *)

\* The steps of a call keep the cache and the home blocks apart only where
\* the log names a block.
LEMMA DataCall ==
  ASSUME WriteThrough = {}, IndInv, DataInv, Control', NEW p \in Ops, Call(p)
  PROVE  DataInv'
<1> USE DEF IndInv, diskVars, callVars, commitVars
<1>0. /\ pc \in [Ops -> PCs] /\ buf \in [Ops -> Blocks \cup {NoBlock}]
      /\ cache \in [Blocks -> Vals]
  BY DEF Types
<1>1. CASE begin_op(p)
  BY <1>0, <1>1, NamesOfCall DEF begin_op, DataInv, Data, Recovering
<1>2. CASE \E b \in Blocks, v \in Vals : log_write(p, b, v)
  <2>1. PICK b \in Blocks, v \in Vals : log_write(p, b, v)
    BY <1>2
  <2>2. /\ pc[p] = "op" /\ pc'[p] = "append" /\ buf'[p] = b
        /\ \A q \in Ops \ {p} : pc'[q] = pc[q] /\ buf'[q] = buf[q]
        /\ lh' = lh /\ head' = head /\ stage' = stage /\ committing' = committing
        /\ disk' = disk /\ \A c \in Blocks \ {b} : cache'[c] = cache[c]
    BY <1>0, <2>1 DEF log_write
  <2>3. Names' = Names \cup {b}
    BY <2>2 DEF Names, Pending
  <2>4. stage = "none"
    BY <2>2 DEF Control, Open
  <2>5. ~Recovering /\ ~Recovering'
    BY <2>2, <2>4 DEF Recovering
  <2> QED
    BY <2>2, <2>3, <2>4, <2>5 DEF DataInv, Data
<1>3. CASE log_append(p)
  <2>1. /\ pc[p] = "append" /\ pc'[p] = "op"
        /\ \A q \in Ops \ {p} : pc'[q] = pc[q]
        /\ head' = head /\ stage' = stage /\ committing' = committing
        /\ disk' = disk /\ cache' = cache
    BY <1>0, <1>3 DEF log_append
  <2>2. stage = "none"
    BY <2>1 DEF Control, Open
  <2>3. ~Recovering /\ ~Recovering'
    BY <2>1, <2>2 DEF Recovering
  <2>4. Names' = Names
    BY <1>3, NamesOfCall
  <2> QED
    BY <2>1, <2>2, <2>3, <2>4 DEF DataInv, Data
<1>4. CASE end_op(p) \/ commit_done(p)
  <2>1. /\ lh' = lh /\ head' = head /\ disk' = disk /\ cache' = cache
        /\ stage \in {"none", "end"} /\ ~Recovering
        /\ \/ stage' \in {"none", "end"}
           \/ stage' = "write_log" /\ tail' = 1
    BY <1>4 DEF end_op, commit_done, commit, Control, Open, Running, Recovering
  <2>2. Names' = Names
    BY <1>4, NamesOfCall
  <2>3. \A q \in Ops : pc'[q] # "bwrite"
    <3> DEFINE f == [pc EXCEPT ![p] = "idle"]
    <3>1. f \in [Ops -> PCs] /\ \A q \in Ops : f[q] # "bwrite"
      BY <1>0 DEF PCs, DataInv
    <3>2. pc' = [pc EXCEPT ![p] = "commit"] \/ pc' = Wakeup(f)
      BY <1>4 DEF end_op, commit_done
    <3>3. CASE pc' = [pc EXCEPT ![p] = "commit"]
      BY <1>0, <3>3 DEF DataInv
    <3>4. CASE pc' = Wakeup(f)
      <4> HIDE DEF f
      <4>1. \A q \in Ops : f[q] = "sleep" \/ Wakeup(f)[q] = f[q]
        BY <3>1, WakeupEffect
      <4>2. \A q \in Ops : f[q] = "sleep" => Wakeup(f)[q] = "begin"
        BY <3>1, WakeupEffect
      <4> QED
        BY <3>1, <3>4, <4>1, <4>2
    <3> QED
      BY <3>2, <3>3, <3>4
  <2>4. ~Recovering'
    BY <1>4 DEF end_op, commit_done, Control, Open, Recovering
  <2> QED
    BY <2>1, <2>2, <2>3, <2>4 DEF DataInv, Data
<1>5. CASE writei_bwrite(p)
  BY <1>5 DEF writei_bwrite, DataInv
<1> QED
  BY <1>1, <1>2, <1>3, <1>4, <1>5 DEF Call

\* commit() and recovery carry the blocks from the cache to the log and home.
LEMMA DataCommit ==
  ASSUME IndInv, DataInv, Control', Types', Commit
  PROVE  DataInv'
<1> USE DEF IndInv, diskVars, callVars, commitVars
<1>0. /\ head \in Seq(Blocks) /\ lh \in Seq(Blocks)
      /\ Len(lh) \in Nat /\ Len(head) \in Nat /\ tail \in Nat \ {0}
      /\ disk \in [Blocks -> Vals] /\ cache \in [Blocks -> Vals]
      /\ logdata \in [Slots -> Vals] /\ Len(lh) <= LOGSIZE
      /\ \A i \in 1..Len(lh) : i \in Slots /\ lh[i] \in Blocks
  BY RoomLeft, LogAssumption DEF Types, Slots
<1>1. /\ pc' = pc /\ buf' = buf /\ committing' = committing
      /\ stage \notin {"none", "end"} /\ \A p \in Ops : pc'[p] # "bwrite"
  BY DEF Commit, write_log, write_head, read_head, install_trans, clear_head, DataInv
<1>2. Open = {} /\ Open' = {}
  BY <1>1 DEF Control, Open
<1>3. /\ Names = InLog(lh)
      /\ Names' = InLog(lh')
  <2>1. Pending = {} /\ Pending' = {}
    BY <1>1, <1>2 DEF Pending, Open
  <2> QED
    BY <2>1 DEF Names
<1>4. Data
  BY DEF DataInv
<1>5. CASE write_log
  <2>1. /\ stage = "write_log" /\ committing /\ ~Recovering /\ ~Recovering'
        /\ head' = head /\ disk' = disk /\ cache' = cache /\ lh' = lh
    BY <1>1, <1>5 DEF write_log, Control, Recovering
  <2>2. CASE tail <= Len(lh)
    <3>1. stage' = "write_log" /\ tail' = tail + 1
          /\ logdata' = [logdata EXCEPT ![tail] = cache[lh[tail]]]
      BY <1>0, <1>5, <2>2 DEF write_log
    <3>2. \A i \in 1..Len(lh) : i < tail' => logdata'[i] = cache[lh[i]]
      <4> SUFFICES ASSUME NEW i \in 1..Len(lh), i < tail + 1
                   PROVE  logdata'[i] = cache[lh[i]]
        BY <3>1
      <4>1. CASE i = tail
        BY <1>0, <3>1, <4>1
      <4>2. CASE i # tail
        <5>1. i < tail
          BY <1>0, <4>2
        <5> QED
          BY <1>0, <1>4, <2>1, <3>1, <4>2, <5>1 DEF Data
      <4> QED
        BY <4>1, <4>2
    <3> QED
      BY <1>1, <1>3, <1>4, <2>1, <3>1, <3>2 DEF DataInv, Data
  <2>3. CASE tail > Len(lh)
    <3>1. stage' = "write_head" /\ logdata' = logdata
      BY <1>0, <1>5, <2>3 DEF write_log
    <3>2. \A i \in 1..Len(lh) : logdata[i] = cache[lh[i]]
      BY <1>0, <1>4, <2>1, <2>3 DEF Data
    <3> QED
      BY <1>1, <1>3, <1>4, <2>1, <3>1, <3>2 DEF DataInv, Data
  <2> QED
    BY <1>0, <2>2, <2>3
<1>6. CASE write_head
  <2>1. /\ stage = "write_head" /\ committing /\ ~Recovering /\ ~Recovering'
        /\ head' = lh /\ disk' = disk /\ cache' = cache /\ lh' = lh
        /\ logdata' = logdata /\ stage' = "install" /\ tail' = 1
    BY <1>1, <1>6 DEF write_head, Control, Recovering
  <2>2. head = <<>> /\ InLog(head) = {}
    BY <1>4, <2>1, EmptyLog DEF Data
  <2> QED
    BY <1>0, <1>1, <1>3, <1>4, <2>1, <2>2 DEF DataInv, Data
<1>7. CASE read_head
  <2>1. /\ stage = "read_head" /\ ~committing /\ Recovering /\ Recovering'
        /\ lh' = head /\ head' = head /\ disk' = disk /\ cache' = cache
        /\ logdata' = logdata /\ stage' = "install" /\ tail' = 1
    BY <1>1, <1>7 DEF read_head, Control, Recovering
  <2> QED
    BY <1>0, <1>1, <1>4, <2>1 DEF DataInv, Data
<1>8. CASE install_trans
  <2>1. /\ stage = "install" /\ head = lh /\ head' = head /\ logdata' = logdata
        /\ Recovering' = Recovering /\ stage' \in {"install", "clear"}
    BY <1>1, <1>4, <1>8 DEF install_trans, Recovering, Data
  <2>2. CASE tail <= Len(lh)
    <3>1. /\ stage' = "install" /\ tail' = tail + 1 /\ lh' = lh
          /\ disk' = [disk EXCEPT ![lh[tail]] = logdata[tail]]
          /\ cache' = [cache EXCEPT ![lh[tail]] = logdata[tail]]
      BY <1>0, <1>8, <2>2 DEF install_trans
    <3>2. tail \in 1..Len(head) /\ lh[tail] \in Blocks /\ lh[tail] \in InLog(head)
      BY <1>0, <2>1, <2>2 DEF InLog
    <3>3. \A b \in Blocks \ InLog(head) : disk'[b] = disk[b] /\ cache'[b] = cache[b]
      BY <1>0, <3>1, <3>2
    <3>4. ASSUME NEW i \in 1..Len(head)
          PROVE  /\ i = tail => disk'[head[i]] = logdata[i] /\ cache'[head[i]] = logdata[i]
                 /\ i # tail => disk'[head[i]] = disk[head[i]] /\ cache'[head[i]] = cache[head[i]]
      <4>1. head[i] = head[tail] <=> i = tail
        BY <3>2 DEF Space, OneToOne
      <4> QED
        BY <1>0, <2>1, <3>1, <3>2, <4>1
    <3>5. \A i \in 1..Len(head) : i < tail' => disk'[head[i]] = logdata[i]
      <4> SUFFICES ASSUME NEW i \in 1..Len(head), i < tail + 1
                   PROVE  disk'[head[i]] = logdata[i]
        BY <3>1
      <4>1. i = tail \/ i < tail
        BY <1>0
      <4>2. i < tail => disk[head[i]] = logdata[i] /\ i # tail
        BY <1>0, <1>4, <2>1 DEF Data
      <4> QED
        BY <3>4, <4>1, <4>2
    <3>6. committing => \A i \in 1..Len(head) : cache'[head[i]] = logdata[i]
      BY <1>4, <2>1, <3>4 DEF Data
    <3>7. Recovering => cache' = disk'
      BY <1>4, <3>1 DEF Data
    <3> QED
      BY <1>1, <1>3, <1>4, <2>1, <3>1, <3>3, <3>5, <3>6, <3>7 DEF DataInv, Data
  <2>3. CASE tail > Len(lh)
    <3>1. stage' = "clear" /\ lh' = <<>> /\ disk' = disk /\ cache' = cache
      BY <1>0, <1>8, <2>3 DEF install_trans
    <3>2. InLog(lh') = {}
      BY <3>1, EmptyLog
    <3>3. \A i \in 1..Len(head) : disk[head[i]] = logdata[i]
      BY <1>0, <1>4, <2>1, <2>3 DEF Data
    <3> QED
      BY <1>1, <1>3, <1>4, <2>1, <3>1, <3>2, <3>3 DEF DataInv, Data
  <2> QED
    BY <1>0, <2>2, <2>3
<1>9. CASE clear_head
  <2>1. /\ stage = "clear" /\ lh = <<>> /\ head' = <<>> /\ lh' = lh
        /\ disk' = disk /\ cache' = cache /\ logdata' = logdata
        /\ stage' = IF committing THEN "end" ELSE "none"
        /\ ~Recovering'
    BY <1>1, <1>9 DEF clear_head, Control, Recovering
  <2>2. InLog(lh') = {} /\ InLog(head') = {} /\ InLog(lh) = {}
    BY <2>1, EmptyLog
  <2>3. ASSUME NEW b \in Blocks PROVE cache[b] = disk[b]
    <3>1. CASE Recovering
      BY <1>4, <3>1 DEF Data
    <3>2. CASE ~Recovering
      <4>1. committing
        BY <2>1, <3>2 DEF Recovering
      <4>2. CASE b \notin InLog(head)
        BY <1>3, <1>4, <2>2, <3>2, <4>2 DEF Data
      <4>3. CASE b \in InLog(head)
        <5>1. PICK i \in 1..Len(head) : b = head[i]
          BY <4>3 DEF InLog
        <5> QED
          BY <1>4, <2>1, <4>1, <5>1 DEF Data
      <4> QED
        BY <4>2, <4>3
    <3> QED
      BY <3>1, <3>2
  <2> QED
    BY <1>1, <2>1, <2>3 DEF DataInv, Data
<1> QED
  BY <1>5, <1>6, <1>7, <1>8, <1>9 DEF Commit
-----------------------------------------------------------------------------
(* The log implements group commit.                                        *)

\* The invariant of the contents holds when every write goes through the log.
THEOREM DataInvariance ==
  ASSUME WriteThrough = {}
  PROVE  Spec => [](IndInv /\ DataInv)
<1>1. Init => DataInv
  <2> SUFFICES ASSUME Init PROVE DataInv
    OBVIOUS
  <2>1. /\ stage = "read_head" /\ cache = disk /\ ~committing /\ Recovering
        /\ \A p \in Ops : pc[p] = "idle"
    BY DEF Init, Recovering
  <2> QED
    BY <2>1 DEF DataInv, Data
<1>2. IndInv /\ DataInv /\ [Next]_vars => DataInv'
  <2> SUFFICES ASSUME IndInv, DataInv, [Next]_vars PROVE DataInv'
    OBVIOUS
  <2>1. Types' /\ Control'
    BY TypesInductive, ControlInductive
  <2>2. CASE Crash
    <3>1. /\ stage' = "read_head" /\ cache' = disk' /\ ~committing' /\ Recovering'
          /\ \A p \in Ops : pc'[p] = "idle"
      BY <2>2 DEF Crash, Recovering, diskVars
    <3> QED
      BY <3>1 DEF DataInv, Data
  <2>3. CASE UNCHANGED vars
    BY <2>3 DEF vars, DataInv, Data, Recovering, Names, Pending
  <2> QED
    BY <2>1, <2>2, <2>3, DataCall, DataCommit DEF Next
<1> QED
  BY <1>1, <1>2, Invariance, PTL DEF Spec

\* Every step of the log is a step of group commit or changes nothing there:
\* write_head() with a full header is the commit, and only it and log_write()
\* are visible besides the calls' beginnings and ends.
LEMMA StepRefines ==
  ASSUME WriteThrough = {}, IndInv, DataInv, IndInv', DataInv', [Next]_vars
  PROVE  [GC!Next]_(GC!vars)
<1> USE DEF diskVars, callVars, commitVars
<1> DEFINE Quiet == Recovered' = Recovered /\ Current' = Current /\ Open' = Open
<1>0. /\ pc \in [Ops -> PCs] /\ cache \in [Blocks -> Vals] /\ disk \in [Blocks -> Vals]
      /\ Control /\ Control' /\ Data /\ Data' /\ Types /\ Types' /\ Space /\ Space'
  BY DEF IndInv, DataInv, Types
<1>1. Quiet => UNCHANGED GC!vars
  BY DEF GC!vars
<1>2. ASSUME head' = head, disk' = disk, logdata' = logdata
      PROVE  Recovered' = Recovered
  BY <1>2 DEF Recovered
<1>3. ASSUME NEW p \in Ops, begin_op(p) PROVE [GC!Next]_(GC!vars)
  <2>1. /\ Recovered' = Recovered /\ Current' = Current
    BY <1>2, <1>3 DEF begin_op, Current, Recovering
  <2>2. p \notin Open /\ (Open' = Open \/ Open' = Open \cup {p})
    BY <1>0, <1>3 DEF begin_op, Open
  <2>3. CASE Open' = Open
    BY <1>1, <2>1, <2>3
  <2>4. CASE Open' = Open \cup {p}
    <3>1. GC!Begin(p)
      BY <2>1, <2>2, <2>4 DEF GC!Begin
    <3> QED
      BY <3>1 DEF GC!Next
  <2> QED
    BY <2>2, <2>3, <2>4
<1>4. ASSUME NEW p \in Ops, NEW b \in Blocks, NEW v \in Vals, log_write(p, b, v)
      PROVE  [GC!Next]_(GC!vars)
  <2>1. Recovered' = Recovered
    BY <1>2, <1>4 DEF log_write
  <2>2. ~Recovering /\ ~Recovering'
    BY <1>4 DEF log_write, Running, Recovering
  <2>3. Current' = [Current EXCEPT ![b] = v]
    BY <1>4, <2>2 DEF log_write, Current
  <2>4. p \in Open /\ Open' = Open
    BY <1>0, <1>4 DEF log_write, Open
  <2>5. GC!Write(p, b, v)
    BY <2>1, <2>3, <2>4 DEF GC!Write
  <2> QED
    BY <2>5 DEF GC!Next
<1>5. ASSUME NEW p \in Ops, log_append(p) PROVE Quiet
  <2>1. Recovered' = Recovered /\ Current' = Current
    BY <1>2, <1>5 DEF log_append, Current, Recovering
  <2>2. Open' = Open
    BY <1>0, <1>5 DEF log_append, Open
  <2> QED
    BY <2>1, <2>2
<1>6. ASSUME NEW p \in Ops, end_op(p) PROVE [GC!Next]_(GC!vars)
  <2>1. Recovered' = Recovered
    BY <1>2, <1>6 DEF end_op
  <2>2. pc[p] = "op" /\ p \in Open /\ ~Recovering /\ ~Recovering' /\ cache' = cache
    BY <1>0, <1>6 DEF end_op, Open, Running, Recovering, Control
  <2>3. Current' = Current
    BY <2>2 DEF Current
  <2>4. Open' = Open \ {p}
    <3> DEFINE f == [pc EXCEPT ![p] = "idle"]
    <3>1. f \in [Ops -> PCs] /\ f[p] = "idle" /\ \A q \in Ops \ {p} : f[q] = pc[q]
      BY <1>0 DEF PCs
    <3>2. pc' = [pc EXCEPT ![p] = "commit"] \/ pc' = Wakeup(f)
      BY <1>6 DEF end_op
    <3>3. CASE pc' = [pc EXCEPT ![p] = "commit"]
      BY <1>0, <3>3 DEF Open
    <3>4. CASE pc' = Wakeup(f)
      <4> HIDE DEF f
      <4>1. /\ pc'[p] = "idle"
            /\ \A q \in Ops \ {p} :
                 pc'[q] = pc[q] \/ (pc[q] = "sleep" /\ pc'[q] = "begin")
        BY <3>1, <3>4, WakeupEffect
      <4> QED
        BY <4>1, OpenMoves
    <3> QED
      BY <3>2, <3>3, <3>4
  <2>5. GC!End(p)
    BY <2>1, <2>2, <2>3, <2>4 DEF GC!End
  <2> QED
    BY <2>5 DEF GC!Next
<1>7. ASSUME NEW p \in Ops, commit_done(p) PROVE Quiet
  <2>1. Recovered' = Recovered
    BY <1>2, <1>7 DEF commit_done
  <2>2. /\ cache' = cache /\ stage' = "none" /\ stage = "end"
        /\ outstanding' = outstanding
    BY <1>7 DEF commit_done
  <2>3. ~Recovering /\ ~Recovering'
    BY <1>0, <2>2 DEF Recovering, Control
  <2>4. Open = {} /\ outstanding = 0
    BY <1>0, <2>2, FS_EmptySet DEF Control
  <2>5. IsFiniteSet(Open') /\ Cardinality(Open') = 0
    <3>1. Open' \in SUBSET Ops
      BY DEF Open
    <3> QED
      BY <1>0, <2>2, <2>4, <3>1, FS_Subset, LogAssumption DEF Control
  <2>6. Open' = {}
    BY <2>5, FS_EmptySet
  <2> QED
    BY <2>1, <2>2, <2>3, <2>4, <2>6 DEF Current
<1>8. ASSUME Commit PROVE pc' = pc /\ committing' = committing /\ Open' = Open /\ Open = {}
  <2>1. pc' = pc /\ committing' = committing /\ stage # "none"
    BY <1>8 DEF Commit, write_log, write_head, read_head, install_trans, clear_head
  <2> QED
    BY <1>0, <2>1 DEF Open, Control
<1>9. ASSUME write_log PROVE Quiet
  <2>1. stage = "write_log" /\ head = <<>> /\ head' = <<>> /\ disk' = disk /\ cache' = cache
    BY <1>0, <1>9 DEF write_log, Data
  <2>2. Recovered = disk /\ Recovered' = disk'
    BY <1>0, <2>1, RecoveredBlocks, EmptyLog DEF Recovered, Types
  <2>3. ~Recovering /\ ~Recovering'
    BY <1>0, <1>9, <2>1 DEF Control, Recovering, write_log
  <2> QED
    BY <1>8, <1>9, <2>1, <2>2, <2>3 DEF Commit, Current
<1>10. ASSUME write_head PROVE GC!Commit
  <2>1. /\ stage = "write_head" /\ committing /\ ~Recovering /\ ~Recovering'
        /\ head = <<>> /\ head' = lh /\ disk' = disk /\ cache' = cache /\ logdata' = logdata
    BY <1>0, <1>10 DEF write_head, Data, Control, Recovering
  <2>2. Open' = Open /\ Open = {} /\ Names = InLog(lh)
    BY <1>8, <1>10, NothingOpen DEF Commit
  <2>3. ASSUME NEW b \in Blocks PROVE Recovered'[b] = cache[b]
    <3>1. CASE b \in InLog(lh)
      <4>1. PICK i \in 1..Len(lh) : b = lh[i]
        BY <3>1 DEF InLog
      <4>2. \A j \in 1..Len(lh) : lh[j] = b => j = i
        BY <1>0, <4>1 DEF Space, OneToOne
      <4>3. Recovered'[b] = logdata[i]
        BY <2>1, <3>1, <4>1, <4>2 DEF Recovered
      <4> QED
        BY <1>0, <2>1, <4>1, <4>3 DEF Data
    <3>2. CASE b \notin InLog(lh)
      <4>1. Recovered'[b] = disk[b]
        BY <2>1, <3>2 DEF Recovered
      <4>2. InLog(head) = {}
        BY <2>1, EmptyLog
      <4> QED
        BY <1>0, <2>1, <2>2, <3>2, <4>1, <4>2 DEF Data
    <3> QED
      BY <3>1, <3>2
  <2>4. Recovered' = [b \in Blocks |-> Recovered'[b]]
    BY DEF Recovered
  <2>5. Recovered' = cache
    BY <1>0, <2>3, <2>4
  <2> QED
    BY <2>1, <2>2, <2>5 DEF GC!Commit, Current
<1>11. ASSUME read_head PROVE Quiet
  <2>1. Recovered' = Recovered
    BY <1>2, <1>11 DEF read_head
  <2>2. Recovering /\ Recovering'
    BY <1>0, <1>11 DEF read_head, Recovering, Control
  <2> QED
    BY <1>8, <1>11, <2>1, <2>2 DEF Commit, Current
<1>12. ASSUME install_trans PROVE Quiet
  <2>1. /\ stage = "install" /\ head = lh /\ head' = head /\ logdata' = logdata
        /\ Recovering' = Recovering /\ committing' = committing
    BY <1>0, <1>12 DEF install_trans, Data, Recovering
  <2>2. \A b \in Blocks \ InLog(head) : disk'[b] = disk[b] /\ cache'[b] = cache[b]
    BY <1>0, <1>12, <2>1 DEF install_trans, InLog, Types
  <2>3. Recovered' = Recovered
    BY <2>1, <2>2 DEF Recovered
  <2>4. ASSUME ~Recovering PROVE cache' = cache
    <3>1. committing
      BY <2>1, <2>4 DEF Recovering
    <3>2. \A i \in 1..Len(head) : logdata[i] = cache[head[i]]
      BY <1>0, <2>1, <3>1 DEF Data
    <3>3. \A i \in 1..Len(head) : logdata'[i] = cache'[head[i]]
      <4>1. stage' \in {"install", "clear"}
        BY <1>12 DEF install_trans
      <4> QED
        BY <1>0, <2>1, <3>1, <4>1 DEF Data
    <3>4. \A b \in Blocks : cache'[b] = cache[b]
      BY <2>1, <2>2, <3>2, <3>3 DEF InLog
    <3>5. cache' \in [Blocks -> Vals]
      BY <1>0 DEF Types
    <3> QED
      BY <1>0, <3>4, <3>5
  <2> QED
    BY <1>8, <1>12, <2>1, <2>3, <2>4 DEF Commit, Current
<1>13. ASSUME clear_head PROVE Quiet
  <2>1. /\ stage = "clear" /\ lh = <<>> /\ head' = <<>>
        /\ disk' = disk /\ cache' = cache /\ ~Recovering'
    BY <1>0, <1>13 DEF clear_head, Control, Recovering
  <2>2. Recovered' = disk'
    BY <1>0, <2>1, RecoveredBlocks, EmptyLog DEF Recovered, Types
  <2>3. \A b \in Blocks : Recovered[b] = disk[b]
    <3> SUFFICES ASSUME NEW b \in Blocks PROVE Recovered[b] = disk[b]
      OBVIOUS
    <3>1. CASE b \in InLog(head)
      <4>1. PICK i \in 1..Len(head) : b = head[i]
        BY <3>1 DEF InLog
      <4>2. Recovered[b] = logdata[i]
        BY <1>0, <4>1, RecoveredBlocks
      <4> QED
        BY <1>0, <2>1, <4>1, <4>2 DEF Data
    <3>2. CASE b \notin InLog(head)
      BY <1>0, <3>2, RecoveredBlocks
    <3> QED
      BY <3>1, <3>2
  <2>4. Recovered = disk
    <3>1. Recovered = [b \in Blocks |-> Recovered[b]]
      BY DEF Recovered
    <3> QED
      BY <1>0, <2>3, <3>1
  <2>5. Recovering => cache = disk
    BY <1>0 DEF Data
  <2> QED
    BY <1>8, <1>13, <2>1, <2>2, <2>4, <2>5 DEF Commit, Current
<1>14. ASSUME Crash PROVE GC!Crash
  <2>1. Recovered' = Recovered
    BY <1>2, <1>14 DEF Crash
  <2>2. Recovering'
    BY <1>14 DEF Crash, Recovering
  <2>3. Open' = {}
    BY <1>14 DEF Crash, Open
  <2> QED
    BY <2>1, <2>2, <2>3 DEF GC!Crash, Current
<1>15. CASE UNCHANGED vars
  BY <1>1, <1>15 DEF vars, Recovered, Current, Recovering, Open
<1>16. ASSUME NEW p \in Ops, writei_bwrite(p) PROVE FALSE
  BY <1>16 DEF writei_bwrite, DataInv
<1> HIDE DEF Quiet
<1>17. ASSUME NEW p \in Ops, Call(p) PROVE [GC!Next]_(GC!vars)
  BY <1>1, <1>3, <1>4, <1>5, <1>6, <1>7, <1>16, <1>17 DEF Call
<1>18. ASSUME Commit PROVE [GC!Next]_(GC!vars)
  BY <1>1, <1>9, <1>10, <1>11, <1>12, <1>13, <1>18 DEF Commit, GC!Next
<1> QED
  BY <1>14, <1>15, <1>17, <1>18 DEF Next, GC!Next

\* The log implements group commit for any number of processes and blocks and
\* any log size, provided every write goes through the log: wherever a crash
\* falls, the blocks a reboot finds are exactly those of the last commit, and
\* a commit happens only while no system call is in progress.
THEOREM Refinement ==
  ASSUME WriteThrough = {}
  PROVE  Spec => GroupCommitted
<1>1. Init => GC!Init
  <2> SUFFICES ASSUME Init PROVE GC!Init
    OBVIOUS
  <2>1. head = <<>> /\ disk = [b \in Blocks |-> InitVal] /\ Recovering
    BY DEF Init, Recovering
  <2>2. Recovered = disk
    BY InitInv, <2>1, RecoveredBlocks DEF IndInv
  <2>3. Open = {}
    BY DEF Init, Open
  <2> QED
    BY <2>1, <2>2, <2>3 DEF GC!Init, Current
<1>2. IndInv /\ DataInv /\ (IndInv /\ DataInv)' /\ [Next]_vars => [GC!Next]_(GC!vars)
  BY StepRefines
<1> QED
  BY <1>1, <1>2, DataInvariance, PTL DEF Spec, GroupCommitted, GC!Spec
=============================================================================
