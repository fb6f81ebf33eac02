---------------------------- MODULE KernelProofs ----------------------------
(***************************************************************************)
(* Proofs about the calls of Kernel and the processes of Programs: for any *)
(* program, any disk and any sizes of the tables, the counts the kernel    *)
(* keeps are right between any two calls.                                  *)
(***************************************************************************)
EXTENDS Programs, Arithmetic, FiniteSetTheorems, SequenceTheorems

-----------------------------------------------------------------------------
(* The invariant, of a kernel state K.  Between the steps of a call a      *)
(* reference to the inode h or to the open file g may be in hand (0: none).*)

Kinds == {"NONE", "DIR", "FILE", "CHECKED", "DEV"}
\* STRING, with the literals it contains: no prover knows that it does.
Strings == STRING \cup {"", ".", ".."}
Dirents == Strings \X (Inums \cup {0})
Root(i) == IF i = ROOTINO THEN 1 ELSE 0
Hand(h, i) == IF i = h THEN 1 ELSE 0

\* The inodes by field, the names and where they lead.
TY(K) == [i \in Inums |-> K.inode[i].type]
NL(K) == [i \in Inums |-> K.inode[i].nlink]
RF(K) == [i \in Inums |-> K.inode[i].ref]
NM(K) == {e \in Inums \X Nat :
            /\ K.inode[e[1]].type = "DIR"
            /\ e[2] \in 3..Len(K.inode[e[1]].data)
            /\ K.inode[e[1]].data[e[2]][2] # 0}
TG(K) == [e \in NM(K) |-> K.inode[e[1]].data[e[2]][2]]

To(N, T, i) == {e \in N : T[e] = i}
Sub(Y, N, T, i) == {e \in N : e[1] = i /\ Y[T[e]] = "DIR"}

\* A state is a record with these fields.
Fields(K) ==
  /\ DOMAIN K = {"inode", "file", "pipe", "proc", "free", "strayed", "panic"}
  /\ DOMAIN K.inode = Inums
  /\ \A i \in Inums : DOMAIN K.inode[i] = {"type", "nlink", "ref", "data"}
  /\ DOMAIN K.file = Files
  /\ \A f \in Files : /\ DOMAIN K.file[f] = {"ref", "type", "ip", "off", "readable", "writable"}
                      /\ K.file[f].type \in {"FD_NONE", "FD_PIPE", "FD_INODE"}
                      /\ K.file[f].readable \in BOOLEAN /\ K.file[f].writable \in BOOLEAN
  /\ DOMAIN K.pipe = Pipes
  /\ \A i \in Pipes : /\ DOMAIN K.pipe[i] = {"data", "readopen", "writeopen"}
                      /\ K.pipe[i].readopen \in BOOLEAN /\ K.pipe[i].writeopen \in BOOLEAN
  /\ DOMAIN K.proc = Procs
  /\ \A p \in Procs : /\ DOMAIN K.proc[p] = {"state", "parent", "killed", "cwd", "sz", "ofile"}
                      /\ K.proc[p].ofile \in [Fds -> Files \cup {0}]
                      /\ K.proc[p].sz \in Nat

\* A directory starts with "." and "..".
Dirs(K) ==
  \A d \in Inums : K.inode[d].type = "DIR" =>
    /\ K.inode[d].data \in Seq(Dirents) /\ Len(K.inode[d].data) >= 2
    /\ K.inode[d].data[1][1] = "." /\ K.inode[d].data[1][2] # 0
    /\ K.inode[d].data[2][1] = ".." /\ K.inode[d].data[2][2] # 0

\* Links are counted, and a directory without a name is empty.
Linked(Y, L, N, T) ==
  /\ Y \in [Inums -> Kinds] /\ L \in [Inums -> Int]
  /\ IsFiniteSet(N) /\ N \subseteq Inums \X Nat /\ T \in [N -> Inums]
  /\ \A e \in N : Y[e[1]] = "DIR" /\ Y[T[e]] # "NONE"
  /\ \A i \in Inums : Y[i] # "NONE" =>
       L[i] = Cardinality(To(N, T, i)) + Cardinality(Sub(Y, N, T, i)) + Root(i)
  /\ \A i \in Inums \ {ROOTINO} : To(N, T, i) = {} => \A e \in N : e[1] # i
  /\ Y[ROOTINO] = "DIR"

OpenOf(F, i) == {f \in Files : F[f].type = "FD_INODE" /\ F[f].ip = i}
CwdOf(P, i) == {p \in Procs : P[p].state = "LIVE" /\ P[p].cwd = i}

\* References to inodes are counted; what has no link has a reference.
Referred(Y, L, R, F, P, h) ==
  /\ R \in [Inums -> Int]
  /\ \A i \in Inums : Y[i] # "NONE" =>
       R[i] = Cardinality(OpenOf(F, i)) + Cardinality(CwdOf(P, i)) + Hand(h, i)
  /\ \A i \in Inums : Y[i] # "NONE" /\ L[i] = 0 => R[i] > 0
  /\ \A f \in Files : F[f].type = "FD_INODE" =>
       /\ F[f].ip \in Inums /\ Y[F[f].ip] # "NONE"
       /\ F[f].writable => Y[F[f].ip] # "DIR"
  /\ \A p \in Procs : P[p].state = "LIVE" => P[p].cwd \in Inums /\ Y[P[p].cwd] # "NONE"
  /\ h # 0 => h \in Inums /\ Y[h] # "NONE"

FdsOf(P, f) == {x \in Procs \X Fds : P[x[1]].state = "LIVE" /\ P[x[1]].ofile[x[2]] = f}

\* References to open files are counted.
Counted(F, P, g) ==
  /\ \A f \in Files : F[f].ref = Cardinality(FdsOf(P, f)) + Hand(g, f)
  /\ \A f \in Files : F[f].ref = 0 => F[f].type = "FD_NONE"
  /\ g # 0 => g \in Files

\* Each end of a pipe has at most one open file, and is open while it has.
Piped(F, G) ==
  /\ \A f \in Files : F[f].type = "FD_PIPE" =>
       F[f].ip \in Pipes /\ (F[f].readable <=> ~F[f].writable)
  /\ \A f, e \in Files :
       F[f].type = "FD_PIPE" /\ F[e].type = "FD_PIPE" /\ F[f].ip = F[e].ip
       /\ F[f].writable = F[e].writable => f = e
  /\ \A i \in Pipes :
       /\ G[i].writeopen <=> \E f \in Files : F[f].type = "FD_PIPE" /\ F[f].ip = i /\ F[f].writable
       /\ G[i].readopen <=> \E f \in Files : F[f].type = "FD_PIPE" /\ F[f].ip = i /\ F[f].readable

PagesOf(P) == {x \in Procs \X Nat : x[2] \in 1..P[x[1]].sz}

\* Pages are counted, and a free slot has none.
Paid(P, m) ==
  /\ m \in Int /\ IsFiniteSet(PagesOf(P)) /\ m + Cardinality(PagesOf(P)) = MEMORY
  /\ \A p \in Procs : P[p].state = "UNUSED" => P[p].sz = 0

KInv(K, h, g) ==
  /\ Fields(K) /\ Dirs(K)
  /\ Linked(TY(K), NL(K), NM(K), TG(K))
  /\ Referred(TY(K), NL(K), RF(K), K.file, K.proc, h)
  /\ Counted(K.file, K.proc, g) /\ Piped(K.file, K.pipe) /\ Paid(K.proc, K.free)
-----------------------------------------------------------------------------
(* Sizes.                                                                  *)

LEMMA Literals ==
  /\ "" \in Strings /\ "." \in Strings /\ ".." \in Strings
  /\ \A s \in STRING : s \in Strings
BY DEF Strings

LEMMA KernelSizes ==
  /\ ROOTINO \in Inums /\ 1 \in Procs /\ 0 \notin Inums /\ 0 \notin Files /\ 0 \notin Procs
  /\ Inums \subseteq Nat /\ Files \subseteq Nat /\ Procs \subseteq Nat /\ Pipes \subseteq Nat /\ Fds \subseteq Nat
  /\ 0 \notin Pipes
BY KernelAssumption DEF ROOTINO, Inums, Files, Procs, Pipes, Fds

LEMMA KernelFinite ==
  /\ IsFiniteSet(Inums) /\ IsFiniteSet(Files) /\ IsFiniteSet(Procs) /\ IsFiniteSet(Fds)
  /\ IsFiniteSet(Procs \X Fds)
<1>1. NPROC \in Int /\ NFILE \in Int /\ NINODES \in Int /\ NOFILE - 1 \in Int
  BY KernelAssumption
<1>2. IsFiniteSet(Inums) /\ IsFiniteSet(Files) /\ IsFiniteSet(Procs) /\ IsFiniteSet(Fds)
  BY <1>1, FS_Interval DEF Inums, Files, Procs, Fds
<1> QED BY <1>2, FS_Product

\* The sets that are counted are finite.
LEMMA FiniteTo ==
  ASSUME NEW Y, NEW N, IsFiniteSet(N), NEW T, NEW i
  PROVE  /\ IsFiniteSet(To(N, T, i)) /\ Cardinality(To(N, T, i)) \in Nat
         /\ (Cardinality(To(N, T, i)) = 0 <=> To(N, T, i) = {})
         /\ IsFiniteSet(Sub(Y, N, T, i)) /\ Cardinality(Sub(Y, N, T, i)) \in Nat
         /\ (Cardinality(Sub(Y, N, T, i)) = 0 <=> Sub(Y, N, T, i) = {})
<1>1. To(N, T, i) \in SUBSET N /\ Sub(Y, N, T, i) \in SUBSET N
  BY DEF To, Sub
<1>2. IsFiniteSet(To(N, T, i)) /\ IsFiniteSet(Sub(Y, N, T, i))
  BY <1>1, FS_Subset
<1> QED BY <1>2, FS_CardinalityType, FS_EmptySet

LEMMA FiniteRefs ==
  ASSUME NEW F, NEW P, NEW i
  PROVE  /\ IsFiniteSet(OpenOf(F, i)) /\ Cardinality(OpenOf(F, i)) \in Nat
         /\ IsFiniteSet(CwdOf(P, i)) /\ Cardinality(CwdOf(P, i)) \in Nat
         /\ IsFiniteSet(FdsOf(P, i)) /\ Cardinality(FdsOf(P, i)) \in Nat
         /\ (Cardinality(OpenOf(F, i)) = 0 <=> OpenOf(F, i) = {})
         /\ (Cardinality(CwdOf(P, i)) = 0 <=> CwdOf(P, i) = {})
         /\ (Cardinality(FdsOf(P, i)) = 0 <=> FdsOf(P, i) = {})
<1>1. OpenOf(F, i) \in SUBSET Files /\ CwdOf(P, i) \in SUBSET Procs
      /\ FdsOf(P, i) \in SUBSET (Procs \X Fds)
  BY DEF OpenOf, CwdOf, FdsOf
<1>2. IsFiniteSet(OpenOf(F, i)) /\ IsFiniteSet(CwdOf(P, i)) /\ IsFiniteSet(FdsOf(P, i))
  BY <1>1, FS_Subset, KernelFinite
<1> QED BY <1>2, FS_CardinalityType, FS_EmptySet
-----------------------------------------------------------------------------
(* Links.                                                                  *)

\* A new name in a directory that has a link.
LEMMA NameKeeps ==
  ASSUME NEW Y, NEW L, NEW N, NEW T, Linked(Y, L, N, T),
         NEW d \in Inums, Y[d] = "DIR", L[d] # 0,
         NEW j \in Nat, <<d, j>> \notin N,
         NEW t \in Inums, NEW Y2, NEW L2, NEW N2, NEW T2,
         Y2 \in [Inums -> Kinds], L2 \in [Inums -> Int],
         N2 = N \cup {<<d, j>>}, T2 \in [N2 -> Inums],
         \A e \in N : T2[e] = T[e], T2[<<d, j>>] = t,
         \/ /\ Y2 = Y /\ Y[t] \notin {"NONE", "DIR"}
            /\ L2[t] = L[t] + 1 /\ \A i \in Inums \ {t} : L2[i] = L[i]
         \/ /\ Y[t] = "NONE" /\ Y2[t] # "NONE" /\ \A i \in Inums \ {t} : Y2[i] = Y[i]
            /\ L2[t] = 1
            /\ L2[d] = L[d] + (IF Y2[t] = "DIR" THEN 1 ELSE 0)
            /\ \A i \in Inums \ {t, d} : L2[i] = L[i]
  PROVE  Linked(Y2, L2, N2, T2)
<1> DEFINE e0 == <<d, j>>
<1>0. /\ Y \in [Inums -> Kinds] /\ L \in [Inums -> Int]
      /\ IsFiniteSet(N) /\ N \subseteq Inums \X Nat /\ T \in [N -> Inums]
      /\ \A e \in N : Y[e[1]] = "DIR" /\ Y[T[e]] # "NONE"
      /\ Y[ROOTINO] = "DIR" /\ ROOTINO \in Inums /\ e0 \notin N /\ e0[1] = d
  BY KernelSizes DEF Linked
<1>1. d # t
  BY <1>0
<1>2. IsFiniteSet(N2)
  BY <1>0, FS_AddElement
<1>3. To(N2, T2, t) = To(N, T, t) \cup {e0}
  BY DEF To
<1>4. ASSUME NEW i \in Inums \ {t} PROVE To(N2, T2, i) = To(N, T, i)
  BY DEF To
<1>5. ASSUME NEW i \in Inums, NEW e \in N PROVE Y2[T2[e]] = Y[T[e]] /\ Y2[e[1]] = Y[e[1]]
  BY <1>0
<1>6. ASSUME NEW i \in Inums, i # d \/ Y2[t] # "DIR" PROVE Sub(Y2, N2, T2, i) = Sub(Y, N, T, i)
  BY <1>5, <1>6 DEF Sub
<1>7. Y2[t] = "DIR" => Sub(Y2, N2, T2, d) = Sub(Y, N, T, d) \cup {e0}
  BY <1>5, <1>0 DEF Sub
<1>8. ASSUME NEW i \in Inums, Y2[i] # "NONE"
      PROVE  L2[i] = Cardinality(To(N2, T2, i)) + Cardinality(Sub(Y2, N2, T2, i)) + Root(i)
  <2>1. /\ Cardinality(To(N, T, t) \cup {e0}) = Cardinality(To(N, T, t)) + 1
        /\ Cardinality(Sub(Y, N, T, d) \cup {e0}) = Cardinality(Sub(Y, N, T, d)) + 1
    <3>1. e0 \notin To(N, T, t) /\ e0 \notin Sub(Y, N, T, d) BY <1>0 DEF To, Sub
    <3>2. IsFiniteSet(To(N, T, t)) /\ IsFiniteSet(Sub(Y, N, T, d)) BY <1>0, FiniteTo
    <3> QED BY <3>1, <3>2, FS_AddElement
  <2>2. \A n \in Inums : Y[n] # "NONE" =>
          L[n] = Cardinality(To(N, T, n)) + Cardinality(Sub(Y, N, T, n)) + Root(n)
    BY DEF Linked
  <2>3. Cardinality(To(N, T, i)) \in Nat /\ Cardinality(Sub(Y, N, T, i)) \in Nat /\ Root(i) \in Nat
    BY <1>0, FiniteTo DEF Root
  <2>4. CASE i = t
    <3>1. CASE Y[t] = "NONE"
      <4>1. To(N, T, t) = {} BY <1>0, <3>1 DEF To
      <4>2. Sub(Y, N, T, t) = {} BY <1>0, <3>1 DEF Sub
      <4>3. Root(t) = 0 BY <1>0, <3>1 DEF Root
      <4>4. Sub(Y2, N2, T2, t) = {} BY <4>2, <1>6, <1>1
      <4>5. Cardinality(To(N2, T2, t)) = 1 
        <5>1. Cardinality(To(N2, T2, t)) = Cardinality(To(N, T, t)) + 1 BY <2>1, <1>3, Zenon
        <5>2. Cardinality(To(N, T, t)) = 0 BY <4>1, FS_EmptySet, Zenon
        <5> QED BY <5>1, <5>2
      <4>6. L2[t] = 1 BY <3>1
      <4>7. Cardinality(Sub(Y2, N2, T2, t)) = 0 BY <4>4, FS_EmptySet, Zenon
      <4> QED BY <4>3, <4>5, <4>6, <4>7, <2>4
    <3>2. CASE Y[t] # "NONE"
      <4>1. Sub(Y2, N2, T2, t) = Sub(Y, N, T, t) BY <1>6, <1>1
      <4>2. L2[t] = L[t] + 1 BY <3>2
      <4>3. L[t] = Cardinality(To(N, T, t)) + Cardinality(Sub(Y, N, T, t)) + Root(t)
        BY <3>2, <2>2
      <4>4. Cardinality(To(N2, T2, t)) = Cardinality(To(N, T, t)) + 1 BY <2>1, <1>3, Zenon
      <4> QED BY <4>1, <4>2, <4>3, <4>4, <2>3, <2>4
    <3> QED BY <3>1, <3>2
  <2>5. CASE i = d /\ Y2[t] = "DIR"
    <3>1. L[d] = Cardinality(To(N, T, d)) + Cardinality(Sub(Y, N, T, d)) + Root(d)
      BY <2>2, <1>0
    <3>2. L2[d] = L[d] + 1 BY <2>5, <1>1, <1>0
    <3>3. To(N2, T2, d) = To(N, T, d) BY <1>1, <1>4
    <3>4. Cardinality(Sub(Y2, N2, T2, d)) = Cardinality(Sub(Y, N, T, d)) + 1 BY <2>5, <2>1, <1>7, Zenon
    <3> QED BY <3>1, <3>2, <3>3, <3>4, <2>5, <2>3
  <2>6. CASE i # t /\ ~(i = d /\ Y2[t] = "DIR")
    <3>1. L2[i] = L[i] /\ Y[i] = Y2[i] BY <2>6, <1>0
    <3> QED BY <3>1, <2>6, <2>2, <2>3, <1>4, <1>6, <1>8
  <2> QED BY <2>4, <2>5, <2>6
<1>9. ASSUME NEW i \in Inums \ {ROOTINO}, To(N2, T2, i) = {}, NEW e \in N2 PROVE e[1] # i
  <2>1. i # t BY <1>3, <1>9
  <2>2. To(N, T, i) = {} BY <2>1, <1>4, <1>9
  <2>3. \A x \in N : x[1] # i BY <2>2 DEF Linked
  <2>4. i # d
    <3>1. SUFFICES ASSUME i = d PROVE FALSE OBVIOUS
    <3>2. Sub(Y, N, T, i) = {} BY <2>3 DEF Sub
    <3>3. L[i] = Cardinality(To(N, T, i)) + Cardinality(Sub(Y, N, T, i)) + Root(i)
      BY <3>1, <1>0 DEF Linked
    <3>4. L[i] = 0 BY <3>2, <3>3, <2>2, FS_EmptySet DEF Root
    <3> QED BY <3>1, <3>4
  <2> QED BY <2>3, <2>4, <1>0
<1>10. \A e \in N2 : Y2[e[1]] = "DIR" /\ Y2[T2[e]] # "NONE"
  BY <1>0, <1>1, <1>5
<1>11. Y2[ROOTINO] = "DIR" /\ N2 \subseteq Inums \X Nat
  BY <1>0
<1> QED BY <1>2, <1>8, <1>9, <1>10, <1>11 DEF Linked

\* A name is erased; a directory that loses its name is empty.
LEMMA EraseKeeps ==
  ASSUME NEW Y, NEW L, NEW N, NEW T, Linked(Y, L, N, T),
         NEW e0 \in N, Y[T[e0]] = "DIR" => \A e \in N : e[1] # T[e0],
         NEW L2, NEW N2, NEW T2, L2 \in [Inums -> Int],
         N2 = N \ {e0}, T2 \in [N2 -> Inums], \A e \in N2 : T2[e] = T[e],
         L2[T[e0]] = L[T[e0]] - 1,
         L2[e0[1]] = L[e0[1]] - (IF Y[T[e0]] = "DIR" THEN 1 ELSE 0),
         \A i \in Inums \ {T[e0], e0[1]} : L2[i] = L[i]
  PROVE  Linked(Y, L2, N2, T2)
<1> DEFINE t == T[e0]
           d == e0[1]
<1>0. /\ Y \in [Inums -> Kinds] /\ L \in [Inums -> Int]
      /\ IsFiniteSet(N) /\ N \subseteq Inums \X Nat /\ T \in [N -> Inums]
      /\ \A e \in N : Y[e[1]] = "DIR" /\ Y[T[e]] # "NONE"
      /\ Y[ROOTINO] = "DIR" /\ ROOTINO \in Inums /\ e0 \in N /\ t \in Inums /\ d \in Inums
  BY KernelSizes DEF Linked
<1>1. d # t
  BY <1>0
<1>2. IsFiniteSet(N2)
  BY <1>0, FS_RemoveElement
<1>3. To(N2, T2, t) = To(N, T, t) \ {e0}
  BY DEF To
<1>4. ASSUME NEW i \in Inums \ {t} PROVE To(N2, T2, i) = To(N, T, i)
  BY DEF To
<1>6. ASSUME NEW i \in Inums, i # d \/ Y[t] # "DIR" PROVE Sub(Y, N2, T2, i) = Sub(Y, N, T, i)
  BY <1>6 DEF Sub
<1>7. Y[t] = "DIR" => Sub(Y, N2, T2, d) = Sub(Y, N, T, d) \ {e0}
  BY <1>0 DEF Sub
<1>8. ASSUME NEW i \in Inums, Y[i] # "NONE"
      PROVE  L2[i] = Cardinality(To(N2, T2, i)) + Cardinality(Sub(Y, N2, T2, i)) + Root(i)
  <2>1. /\ Cardinality(To(N, T, t) \ {e0}) = Cardinality(To(N, T, t)) - 1
        /\ Y[t] = "DIR" => Cardinality(Sub(Y, N, T, d) \ {e0}) = Cardinality(Sub(Y, N, T, d)) - 1
    <3>1. e0 \in To(N, T, t) /\ (Y[t] = "DIR" => e0 \in Sub(Y, N, T, d)) BY <1>0 DEF To, Sub
    <3>2. IsFiniteSet(To(N, T, t)) /\ IsFiniteSet(Sub(Y, N, T, d)) BY <1>0, FiniteTo
    <3> QED BY <3>1, <3>2, FS_RemoveElement
  <2>2. L[i] = Cardinality(To(N, T, i)) + Cardinality(Sub(Y, N, T, i)) + Root(i)
    BY <1>8 DEF Linked
  <2>3. Cardinality(To(N, T, i)) \in Nat /\ Cardinality(Sub(Y, N, T, i)) \in Nat /\ Root(i) \in Nat
    BY <1>0, FiniteTo DEF Root
  <2>4. CASE i = t
    <3>1. Sub(Y, N2, T2, t) = Sub(Y, N, T, t) BY <1>6, <1>1, <1>0
    <3>2. Cardinality(To(N2, T2, t)) = Cardinality(To(N, T, t)) - 1 BY <2>1, <1>3, Zenon
    <3> QED BY <3>1, <3>2, <2>2, <2>3, <2>4
  <2>5. CASE i = d /\ Y[t] = "DIR"
    <3>1. To(N2, T2, d) = To(N, T, d) BY <1>1, <1>4, <1>0
    <3>2. Cardinality(Sub(Y, N2, T2, d)) = Cardinality(Sub(Y, N, T, d)) - 1 BY <2>5, <2>1, <1>7, Zenon
    <3> QED BY <3>1, <3>2, <2>2, <2>3, <2>5
  <2>6. CASE i # t /\ ~(i = d /\ Y[t] = "DIR")
    <3>1. L2[i] = L[i] BY <2>6, <1>0
    <3> QED BY <3>1, <2>6, <2>2, <2>3, <1>4, <1>6
  <2> QED BY <2>4, <2>5, <2>6
<1>9. ASSUME NEW i \in Inums \ {ROOTINO}, To(N2, T2, i) = {}, NEW e \in N2 PROVE e[1] # i
  <2>1. CASE i = t
    BY <2>1, <1>0
  <2>2. CASE i # t
    <3>1. To(N, T, i) = {} BY <2>2, <1>4, <1>9
    <3> QED BY <3>1 DEF Linked
  <2> QED BY <2>1, <2>2
<1>10. (\A e \in N2 : Y[e[1]] = "DIR" /\ Y[T2[e]] # "NONE") /\ N2 \subseteq Inums \X Nat
  BY <1>0
<1> QED BY <1>0, <1>2, <1>8, <1>9, <1>10 DEF Linked

\* An inode without a link has no names, and is freed.
LEMMA FreeKeeps ==
  ASSUME NEW Y, NEW L, NEW N, NEW T, Linked(Y, L, N, T),
         NEW i \in Inums, Y[i] # "NONE", L[i] = 0,
         NEW Y2, NEW L2, Y2 \in [Inums -> Kinds], L2 \in [Inums -> Int],
         Y2[i] = "NONE", \A j \in Inums \ {i} : Y2[j] = Y[j] /\ L2[j] = L[j]
  PROVE  /\ Linked(Y2, L2, N, T)
         /\ \A e \in N : e[1] # i /\ T[e] # i
<1>0. /\ IsFiniteSet(N) /\ N \subseteq Inums \X Nat /\ T \in [N -> Inums]
      /\ \A e \in N : Y[e[1]] = "DIR" /\ Y[T[e]] # "NONE"
      /\ Y[ROOTINO] = "DIR" /\ ROOTINO \in Inums
  BY KernelSizes DEF Linked
<1>1. /\ Cardinality(To(N, T, i)) \in Nat /\ Cardinality(Sub(Y, N, T, i)) \in Nat /\ Root(i) \in Nat
      /\ (Cardinality(To(N, T, i)) = 0 <=> To(N, T, i) = {})
  BY <1>0, FiniteTo DEF Root
<1>2. 0 = Cardinality(To(N, T, i)) + Cardinality(Sub(Y, N, T, i)) + Root(i)
  BY DEF Linked
<1>3. Cardinality(To(N, T, i)) = 0 /\ Root(i) = 0
  BY <1>1, <1>2
<1>4. To(N, T, i) = {} /\ i # ROOTINO
  BY <1>1, <1>3 DEF Root
<1>5. \A e \in N : e[1] # i /\ T[e] # i
  BY <1>4 DEF Linked, To
<1>6. ASSUME NEW j \in Inums PROVE Sub(Y2, N, T, j) = Sub(Y, N, T, j)
  BY <1>5, <1>0 DEF Sub
<1>7. ASSUME NEW j \in Inums, Y2[j] # "NONE"
      PROVE  L2[j] = Cardinality(To(N, T, j)) + Cardinality(Sub(Y2, N, T, j)) + Root(j)
  BY <1>6, <1>7 DEF Linked
<1>8. \A e \in N : Y2[e[1]] = "DIR" /\ Y2[T[e]] # "NONE"
  BY <1>0, <1>5
<1> QED BY <1>0, <1>4, <1>5, <1>7, <1>8 DEF Linked
-----------------------------------------------------------------------------
(* States with the same inodes, but for references and the contents of     *)
(* files, have the same names.                                             *)

LEMMA SameNames ==
  ASSUME NEW K, NEW K2, NEW D,
         D = {i \in Inums : K.inode[i].type = "DIR"}, \A i \in Inums : K2.inode[i].type = K.inode[i].type,
         \A i \in D : K2.inode[i].data = K.inode[i].data
  PROVE  TY(K2) = TY(K) /\ NM(K2) = NM(K) /\ TG(K2) = TG(K)
<1>1. TY(K2) = TY(K) BY DEF TY
<1>2. NM(K2) = NM(K) BY DEF NM
<1>3. \A e \in NM(K) : K2.inode[e[1]].data = K.inode[e[1]].data
  BY DEF NM
<1>4. TG(K2) = TG(K) BY <1>2, <1>3 DEF TG
<1> QED BY <1>1, <1>2, <1>4

\* What the invariant says is of the parts of a state, not of its record.
LEMMA SameParts ==
  ASSUME NEW K, NEW K2, NEW h, NEW g, KInv(K, h, g),
         DOMAIN K2 = DOMAIN K, K2.inode = K.inode, K2.file = K.file,
         K2.pipe = K.pipe, K2.proc = K.proc, K2.free = K.free
  PROVE  KInv(K2, h, g)
<1>1. TY(K2) = TY(K) /\ NL(K2) = NL(K) /\ RF(K2) = RF(K) /\ NM(K2) = NM(K)
  BY DEF TY, NL, RF, NM
<1>2. TG(K2) = TG(K)
  BY <1>1 DEF TG
<1>3. Fields(K2) BY DEF KInv, Fields
<1>4. Dirs(K2) BY DEF KInv, Dirs
<1> QED BY <1>1, <1>2, <1>3, <1>4 DEF KInv
-----------------------------------------------------------------------------
(* References to inodes.                                                   *)

\* All but the inodes.
Rest(K2, K) ==
  /\ K2.file = K.file /\ K2.pipe = K.pipe /\ K2.proc = K.proc /\ K2.free = K.free
  /\ K2.strayed = K.strayed /\ K2.panic = K.panic

LEMMA IgetKeeps ==
  ASSUME NEW K, NEW g, KInv(K, 0, g), NEW i \in Inums, K.inode[i].type # "NONE"
  PROVE  KInv(iget(K, i), i, g) /\ Rest(iget(K, i), K) /\ TY(iget(K, i)) = TY(K)
<1> DEFINE K2 == iget(K, i)
<1>0. Fields(K) /\ Dirs(K) BY DEF KInv
<1>1. Rest(K2, K) BY <1>0 DEF Rest, iget, Fields
<1>2. Fields(K2) BY <1>0 DEF iget, Fields
<1>3. \A j \in Inums : /\ K2.inode[j].type = K.inode[j].type /\ K2.inode[j].data = K.inode[j].data
                       /\ K2.inode[j].nlink = K.inode[j].nlink
                       /\ j # i => K2.inode[j].ref = K.inode[j].ref
  BY <1>0 DEF iget, Fields
<1>4. K2.inode[i].ref = K.inode[i].ref + 1
  BY <1>0 DEF iget, Fields
<1> HIDE DEF K2
<1>5. Dirs(K2) BY <1>0, <1>3 DEF Dirs
<1>6. TY(K2) = TY(K) /\ NM(K2) = NM(K) /\ TG(K2) = TG(K) BY <1>3, SameNames
<1>7. NL(K2) = NL(K) BY <1>3 DEF NL
<1>8. Referred(TY(K2), NL(K2), RF(K2), K2.file, K2.proc, i)
  <2>1. Referred(TY(K), NL(K), RF(K), K.file, K.proc, 0) BY DEF KInv
  <2>2. RF(K) \in [Inums -> Int] BY <2>1 DEF Referred
  <2>3. /\ \A j \in Inums \ {i} : RF(K2)[j] = RF(K)[j]
        /\ RF(K2)[i] = RF(K)[i] + 1 /\ RF(K2) \in [Inums -> Int]
    BY <2>2, <1>3, <1>4 DEF RF
  <2>4. ASSUME NEW j \in Inums, TY(K)[j] # "NONE"
        PROVE  /\ RF(K2)[j] = Cardinality(OpenOf(K.file, j)) + Cardinality(CwdOf(K.proc, j)) + Hand(i, j)
               /\ NL(K)[j] = 0 => RF(K2)[j] > 0
    <3>1. Cardinality(OpenOf(K.file, j)) \in Nat /\ Cardinality(CwdOf(K.proc, j)) \in Nat
      BY FiniteRefs
    <3>2. RF(K)[j] = Cardinality(OpenOf(K.file, j)) + Cardinality(CwdOf(K.proc, j)) + Hand(0, j)
      BY <2>1, <2>4 DEF Referred
    <3>3. Hand(0, j) = 0 BY KernelSizes DEF Hand
    <3>4. NL(K)[j] = 0 => RF(K)[j] > 0 BY <2>1, <2>4 DEF Referred
    <3> QED BY <3>1, <3>2, <3>3, <3>4, <2>2, <2>3 DEF Hand
  <2>5. TY(K)[i] # "NONE" BY DEF TY
  <2> QED BY <2>1, <2>3, <2>4, <2>5, <1>1, <1>6, <1>7 DEF Referred, Rest
<1> QED BY <1>1, <1>2, <1>5, <1>6, <1>7, <1>8 DEF KInv, Rest, K2

\* iput() of the reference in hand.
LEMMA IputKeeps ==
  ASSUME NEW K, NEW g, NEW i \in Inums, KInv(K, i, g)
  PROVE  KInv(iput(K, i), 0, g) /\ Rest(iput(K, i), K)
<1> DEFINE K2 == iput(K, i)
           last == K.inode[i].ref = 1 /\ K.inode[i].nlink = 0
<1>0. Fields(K) /\ Dirs(K) BY DEF KInv
<1>1. Rest(K2, K) BY <1>0 DEF Rest, iput, Fields
<1>2. Fields(K2) BY <1>0 DEF iput, Fields, NoInode
<1>3. \A j \in Inums \ {i} : K2.inode[j] = K.inode[j]
  BY <1>0 DEF iput, Fields
<1>4. last => K2.inode[i].type = "NONE" /\ K2.inode[i].nlink = 0 /\ K2.inode[i].ref = 0
  BY <1>0 DEF iput, Fields, NoInode
<1>5. ~last => /\ K2.inode[i].ref = K.inode[i].ref - 1 /\ K2.inode[i].type = K.inode[i].type
               /\ K2.inode[i].data = K.inode[i].data /\ K2.inode[i].nlink = K.inode[i].nlink
  BY <1>0 DEF iput, Fields
<1> HIDE DEF K2
<1>6. Dirs(K2) BY <1>0, <1>3, <1>4, <1>5 DEF Dirs
<1>7. Linked(TY(K), NL(K), NM(K), TG(K)) /\ Referred(TY(K), NL(K), RF(K), K.file, K.proc, i)
  BY DEF KInv
<1>8. /\ TY(K) \in [Inums -> Kinds] /\ NL(K) \in [Inums -> Int] /\ RF(K) \in [Inums -> Int]
      /\ TY(K)[i] # "NONE" /\ "NONE" \in Kinds
  BY <1>7, KernelSizes DEF Linked, Referred, Kinds
<1>9. /\ TY(K2) \in [Inums -> Kinds] /\ NL(K2) \in [Inums -> Int] /\ RF(K2) \in [Inums -> Int]
      /\ \A j \in Inums \ {i} : TY(K2)[j] = TY(K)[j] /\ NL(K2)[j] = NL(K)[j] /\ RF(K2)[j] = RF(K)[j]
      /\ last => TY(K2)[i] = "NONE"
      /\ ~last => TY(K2)[i] = TY(K)[i] /\ NL(K2)[i] = NL(K)[i] /\ RF(K2)[i] = RF(K)[i] - 1
  <2>1. ASSUME NEW j \in Inums
        PROVE  K2.inode[j].type \in Kinds /\ K2.inode[j].nlink \in Int /\ K2.inode[j].ref \in Int
    <3>1. K.inode[j].type \in Kinds /\ K.inode[j].nlink \in Int /\ K.inode[j].ref \in Int
      <4>1. TY(K)[j] \in Kinds /\ NL(K)[j] \in Int /\ RF(K)[j] \in Int BY <1>8
      <4> QED BY <4>1 DEF TY, NL, RF
    <3> QED BY <3>1, <1>3, <1>4, <1>5, <1>8
  <2>2. TY(K2) \in [Inums -> Kinds] BY <2>1 DEF TY
  <2>3. NL(K2) \in [Inums -> Int] /\ RF(K2) \in [Inums -> Int] BY <2>1 DEF NL, RF
  <2> QED BY <2>2, <2>3, <1>3, <1>4, <1>5 DEF TY, NL, RF
<1>10. Linked(TY(K2), NL(K2), NM(K2), TG(K2))
  <2>1. CASE last
    <3>1. NL(K)[i] = 0 BY <2>1 DEF NL
    <3>2. /\ Linked(TY(K2), NL(K2), NM(K), TG(K))
          /\ \A e \in NM(K) : e[1] # i /\ TG(K)[e] # i
      BY <3>1, <2>1, <1>7, <1>8, <1>9, FreeKeeps
    <3>3. NM(K2) = NM(K)
      <4>1. ASSUME NEW e \in Inums \X Nat PROVE e \in NM(K2) <=> e \in NM(K)
        <5>1. CASE e[1] = i BY <5>1, <3>2, <2>1, <1>4 DEF NM
        <5>2. CASE e[1] # i BY <5>2, <1>3 DEF NM
        <5> QED BY <5>1, <5>2
      <4> QED BY <4>1 DEF NM
    <3>4. \A e \in NM(K) : K2.inode[e[1]] = K.inode[e[1]]
      BY <3>2, <1>3 DEF NM
    <3>5. TG(K2) = TG(K) BY <3>3, <3>4 DEF TG
    <3> QED BY <3>2, <3>3, <3>5
  <2>2. CASE ~last
    <3>0. \A j \in Inums : K2.inode[j].type = K.inode[j].type /\ K2.inode[j].data = K.inode[j].data
      BY <2>2, <1>3, <1>5
    <3>1. TY(K2) = TY(K) /\ NM(K2) = NM(K) /\ TG(K2) = TG(K) BY <3>0, SameNames
    <3>2. NL(K2) = NL(K) BY <2>2, <1>3, <1>5 DEF NL
    <3> QED BY <3>1, <3>2, <1>7
  <2> QED BY <2>1, <2>2
<1>11. Referred(TY(K2), NL(K2), RF(K2), K2.file, K2.proc, 0)
  <2>0. /\ \A f \in Files : K.file[f].type = "FD_INODE" =>
            /\ K.file[f].ip \in Inums /\ TY(K)[K.file[f].ip] # "NONE"
            /\ K.file[f].writable => TY(K)[K.file[f].ip] # "DIR"
        /\ \A p \in Procs : K.proc[p].state = "LIVE" => K.proc[p].cwd \in Inums /\ TY(K)[K.proc[p].cwd] # "NONE"
    BY <1>7 DEF Referred
  <2>1. ASSUME NEW j \in Inums
        PROVE  /\ Cardinality(OpenOf(K.file, j)) \in Nat /\ Cardinality(CwdOf(K.proc, j)) \in Nat
               /\ (Cardinality(OpenOf(K.file, j)) = 0 <=> OpenOf(K.file, j) = {})
               /\ (Cardinality(CwdOf(K.proc, j)) = 0 <=> CwdOf(K.proc, j) = {})
    BY FiniteRefs
  <2>2. ASSUME NEW j \in Inums, TY(K)[j] # "NONE"
        PROVE  /\ RF(K)[j] = Cardinality(OpenOf(K.file, j)) + Cardinality(CwdOf(K.proc, j)) + Hand(i, j)
               /\ NL(K)[j] = 0 => RF(K)[j] > 0
    BY <2>2, <1>7 DEF Referred
  <2>3. ASSUME NEW j \in Inums, TY(K2)[j] # "NONE"
        PROVE  /\ RF(K2)[j] = Cardinality(OpenOf(K.file, j)) + Cardinality(CwdOf(K.proc, j)) + Hand(0, j)
               /\ NL(K2)[j] = 0 => RF(K2)[j] > 0
    <3>0. Hand(0, j) = 0 /\ Hand(i, j) = (IF j = i THEN 1 ELSE 0) BY KernelSizes DEF Hand
    <3>1. CASE j # i
      BY <3>0, <3>1, <2>1, <2>2, <2>3, <1>9
    <3>2. CASE j = i
      <4>1. ~last BY <3>2, <2>3, <1>9
      <4>2. RF(K)[i] = 1 => NL(K)[i] # 0 BY <4>1 DEF RF, NL
      <4>3. RF(K)[i] \in Int /\ RF(K2)[i] = RF(K)[i] - 1 /\ NL(K2)[i] = NL(K)[i] BY <4>1, <1>8, <1>9
      <4>4. RF(K)[i] = Cardinality(OpenOf(K.file, i)) + Cardinality(CwdOf(K.proc, i)) + 1
        BY <3>0, <3>2, <2>2, <1>8
      <4> QED BY <4>2, <4>3, <4>4, <3>0, <3>2, <2>1, <2>2, <1>8
    <3> QED BY <3>1, <3>2
  <2>4. last => OpenOf(K.file, i) = {} /\ CwdOf(K.proc, i) = {}
    <3> SUFFICES ASSUME last PROVE OpenOf(K.file, i) = {} /\ CwdOf(K.proc, i) = {} OBVIOUS
    <3>1. RF(K)[i] = 1 BY DEF RF
    <3>2. 1 = Cardinality(OpenOf(K.file, i)) + Cardinality(CwdOf(K.proc, i)) + 1
      BY <3>1, <2>2, <1>8 DEF Hand
    <3>3. Cardinality(OpenOf(K.file, i)) = 0 /\ Cardinality(CwdOf(K.proc, i)) = 0
      BY <3>2, <2>1
    <3> QED BY <3>3, <2>1
  <2>5. \A f \in Files : K.file[f].type = "FD_INODE" => TY(K2)[K.file[f].ip] = TY(K)[K.file[f].ip]
    <3> SUFFICES ASSUME NEW f \in Files, K.file[f].type = "FD_INODE"
                 PROVE  TY(K2)[K.file[f].ip] = TY(K)[K.file[f].ip]
      OBVIOUS
    <3>1. CASE last
      <4>1. K.file[f].ip # i BY <3>1, <2>4 DEF OpenOf
      <4> QED BY <4>1, <2>0, <1>9
    <3>2. CASE ~last BY <3>2, <2>0, <1>9
    <3> QED BY <3>1, <3>2
  <2>6. \A p \in Procs : K.proc[p].state = "LIVE" => TY(K2)[K.proc[p].cwd] = TY(K)[K.proc[p].cwd]
    <3> SUFFICES ASSUME NEW p \in Procs, K.proc[p].state = "LIVE"
                 PROVE  TY(K2)[K.proc[p].cwd] = TY(K)[K.proc[p].cwd]
      OBVIOUS
    <3>1. CASE last
      <4>1. K.proc[p].cwd # i BY <3>1, <2>4 DEF CwdOf
      <4> QED BY <4>1, <2>0, <1>9
    <3>2. CASE ~last BY <3>2, <2>0, <1>9
    <3> QED BY <3>1, <3>2
  <2> QED BY <2>0, <2>3, <2>5, <2>6, <1>1, <1>9 DEF Referred, Rest
<1> QED BY <1>1, <1>2, <1>6, <1>10, <1>11 DEF KInv, Rest, K2
-----------------------------------------------------------------------------
(* Descriptors.                                                            *)

\* What is said of processes beside their descriptors.
SameProcs(P2, P) ==
  \A q \in Procs : P2[q].state = P[q].state /\ P2[q].cwd = P[q].cwd /\ P2[q].sz = P[q].sz

LEMMA SameProcsKeep ==
  ASSUME NEW P, NEW P2, SameProcs(P2, P)
  PROVE  /\ \A i \in Inums : CwdOf(P2, i) = CwdOf(P, i)
         /\ \A m : Paid(P, m) => Paid(P2, m)
<1>1. \A i \in Inums : CwdOf(P2, i) = CwdOf(P, i) BY DEF SameProcs, CwdOf
<1>2. PagesOf(P2) = PagesOf(P) BY DEF SameProcs, PagesOf
<1>3. ASSUME NEW m, Paid(P, m) PROVE Paid(P2, m)
  BY <1>2, <1>3 DEF Paid, SameProcs
<1> QED BY <1>1, <1>3

\* The descriptor fd of the live process p becomes f.
SetFd(P2, P, p, fd, f) ==
  /\ SameProcs(P2, P)
  /\ \A q \in Procs : q # p => P2[q].ofile = P[q].ofile
  /\ P2[p].ofile = [P[p].ofile EXCEPT ![fd] = f]

LEMMA FdOpens ==
  ASSUME NEW P, NEW P2, NEW p \in Procs, NEW fd \in Fds, NEW f \in Files,
         \A q \in Procs : P[q].ofile \in [Fds -> Files \cup {0}],
         P[p].state = "LIVE", P[p].ofile[fd] = 0, SetFd(P2, P, p, fd, f)
  PROVE  /\ Cardinality(FdsOf(P2, f)) = Cardinality(FdsOf(P, f)) + 1
         /\ \A e \in Files \ {f} : FdsOf(P2, e) = FdsOf(P, e)
<1>0. 0 \notin Files BY KernelSizes
<1>1. \A x \in Procs \X Fds : /\ P2[x[1]].state = P[x[1]].state
                              /\ x # <<p, fd>> => P2[x[1]].ofile[x[2]] = P[x[1]].ofile[x[2]]
  BY DEF SetFd, SameProcs
<1>2. P2[p].ofile[fd] = f BY DEF SetFd
<1>3. FdsOf(P2, f) = FdsOf(P, f) \cup {<<p, fd>>}
  BY <1>1, <1>2 DEF FdsOf
<1>4. <<p, fd>> \notin FdsOf(P, f) BY <1>0 DEF FdsOf
<1>5. IsFiniteSet(FdsOf(P, f)) BY FiniteRefs
<1>6. Cardinality(FdsOf(P, f) \cup {<<p, fd>>}) = Cardinality(FdsOf(P, f)) + 1
  BY <1>4, <1>5, FS_AddElement
<1>7. Cardinality(FdsOf(P2, f)) = Cardinality(FdsOf(P, f)) + 1 BY <1>3, <1>6, Zenon
<1>8. ASSUME NEW e \in Files \ {f} PROVE FdsOf(P2, e) = FdsOf(P, e)
  BY <1>0, <1>1, <1>2 DEF FdsOf
<1> QED BY <1>7, <1>8

LEMMA FdCloses ==
  ASSUME NEW P, NEW P2, NEW p \in Procs, NEW fd \in Fds, NEW f \in Files,
         \A q \in Procs : P[q].ofile \in [Fds -> Files \cup {0}],
         P[p].state = "LIVE", P[p].ofile[fd] = f, SetFd(P2, P, p, fd, 0)
  PROVE  /\ Cardinality(FdsOf(P2, f)) = Cardinality(FdsOf(P, f)) - 1
         /\ \A e \in Files \ {f} : FdsOf(P2, e) = FdsOf(P, e)
<1>0. 0 \notin Files BY KernelSizes
<1>1. \A x \in Procs \X Fds : /\ P2[x[1]].state = P[x[1]].state
                              /\ x # <<p, fd>> => P2[x[1]].ofile[x[2]] = P[x[1]].ofile[x[2]]
  BY DEF SetFd, SameProcs
<1>2. P2[p].ofile[fd] = 0 BY DEF SetFd
<1>3. FdsOf(P2, f) = FdsOf(P, f) \ {<<p, fd>>}
  BY <1>0, <1>1, <1>2 DEF FdsOf
<1>4. <<p, fd>> \in FdsOf(P, f) BY DEF FdsOf
<1>5. IsFiniteSet(FdsOf(P, f)) BY FiniteRefs
<1>6. Cardinality(FdsOf(P, f) \ {<<p, fd>>}) = Cardinality(FdsOf(P, f)) - 1
  BY <1>4, <1>5, FS_RemoveElement
<1>7. Cardinality(FdsOf(P2, f)) = Cardinality(FdsOf(P, f)) - 1 BY <1>3, <1>6, Zenon
<1>8. ASSUME NEW e \in Files \ {f} PROVE FdsOf(P2, e) = FdsOf(P, e)
  BY <1>0, <1>1, <1>2 DEF FdsOf
<1> QED BY <1>7, <1>8

\* The first descriptor and the first open file that are free.
LEMMA FirstFound ==
  ASSUME NEW S \in SUBSET Nat, S # {}
  PROVE  Min(S) \in S
<1>1. \E x \in S : \A y \in S : x <= y BY LeastExists
<1> QED BY <1>1 DEF Min

LEMMA FdFound ==
  ASSUME NEW K, NEW p, fdalloc(K, p) >= 0
  PROVE  fdalloc(K, p) \in Fds /\ K.proc[p].ofile[fdalloc(K, p)] = 0
<1> DEFINE S == {fd \in Fds : K.proc[p].ofile[fd] = 0}
<1>1. S \in SUBSET Nat BY KernelSizes
<1>2. CASE S # {}
  <2>1. Min(S) \in S BY <1>1, <1>2, FirstFound
  <2>2. fdalloc(K, p) = Min(S) BY <1>2 DEF fdalloc
  <2> QED BY <2>1, <2>2
<1>3. CASE S = {} BY <1>3 DEF fdalloc
<1> QED BY <1>2, <1>3

LEMMA FileFound ==
  ASSUME NEW K, filealloc(K) # 0
  PROVE  filealloc(K) \in Files /\ K.file[filealloc(K)].ref = 0
<1> DEFINE S == {f \in Files : K.file[f].ref = 0}
<1>1. S \in SUBSET Nat BY KernelSizes
<1>2. CASE S # {}
  <2>1. Min(S) \in S BY <1>1, <1>2, FirstFound
  <2>2. filealloc(K) = Min(S) BY <1>2 DEF filealloc, First
  <2> QED BY <2>1, <2>2
<1>3. CASE S = {} BY <1>3 DEF filealloc, First
<1> QED BY <1>2, <1>3

\* Nothing about inodes changes with these.
LEMMA SameInodes ==
  ASSUME NEW K, NEW K2, K2.inode = K.inode
  PROVE  /\ TY(K2) = TY(K) /\ NL(K2) = NL(K) /\ RF(K2) = RF(K) /\ NM(K2) = NM(K) /\ TG(K2) = TG(K)
         /\ Dirs(K) => Dirs(K2)
<1>1. TY(K2) = TY(K) /\ NL(K2) = NL(K) /\ RF(K2) = RF(K) /\ NM(K2) = NM(K)
  BY DEF TY, NL, RF, NM
<1>2. TG(K2) = TG(K) BY <1>1 DEF TG
<1>3. Dirs(K) => Dirs(K2) BY DEF Dirs
<1> QED BY <1>1, <1>2, <1>3

LEMMA DupKeeps ==
  ASSUME NEW K, KInv(K, 0, 0), NEW p \in Procs, K.proc[p].state = "LIVE",
         NEW f \in Files, NEW fd \in Fds, K.proc[p].ofile[fd] = 0, \E x \in Fds : K.proc[p].ofile[x] = f
  PROVE  KInv([filedup(K, f) EXCEPT !.proc[p].ofile[fd] = f], 0, 0)
<1> DEFINE K2 == [filedup(K, f) EXCEPT !.proc[p].ofile[fd] = f]
<1>0. Fields(K) /\ Dirs(K) BY DEF KInv
<1>1. Fields(K2) BY <1>0 DEF filedup, Fields
<1>2. K2.inode = K.inode /\ K2.pipe = K.pipe /\ K2.free = K.free BY <1>0 DEF filedup, Fields
<1>3. SetFd(K2.proc, K.proc, p, fd, f) BY <1>0 DEF filedup, Fields, SetFd, SameProcs
<1>4. \A e \in Files :
        /\ K2.file[e].type = K.file[e].type /\ K2.file[e].ip = K.file[e].ip
        /\ K2.file[e].readable = K.file[e].readable /\ K2.file[e].writable = K.file[e].writable
        /\ e # f => K2.file[e].ref = K.file[e].ref
  BY <1>0 DEF filedup, Fields
<1>5. K2.file[f].ref = K.file[f].ref + 1
  BY <1>0 DEF filedup, Fields
<1> HIDE DEF K2
<1>6. SameProcs(K2.proc, K.proc) BY <1>3 DEF SetFd
<1>7. Referred(TY(K2), NL(K2), RF(K2), K2.file, K2.proc, 0)
  <2>1. \A i \in Inums : OpenOf(K2.file, i) = OpenOf(K.file, i) BY <1>4 DEF OpenOf
  <2>2. \A i \in Inums : CwdOf(K2.proc, i) = CwdOf(K.proc, i) BY <1>6, SameProcsKeep
  <2>3. TY(K2) = TY(K) /\ NL(K2) = NL(K) /\ RF(K2) = RF(K) BY <1>2, SameInodes
  <2> QED BY <2>1, <2>2, <2>3, <1>4, <1>6 DEF KInv, Referred, SameProcs
<1>8. Counted(K2.file, K2.proc, 0)
  <2>1. /\ Cardinality(FdsOf(K2.proc, f)) = Cardinality(FdsOf(K.proc, f)) + 1
        /\ \A e \in Files \ {f} : FdsOf(K2.proc, e) = FdsOf(K.proc, e)
    BY <1>0, <1>3, FdOpens DEF Fields
  <2>2. Counted(K.file, K.proc, 0) BY DEF KInv
  <2>3. ASSUME NEW e \in Files PROVE /\ K2.file[e].ref = Cardinality(FdsOf(K2.proc, e)) + Hand(0, e)
                                     /\ K2.file[e].ref = 0 => K2.file[e].type = "FD_NONE"
    <3>1. K.file[e].ref = Cardinality(FdsOf(K.proc, e)) + Hand(0, e) BY <2>2 DEF Counted
    <3>2. Cardinality(FdsOf(K.proc, e)) \in Nat BY FiniteRefs
    <3>3. Hand(0, e) = 0 BY KernelSizes DEF Hand
    <3>4. CASE e = f BY <3>1, <3>2, <3>3, <3>4, <2>1, <1>5
    <3>5. CASE e # f
      <4>1. FdsOf(K2.proc, e) = FdsOf(K.proc, e) BY <3>5, <2>1
      <4>2. K2.file[e].ref = K.file[e].ref /\ K2.file[e].type = K.file[e].type BY <3>5, <1>4
      <4> QED BY <4>1, <4>2, <3>1, <2>2 DEF Counted
    <3> QED BY <3>4, <3>5
  <2> QED BY <2>3 DEF Counted
<1>9. Piped(K2.file, K2.pipe)
  BY <1>2, <1>4 DEF KInv, Piped
<1>10. Paid(K2.proc, K2.free) BY <1>2, <1>6, SameProcsKeep DEF KInv
<1>11. Dirs(K2) /\ Linked(TY(K2), NL(K2), NM(K2), TG(K2)) BY <1>0, <1>2, SameInodes DEF KInv
<1> QED BY <1>1, <1>7, <1>8, <1>9, <1>10, <1>11 DEF KInv, K2

\* An open file for the inode in hand, and a descriptor for it.
LEMMA OpenKeeps ==
  ASSUME NEW K, NEW i \in Inums, KInv(K, i, 0), NEW p \in Procs, K.proc[p].state = "LIVE",
         NEW f \in Files, K.file[f].ref = 0, NEW fd \in Fds, K.proc[p].ofile[fd] = 0,
         NEW r \in BOOLEAN, NEW w \in BOOLEAN, w => K.inode[i].type # "DIR"
  PROVE  KInv([K EXCEPT !.file[f] = [ref |-> 1, type |-> "FD_INODE", ip |-> i, off |-> 0,
                                     readable |-> r, writable |-> w],
                        !.proc[p].ofile[fd] = f], 0, 0)
<1> DEFINE K2 == [K EXCEPT !.file[f] = [ref |-> 1, type |-> "FD_INODE", ip |-> i, off |-> 0,
                                        readable |-> r, writable |-> w],
                           !.proc[p].ofile[fd] = f]
<1>0. Fields(K) /\ Dirs(K) BY DEF KInv
<1>1. Fields(K2) BY <1>0 DEF Fields
<1>2. K2.inode = K.inode /\ K2.pipe = K.pipe /\ K2.free = K.free BY <1>0 DEF Fields
<1>3. SetFd(K2.proc, K.proc, p, fd, f) BY <1>0 DEF Fields, SetFd, SameProcs
<1>4. \A e \in Files \ {f} : K2.file[e] = K.file[e]
  BY <1>0 DEF Fields
<1>5. /\ K2.file[f].ref = 1 /\ K2.file[f].type = "FD_INODE" /\ K2.file[f].ip = i
      /\ K2.file[f].writable = w
  BY <1>0 DEF Fields
<1> HIDE DEF K2
<1>6. SameProcs(K2.proc, K.proc) BY <1>3 DEF SetFd
<1>c. Counted(K.file, K.proc, 0) BY DEF KInv
<1>t. K.file[f].type = "FD_NONE" BY <1>c DEF Counted
<1>7. Referred(TY(K2), NL(K2), RF(K2), K2.file, K2.proc, 0)
  <2>1. OpenOf(K2.file, i) = OpenOf(K.file, i) \cup {f} BY <1>4, <1>5 DEF OpenOf
  <2>2. \A j \in Inums \ {i} : OpenOf(K2.file, j) = OpenOf(K.file, j)
    BY <1>4, <1>5, <1>t DEF OpenOf
  <2>3. \A j \in Inums : CwdOf(K2.proc, j) = CwdOf(K.proc, j) BY <1>6, SameProcsKeep
  <2>4. TY(K2) = TY(K) /\ NL(K2) = NL(K) /\ RF(K2) = RF(K) BY <1>2, SameInodes
  <2>5. Cardinality(OpenOf(K2.file, i)) = Cardinality(OpenOf(K.file, i)) + 1
    <3>1. f \notin OpenOf(K.file, i) BY <1>t DEF OpenOf
    <3>a. IsFiniteSet(OpenOf(K.file, i)) BY FiniteRefs
    <3>2. Cardinality(OpenOf(K.file, i) \cup {f}) = Cardinality(OpenOf(K.file, i)) + 1
      BY <3>1, <3>a, FS_AddElement
    <3> QED BY <3>2, <2>1, Zenon
  <2>6. Referred(TY(K), NL(K), RF(K), K.file, K.proc, i) BY DEF KInv
  <2>7. ASSUME NEW j \in Inums, TY(K)[j] # "NONE"
        PROVE  RF(K)[j] = Cardinality(OpenOf(K2.file, j)) + Cardinality(CwdOf(K2.proc, j)) + Hand(0, j)
    <3>1. RF(K)[j] = Cardinality(OpenOf(K.file, j)) + Cardinality(CwdOf(K.proc, j)) + Hand(i, j)
      BY <2>6, <2>7 DEF Referred
    <3>2. Cardinality(OpenOf(K.file, j)) \in Nat /\ Cardinality(CwdOf(K.proc, j)) \in Nat BY FiniteRefs
    <3>3. Hand(0, j) = 0 /\ Hand(i, j) = (IF j = i THEN 1 ELSE 0) BY KernelSizes DEF Hand
    <3>4. Cardinality(CwdOf(K2.proc, j)) = Cardinality(CwdOf(K.proc, j)) BY <2>3
    <3>5. CASE j = i BY <3>1, <3>2, <3>3, <3>4, <3>5, <2>5
    <3>6. CASE j # i
      <4>1. Cardinality(OpenOf(K2.file, j)) = Cardinality(OpenOf(K.file, j)) BY <3>6, <2>2
      <4> QED BY <4>1, <3>1, <3>2, <3>3, <3>4, <3>6
    <3> QED BY <3>5, <3>6
  <2>8. TY(K)[i] # "NONE" /\ (w => TY(K)[i] # "DIR")
    BY <2>6, KernelSizes DEF Referred, TY
  <2>9. ASSUME NEW e \in Files, K2.file[e].type = "FD_INODE"
        PROVE  /\ K2.file[e].ip \in Inums /\ TY(K)[K2.file[e].ip] # "NONE"
               /\ K2.file[e].writable => TY(K)[K2.file[e].ip] # "DIR"
    <3>1. CASE e = f BY <3>1, <2>8, <1>5
    <3>2. CASE e # f BY <3>2, <2>6, <2>9, <1>4 DEF Referred
    <3> QED BY <3>1, <3>2
  <2> QED BY <2>4, <2>6, <2>7, <2>9, <1>6 DEF Referred, SameProcs
<1>8. Counted(K2.file, K2.proc, 0)
  <2>1. /\ Cardinality(FdsOf(K2.proc, f)) = Cardinality(FdsOf(K.proc, f)) + 1
        /\ \A e \in Files \ {f} : FdsOf(K2.proc, e) = FdsOf(K.proc, e)
    BY <1>0, <1>3, FdOpens DEF Fields
  <2>3. ASSUME NEW e \in Files PROVE /\ K2.file[e].ref = Cardinality(FdsOf(K2.proc, e)) + Hand(0, e)
                                     /\ K2.file[e].ref = 0 => K2.file[e].type = "FD_NONE"
    <3>1. K.file[e].ref = Cardinality(FdsOf(K.proc, e)) + Hand(0, e) BY <1>c DEF Counted
    <3>2. Cardinality(FdsOf(K.proc, e)) \in Nat BY FiniteRefs
    <3>3. Hand(0, e) = 0 BY KernelSizes DEF Hand
    <3>4. CASE e = f BY <3>1, <3>2, <3>3, <3>4, <2>1, <1>5
    <3>5. CASE e # f
      <4>1. FdsOf(K2.proc, e) = FdsOf(K.proc, e) BY <3>5, <2>1
      <4>2. K2.file[e] = K.file[e] BY <3>5, <1>4
      <4> QED BY <4>1, <4>2, <3>1, <1>c DEF Counted
    <3> QED BY <3>4, <3>5
  <2> QED BY <2>3 DEF Counted
<1>9. Piped(K2.file, K2.pipe)
  <2>1. \A e \in Files : K2.file[e].type = "FD_PIPE" <=> K.file[e].type = "FD_PIPE"
    BY <1>4, <1>5, <1>t
  <2>2. \A e \in Files : K.file[e].type = "FD_PIPE" => K2.file[e] = K.file[e]
    BY <1>4, <1>t
  <2> QED BY <2>1, <2>2, <1>2 DEF KInv, Piped
<1>10. Paid(K2.proc, K2.free) BY <1>2, <1>6, SameProcsKeep DEF KInv
<1>11. Dirs(K2) /\ Linked(TY(K2), NL(K2), NM(K2), TG(K2)) BY <1>0, <1>2, SameInodes DEF KInv
<1> QED BY <1>1, <1>7, <1>8, <1>9, <1>10, <1>11 DEF KInv, K2

\* fileclose() of the reference in hand, of several or the last.
LEMMA FilecloseMany ==
  ASSUME NEW K, NEW f \in Files, KInv(K, 0, f), K.file[f].ref > 1
  PROVE  KInv([K EXCEPT !.file[f].ref = @ - 1], 0, 0)
<1> DEFINE K2 == [K EXCEPT !.file[f].ref = @ - 1]
<1>0. Fields(K) /\ Dirs(K) BY DEF KInv
<1>1. Fields(K2) BY <1>0 DEF Fields
<1>2. K2.inode = K.inode /\ K2.pipe = K.pipe /\ K2.free = K.free /\ K2.proc = K.proc BY <1>0 DEF Fields
<1>4. \A e \in Files :
        /\ K2.file[e].type = K.file[e].type /\ K2.file[e].ip = K.file[e].ip
        /\ K2.file[e].readable = K.file[e].readable /\ K2.file[e].writable = K.file[e].writable
        /\ e # f => K2.file[e].ref = K.file[e].ref
  BY <1>0 DEF Fields
<1>5. K2.file[f].ref = K.file[f].ref - 1
  BY <1>0 DEF Fields
<1> HIDE DEF K2
<1>7. Referred(TY(K2), NL(K2), RF(K2), K2.file, K2.proc, 0)
  <2>1. \A i \in Inums : OpenOf(K2.file, i) = OpenOf(K.file, i) BY <1>4 DEF OpenOf
  <2>3. TY(K2) = TY(K) /\ NL(K2) = NL(K) /\ RF(K2) = RF(K) BY <1>2, SameInodes
  <2> QED BY <2>1, <2>3, <1>2, <1>4 DEF KInv, Referred
<1>8. Counted(K2.file, K2.proc, 0)
  <2>1. Counted(K.file, K.proc, f) BY DEF KInv
  <2>3. ASSUME NEW e \in Files PROVE /\ K2.file[e].ref = Cardinality(FdsOf(K.proc, e)) + Hand(0, e)
                                     /\ K2.file[e].ref = 0 => K2.file[e].type = "FD_NONE"
    <3>1. K.file[e].ref = Cardinality(FdsOf(K.proc, e)) + Hand(f, e) BY <2>1 DEF Counted
    <3>2. Cardinality(FdsOf(K.proc, e)) \in Nat BY FiniteRefs
    <3>3. Hand(0, e) = 0 /\ Hand(f, e) = (IF e = f THEN 1 ELSE 0) BY KernelSizes DEF Hand
    <3>4. CASE e = f BY <3>1, <3>2, <3>3, <3>4, <1>5
    <3>5. CASE e # f BY <3>1, <3>2, <3>3, <3>5, <2>1, <1>4 DEF Counted
    <3> QED BY <3>4, <3>5
  <2> QED BY <2>3, <1>2 DEF Counted
<1>9. Piped(K2.file, K2.pipe)
  BY <1>2, <1>4 DEF KInv, Piped
<1>11. Dirs(K2) /\ Linked(TY(K2), NL(K2), NM(K2), TG(K2)) BY <1>0, <1>2, SameInodes DEF KInv
<1> QED BY <1>1, <1>2, <1>7, <1>8, <1>9, <1>11 DEF KInv, K2

LEMMA FilecloseLast ==
  ASSUME NEW K, NEW f \in Files, KInv(K, 0, f), K.file[f].ref = 1,
         NEW C, C = [K EXCEPT !.file[f] = NoFile]
  PROVE  /\ Fields(C) /\ Dirs(C) /\ Linked(TY(C), NL(C), NM(C), TG(C))
         /\ C.inode = K.inode /\ C.pipe = K.pipe /\ C.proc = K.proc /\ C.free = K.free
         /\ \A e \in Files \ {f} : C.file[e] = K.file[e]
         /\ C.file[f].type = "FD_NONE"
         /\ Referred(TY(C), NL(C), RF(C), C.file, C.proc,
                     IF K.file[f].type = "FD_INODE" THEN K.file[f].ip ELSE 0)
         /\ Counted(C.file, C.proc, 0) /\ Paid(C.proc, C.free)
<1>0. Fields(K) /\ Dirs(K) BY DEF KInv
<1>1. Fields(C) BY <1>0 DEF Fields, NoFile
<1>2. C.inode = K.inode /\ C.pipe = K.pipe /\ C.free = K.free /\ C.proc = K.proc BY <1>0 DEF Fields
<1>4. \A e \in Files \ {f} : C.file[e] = K.file[e]
  BY <1>0 DEF Fields
<1>5. C.file[f].ref = 0 /\ C.file[f].type = "FD_NONE"
  BY <1>0 DEF Fields, NoFile
<1>7. Referred(TY(C), NL(C), RF(C), C.file, C.proc,
               IF K.file[f].type = "FD_INODE" THEN K.file[f].ip ELSE 0)
  <2> DEFINE h == IF K.file[f].type = "FD_INODE" THEN K.file[f].ip ELSE 0
  <2>0. Referred(TY(K), NL(K), RF(K), K.file, K.proc, 0) BY DEF KInv
  <2>1. h # 0 => h \in Inums /\ TY(K)[h] # "NONE" BY <2>0 DEF Referred
  <2>h. h # 0 => K.file[f].type = "FD_INODE" /\ K.file[f].ip = h OBVIOUS
  <2>i. h = 0 => K.file[f].type # "FD_INODE" BY <2>0, KernelSizes DEF Referred
  <2> HIDE DEF h
  <2>3. TY(C) = TY(K) /\ NL(C) = NL(K) /\ RF(C) = RF(K) BY <1>2, SameInodes
  <2>4. ASSUME NEW j \in Inums, TY(K)[j] # "NONE"
        PROVE  RF(K)[j] = Cardinality(OpenOf(C.file, j)) + Cardinality(CwdOf(K.proc, j)) + Hand(h, j)
    <3>1. RF(K)[j] = Cardinality(OpenOf(K.file, j)) + Cardinality(CwdOf(K.proc, j)) + Hand(0, j)
      BY <2>0, <2>4 DEF Referred
    <3>2. Cardinality(OpenOf(K.file, j)) \in Nat /\ Cardinality(CwdOf(K.proc, j)) \in Nat BY FiniteRefs
    <3>3. Hand(0, j) = 0 /\ Hand(h, j) = (IF j = h THEN 1 ELSE 0) BY KernelSizes DEF Hand
    <3>4. CASE j = h
      <4>1. OpenOf(C.file, j) = OpenOf(K.file, j) \ {f} BY <1>4, <1>5 DEF OpenOf
      <4>2. f \in OpenOf(K.file, j) BY <3>4, <2>h, KernelSizes DEF OpenOf
      <4>3. IsFiniteSet(OpenOf(K.file, j)) BY FiniteRefs
      <4>4. Cardinality(OpenOf(K.file, j) \ {f}) = Cardinality(OpenOf(K.file, j)) - 1
        BY <4>2, <4>3, FS_RemoveElement
      <4>5. Cardinality(OpenOf(C.file, j)) = Cardinality(OpenOf(K.file, j)) - 1
        BY <4>1, <4>4, Zenon
      <4> QED BY <4>5, <3>1, <3>2, <3>3, <3>4
    <3>5. CASE j # h
      <4>1. f \notin OpenOf(K.file, j) BY <3>5, <2>h, <2>i DEF OpenOf
      <4>2. OpenOf(C.file, j) = OpenOf(K.file, j) BY <4>1, <1>4, <1>5 DEF OpenOf
      <4>3. Cardinality(OpenOf(C.file, j)) = Cardinality(OpenOf(K.file, j)) BY <4>2
      <4> QED BY <4>3, <3>1, <3>2, <3>3, <3>5
    <3> QED BY <3>4, <3>5
  <2>5. ASSUME NEW e \in Files, C.file[e].type = "FD_INODE" PROVE e # f /\ C.file[e] = K.file[e]
    BY <2>5, <1>4, <1>5
  <2>6. Referred(TY(C), NL(C), RF(C), C.file, C.proc, h)
    BY <2>0, <2>1, <2>3, <2>4, <2>5, <1>2 DEF Referred
  <2> QED BY <2>6 DEF h
<1>8. Counted(C.file, C.proc, 0)
  <2>1. Counted(K.file, K.proc, f) BY DEF KInv
  <2>3. ASSUME NEW e \in Files PROVE /\ C.file[e].ref = Cardinality(FdsOf(K.proc, e)) + Hand(0, e)
                                     /\ C.file[e].ref = 0 => C.file[e].type = "FD_NONE"
    <3>1. K.file[e].ref = Cardinality(FdsOf(K.proc, e)) + Hand(f, e) BY <2>1 DEF Counted
    <3>2. Cardinality(FdsOf(K.proc, e)) \in Nat BY FiniteRefs
    <3>3. Hand(0, e) = 0 /\ Hand(f, e) = (IF e = f THEN 1 ELSE 0) BY KernelSizes DEF Hand
    <3>4. CASE e = f BY <3>1, <3>2, <3>3, <3>4, <1>5
    <3>5. CASE e # f BY <3>1, <3>2, <3>3, <3>5, <2>1, <1>4 DEF Counted
    <3> QED BY <3>4, <3>5
  <2> QED BY <2>3, <1>2 DEF Counted
<1>11. Dirs(C) /\ Linked(TY(C), NL(C), NM(C), TG(C)) BY <1>0, <1>2, SameInodes DEF KInv
<1>12. Paid(C.proc, C.free) BY <1>2 DEF KInv
<1> QED BY <1>1, <1>2, <1>4, <1>5, <1>7, <1>8, <1>11, <1>12

LEMMA FilecloseKeeps ==
  ASSUME NEW K, NEW f \in Files, KInv(K, 0, f)
  PROVE  /\ KInv(fileclose(K, f), 0, 0)
         /\ fileclose(K, f).proc = K.proc /\ fileclose(K, f).panic = K.panic
         /\ fileclose(K, f).strayed = K.strayed
<1>0. Fields(K) BY DEF KInv
<1>1. K.file[f].ref \in Nat /\ K.file[f].ref >= 1
  <2>1. K.file[f].ref = Cardinality(FdsOf(K.proc, f)) + 1 BY DEF KInv, Counted, Hand
  <2>2. Cardinality(FdsOf(K.proc, f)) \in Nat BY FiniteRefs
  <2> QED BY <2>1, <2>2
<1>2. CASE K.file[f].ref > 1
  <2>1. fileclose(K, f) = [K EXCEPT !.file[f].ref = @ - 1] BY <1>1, <1>2 DEF fileclose
  <2>2. KInv([K EXCEPT !.file[f].ref = @ - 1], 0, 0) BY <1>2, FilecloseMany
  <2> QED BY <2>1, <2>2, <1>0 DEF Fields
<1>3. CASE K.file[f].ref = 1
  <2> DEFINE C == [K EXCEPT !.file[f] = NoFile]
             h == IF K.file[f].type = "FD_INODE" THEN K.file[f].ip ELSE 0
  <2>1. /\ Fields(C) /\ Dirs(C) /\ Linked(TY(C), NL(C), NM(C), TG(C))
        /\ C.inode = K.inode /\ C.pipe = K.pipe /\ C.proc = K.proc /\ C.free = K.free
        /\ \A e \in Files \ {f} : C.file[e] = K.file[e]
        /\ C.file[f].type = "FD_NONE"
        /\ Referred(TY(C), NL(C), RF(C), C.file, C.proc, h)
        /\ Counted(C.file, C.proc, 0) /\ Paid(C.proc, C.free)
    BY <1>3, FilecloseLast
  <2>2. C.panic = K.panic /\ C.strayed = K.strayed BY <1>0 DEF Fields
  <2>3. fileclose(K, f) = IF K.file[f].type = "FD_PIPE" THEN pipeclose(C, K.file[f].ip, K.file[f].writable)
                          ELSE IF K.file[f].type = "FD_INODE" THEN iput(C, K.file[f].ip) ELSE C
    BY <1>3 DEF fileclose
  <2> HIDE DEF C
  <2>p. Piped(K.file, K.pipe) BY DEF KInv
  <2>4. CASE K.file[f].type = "FD_INODE"
    <3>1. Piped(C.file, C.pipe)
      <4>1. \A e \in Files : C.file[e].type = "FD_PIPE" <=> K.file[e].type = "FD_PIPE" BY <2>1, <2>4
      <4>2. \A e \in Files : K.file[e].type = "FD_PIPE" => C.file[e] = K.file[e] BY <2>1, <2>4
      <4> QED BY <4>1, <4>2, <2>1, <2>p DEF Piped
    <3>2. K.file[f].ip \in Inums BY <2>4 DEF KInv, Referred
    <3>3. KInv(C, K.file[f].ip, 0) BY <3>1, <2>1, <2>4 DEF KInv
    <3> QED BY <3>2, <3>3, <2>1, <2>2, <2>3, <2>4, IputKeeps DEF Rest
  <2>5. CASE K.file[f].type = "FD_NONE"
    <3>1. Piped(C.file, C.pipe)
      <4>1. \A e \in Files : C.file[e].type = "FD_PIPE" <=> K.file[e].type = "FD_PIPE" BY <2>1, <2>5
      <4>2. \A e \in Files : K.file[e].type = "FD_PIPE" => C.file[e] = K.file[e] BY <2>1, <2>5
      <4> QED BY <4>1, <4>2, <2>1, <2>p DEF Piped
    <3>3. KInv(C, 0, 0) BY <3>1, <2>1, <2>5 DEF KInv
    <3> QED BY <3>3, <2>1, <2>2, <2>3, <2>5
  <2>6. CASE K.file[f].type = "FD_PIPE"
    <3> DEFINE i == K.file[f].ip
               w == K.file[f].writable
               K2 == pipeclose(C, i, w)
    <3>1. i \in Pipes /\ w \in BOOLEAN BY <2>6, <2>p, <1>0 DEF Piped, Fields
    <3>2. /\ K2.inode = C.inode /\ K2.file = C.file /\ K2.proc = C.proc /\ K2.free = C.free
          /\ K2.panic = C.panic /\ K2.strayed = C.strayed
      BY <2>1 DEF pipeclose, Fields
    <3>4. \A j \in Pipes \ {i} : K2.pipe[j] = C.pipe[j] BY <2>1 DEF pipeclose, Fields
    <3>5. /\ K2.pipe[i].writeopen <=> C.pipe[i].writeopen /\ ~w
          /\ K2.pipe[i].readopen <=> C.pipe[i].readopen /\ w
          /\ K2.pipe[i].writeopen \in BOOLEAN /\ K2.pipe[i].readopen \in BOOLEAN
          /\ DOMAIN K2.pipe[i] = {"data", "readopen", "writeopen"}
      <4> DEFINE pi == [C.pipe[i] EXCEPT !.writeopen = @ /\ ~w, !.readopen = @ /\ w]
      <4>1. /\ DOMAIN C.pipe[i] = {"data", "readopen", "writeopen"}
            /\ C.pipe[i].readopen \in BOOLEAN /\ C.pipe[i].writeopen \in BOOLEAN
        BY <2>1, <3>1 DEF Fields
      <4>2. /\ DOMAIN pi = {"data", "readopen", "writeopen"}
            /\ pi.writeopen = (C.pipe[i].writeopen /\ ~w)
            /\ pi.readopen = (C.pipe[i].readopen /\ w)
        BY <4>1
      <4>3. K2.pipe[i] = IF pi.readopen \/ pi.writeopen THEN pi ELSE NoPipe
        BY <2>1, <3>1 DEF pipeclose, Fields
      <4> HIDE DEF pi
      <4>4. CASE pi.readopen \/ pi.writeopen
        <5>1. K2.pipe[i] = pi BY <4>3, <4>4
        <5> QED BY <5>1, <4>1, <4>2, <3>1
      <4>5. CASE ~(pi.readopen \/ pi.writeopen)
        <5>1. K2.pipe[i] = NoPipe BY <4>3, <4>5
        <5>2. ~(C.pipe[i].writeopen /\ ~w) /\ ~(C.pipe[i].readopen /\ w) BY <4>2, <4>5
        <5>3. K2.pipe[i].readopen = FALSE /\ K2.pipe[i].writeopen = FALSE
              /\ DOMAIN K2.pipe[i] = {"data", "readopen", "writeopen"}
          BY <5>1 DEF NoPipe
        <5> QED BY <5>2, <5>3
      <4> QED BY <4>4, <4>5
    <3>0. DOMAIN K2 = DOMAIN C /\ DOMAIN K2.pipe = DOMAIN C.pipe BY <2>1 DEF pipeclose, Fields
    <3> HIDE DEF K2
    <3>3. Fields(K2)
      <4>1. ASSUME NEW j \in Pipes
            PROVE  /\ DOMAIN K2.pipe[j] = {"data", "readopen", "writeopen"}
                   /\ K2.pipe[j].readopen \in BOOLEAN /\ K2.pipe[j].writeopen \in BOOLEAN
        <5>1. CASE j = i BY <5>1, <3>5
        <5>2. CASE j # i
          <6>1. K2.pipe[j] = C.pipe[j] BY <5>2, <3>4
          <6>2. /\ DOMAIN C.pipe[j] = {"data", "readopen", "writeopen"}
                /\ C.pipe[j].readopen \in BOOLEAN /\ C.pipe[j].writeopen \in BOOLEAN
            BY <2>1 DEF Fields
          <6> QED BY <6>1, <6>2
        <5> QED BY <5>1, <5>2
      <4> HIDE DEF i, w, h
      <4> QED BY <4>1, <3>0, <3>2, <2>1 DEF Fields
    <3>6. Piped(K2.file, K2.pipe)
      <4>1. ASSUME NEW e \in Files, C.file[e].type = "FD_PIPE" PROVE e # f /\ C.file[e] = K.file[e]
        BY <4>1, <2>1
      <4>2. \A e \in Files \ {f} : C.file[e] = K.file[e] BY <2>1
      <4>3. ASSUME NEW j \in Pipes
            PROVE  /\ K2.pipe[j].writeopen <=> \E e \in Files : C.file[e].type = "FD_PIPE" /\ C.file[e].ip = j /\ C.file[e].writable
                   /\ K2.pipe[j].readopen <=> \E e \in Files : C.file[e].type = "FD_PIPE" /\ C.file[e].ip = j /\ C.file[e].readable
        <5>1. /\ K.pipe[j].writeopen <=> \E e \in Files : K.file[e].type = "FD_PIPE" /\ K.file[e].ip = j /\ K.file[e].writable
              /\ K.pipe[j].readopen <=> \E e \in Files : K.file[e].type = "FD_PIPE" /\ K.file[e].ip = j /\ K.file[e].readable
          BY <2>p DEF Piped
        <5>2. CASE j # i
          BY <5>1, <5>2, <4>1, <4>2, <3>4, <2>1
        <5>3. CASE j = i
          <6>1. \A e \in Files : K.file[e].type = "FD_PIPE" /\ K.file[e].ip = i /\ K.file[e].writable = w => e = f
            BY <2>6, <2>p DEF Piped
          <6>2. \A e \in Files : K.file[e].type = "FD_PIPE" => (K.file[e].readable <=> ~K.file[e].writable)
            BY <2>p DEF Piped
          <6>3. C.pipe[i] = K.pipe[i] /\ (\A e \in Files : K.file[e].writable \in BOOLEAN)
            BY <2>1, <1>0 DEF Fields
          <6>4. CASE w
            <7>1. w = TRUE BY <6>4, <3>1
            <7>2. ASSUME NEW e \in Files, C.file[e].type = "FD_PIPE", C.file[e].ip = i PROVE ~C.file[e].writable
              <8>1. e # f /\ C.file[e] = K.file[e] BY <4>1, <7>2
              <8> QED BY <8>1, <7>1, <7>2, <6>1, <6>3
            <7>3. ~K2.pipe[i].writeopen /\ (K2.pipe[i].readopen <=> K.pipe[i].readopen) BY <3>5, <6>3, <6>4
            <7>4. \A e \in Files : K.file[e].type = "FD_PIPE" /\ K.file[e].readable => e # f
              BY <6>2, <6>4
            <7>5. (\E e \in Files : C.file[e].type = "FD_PIPE" /\ C.file[e].ip = i /\ C.file[e].readable)
                  <=> (\E e \in Files : K.file[e].type = "FD_PIPE" /\ K.file[e].ip = i /\ K.file[e].readable)
              BY <7>4, <4>1, <4>2
            <7> QED BY <7>2, <7>3, <7>5, <5>1, <5>3
          <6>5. CASE ~w BY <6>1, <6>2, <6>3, <6>5, <5>1, <5>3, <4>1, <4>2, <3>5
          <6> QED BY <6>4, <6>5
        <5> QED BY <5>2, <5>3
      <4> QED BY <4>1, <4>3, <3>2, <2>p DEF Piped
    <3>7. /\ TY(K2) = TY(C) /\ NL(K2) = NL(C) /\ RF(K2) = RF(C) /\ NM(K2) = NM(C) /\ TG(K2) = TG(C) /\ Dirs(K2)
      BY <3>2, <2>1, SameInodes
    <3>8. h = 0 BY <2>6
    <3>9. KInv(K2, 0, 0) BY <3>2, <3>3, <3>6, <3>7, <3>8, <2>1 DEF KInv
    <3> QED BY <3>2, <3>9, <2>1, <2>2, <2>3, <2>6 DEF K2
  <2> QED BY <2>4, <2>5, <2>6, <1>0 DEF Fields
<1> QED BY <1>1, <1>2, <1>3
-----------------------------------------------------------------------------
(* The calls on descriptors.                                               *)

\* The descriptors change, and what is counted of them still holds.
LEMMA ProcKeeps ==
  ASSUME NEW K, NEW K2, NEW h, NEW g, NEW g2, KInv(K, h, g), Fields(K2),
         K2.inode = K.inode, K2.file = K.file, K2.pipe = K.pipe, K2.free = K.free,
         SameProcs(K2.proc, K.proc), Counted(K2.file, K2.proc, g2)
  PROVE  KInv(K2, h, g2)
<1>1. /\ TY(K2) = TY(K) /\ NL(K2) = NL(K) /\ RF(K2) = RF(K) /\ NM(K2) = NM(K) /\ TG(K2) = TG(K)
      /\ Dirs(K2)
  BY SameInodes DEF KInv
<1>2. \A i \in Inums : CwdOf(K2.proc, i) = CwdOf(K.proc, i) BY SameProcsKeep
<1>3. Referred(TY(K2), NL(K2), RF(K2), K2.file, K2.proc, h)
  BY <1>1, <1>2 DEF KInv, Referred, SameProcs
<1>4. Paid(K2.proc, K2.free) BY SameProcsKeep DEF KInv
<1> QED BY <1>1, <1>3, <1>4 DEF KInv

LEMMA CloseKeeps ==
  ASSUME NEW K, KInv(K, 0, 0), NEW p \in Procs, K.proc[p].state = "LIVE", NEW fd
  PROVE  LET K2 == sys_close(K, p, fd).k
         IN  /\ KInv(K2, 0, 0) /\ K2.panic = K.panic /\ K2.strayed = K.strayed
             /\ \A q \in Procs \ {p} : K2.proc[q] = K.proc[q]
             /\ K2.proc[p].state = "LIVE" /\ K2.proc[p].cwd = K.proc[p].cwd
             /\ \A x \in Fds : K2.proc[p].ofile[x] = IF x = fd THEN 0 ELSE K.proc[p].ofile[x]
<1>0. Fields(K) BY DEF KInv
<1> DEFINE f == argfd(K, p, fd)
<1>1. CASE f = 0
  <2>1. sys_close(K, p, fd).k = K BY <1>1 DEF sys_close, Fail, Ret
  <2>2. fd \in Fds => K.proc[p].ofile[fd] = 0 BY <1>1 DEF argfd
  <2> QED BY <2>1, <2>2
<1>2. CASE f # 0
  <2> DEFINE K1 == [K EXCEPT !.proc[p].ofile[fd] = 0]
  <2>1. fd \in Fds /\ f = K.proc[p].ofile[fd] /\ f \in Files BY <1>0, <1>2 DEF argfd, Fields
  <2>2. Fields(K1) BY <1>0, <2>1 DEF Fields
  <2>3. /\ K1.inode = K.inode /\ K1.pipe = K.pipe /\ K1.free = K.free /\ K1.file = K.file
        /\ K1.panic = K.panic /\ K1.strayed = K.strayed
    BY <1>0 DEF Fields
  <2>4. SetFd(K1.proc, K.proc, p, fd, 0) BY <1>0, <2>1 DEF Fields, SetFd, SameProcs
  <2>5. \A q \in Procs \ {p} : K1.proc[q] = K.proc[q] BY <1>0 DEF Fields
  <2>c. sys_close(K, p, fd).k = fileclose(K1, f) BY <1>2 DEF sys_close, Ret
  <2> HIDE DEF K1, f
  <2>6. /\ Cardinality(FdsOf(K1.proc, f)) = Cardinality(FdsOf(K.proc, f)) - 1
        /\ \A e \in Files \ {f} : FdsOf(K1.proc, e) = FdsOf(K.proc, e)
    BY <1>0, <2>1, <2>4, FdCloses DEF Fields
  <2>7. Counted(K1.file, K1.proc, f)
    <3>1. Counted(K.file, K.proc, 0) BY DEF KInv
    <3>2. ASSUME NEW e \in Files PROVE K.file[e].ref = Cardinality(FdsOf(K1.proc, e)) + Hand(f, e)
      <4>1. K.file[e].ref = Cardinality(FdsOf(K.proc, e)) + Hand(0, e) BY <3>1 DEF Counted
      <4>2. Cardinality(FdsOf(K.proc, e)) \in Nat BY FiniteRefs
      <4>3. Hand(0, e) = 0 /\ Hand(f, e) = (IF e = f THEN 1 ELSE 0) BY KernelSizes DEF Hand
      <4>4. CASE e = f BY <4>1, <4>2, <4>3, <4>4, <2>6
      <4>5. CASE e # f
        <5>1. FdsOf(K1.proc, e) = FdsOf(K.proc, e) BY <4>5, <2>6
        <5> QED BY <5>1, <4>1, <4>2, <4>3, <4>5
      <4> QED BY <4>4, <4>5
    <3> QED BY <3>1, <3>2, <2>1, <2>3 DEF Counted
  <2>8. KInv(K1, 0, f)
    <3>1. SameProcs(K1.proc, K.proc) BY <2>4 DEF SetFd
    <3> QED BY <3>1, <2>2, <2>3, <2>7, ProcKeeps
  <2>9. /\ KInv(fileclose(K1, f), 0, 0)
        /\ fileclose(K1, f).proc = K1.proc /\ fileclose(K1, f).panic = K1.panic
        /\ fileclose(K1, f).strayed = K1.strayed
    BY <2>1, <2>8, FilecloseKeeps
  <2>10. /\ K1.proc[p].state = "LIVE" /\ K1.proc[p].cwd = K.proc[p].cwd
         /\ \A x \in Fds : K1.proc[p].ofile[x] = IF x = fd THEN 0 ELSE K.proc[p].ofile[x]
    BY <1>0, <2>1, <2>4 DEF SetFd, SameProcs, Fields
  <2> QED BY <2>3, <2>5, <2>9, <2>10, <2>c
<1> QED BY <1>1, <1>2

LEMMA FdType ==
  ASSUME NEW K, NEW p
  PROVE  fdalloc(K, p) \in Int
<1> DEFINE S == {fd \in Fds : K.proc[p].ofile[fd] = 0}
<1>1. S \in SUBSET Nat BY KernelSizes
<1>2. CASE S # {}
  <2>1. Min(S) \in S BY <1>1, <1>2, FirstFound
  <2>2. fdalloc(K, p) = Min(S) BY <1>2 DEF fdalloc
  <2>3. \A x \in S : x \in Int BY <1>1
  <2> HIDE DEF S
  <2> QED BY <2>1, <2>2, <2>3
<1>3. CASE S = {} BY <1>3 DEF fdalloc
<1> QED BY <1>2, <1>3

LEMMA DupCall ==
  ASSUME NEW K, KInv(K, 0, 0), NEW p \in Procs, K.proc[p].state = "LIVE", NEW fd
  PROVE  KInv(sys_dup(K, p, fd).k, 0, 0)
<1>0. Fields(K) BY DEF KInv
<1> DEFINE f == argfd(K, p, fd)
           new == fdalloc(K, p)
<1>1. CASE f = 0 \/ new < 0 BY <1>1 DEF sys_dup, Fail, Ret
<1>2. CASE ~(f = 0 \/ new < 0)
  <2>1. fd \in Fds /\ f = K.proc[p].ofile[fd] /\ f \in Files BY <1>0, <1>2 DEF argfd, Fields
  <2>2. new \in Fds /\ K.proc[p].ofile[new] = 0 BY <1>2, FdType, FdFound
  <2>3. sys_dup(K, p, fd).k = [filedup(K, f) EXCEPT !.proc[p].ofile[new] = f]
    BY <1>2 DEF sys_dup, Ret
  <2> HIDE DEF f, new
  <2>4. KInv([filedup(K, f) EXCEPT !.proc[p].ofile[new] = f], 0, 0)
    BY <2>1, <2>2, DupKeeps
  <2> QED BY <2>3, <2>4
<1> QED BY <1>1, <1>2

\* openInode() with the inode in hand.
LEMMA OpenInodeKeeps ==
  ASSUME NEW K, NEW i \in Inums, KInv(K, i, 0), NEW p \in Procs, K.proc[p].state = "LIVE",
         NEW flags, flags # {} => K.inode[i].type # "DIR"
  PROVE  KInv(openInode(K, p, i, flags).k, 0, 0)
<1> DEFINE f == filealloc(K)
           fd == fdalloc(K, p)
           r == "O_WRONLY" \notin flags
           w == flags \cap {"O_WRONLY", "O_RDWR"} # {}
<1>0. ~(i <= 0) BY KernelSizes DEF Inums
<1>1. CASE f = 0 \/ fd < 0
  <2>1. openInode(K, p, i, flags).k = iput(K, i) BY <1>0, <1>1 DEF openInode, Fail, Ret
  <2> QED BY <2>1, IputKeeps
<1>2. CASE ~(f = 0 \/ fd < 0)
  <2>1. f \in Files /\ K.file[f].ref = 0 BY <1>2, FileFound
  <2>2. fd \in Fds /\ K.proc[p].ofile[fd] = 0 BY <1>2, FdType, FdFound
  <2>3. openInode(K, p, i, flags).k =
          [K EXCEPT !.file[f] = [ref |-> 1, type |-> "FD_INODE", ip |-> i, off |-> 0,
                                 readable |-> r, writable |-> w],
                    !.proc[p].ofile[fd] = f]
    BY <1>0, <1>2 DEF openInode, Ret
  <2>4. r \in BOOLEAN /\ w \in BOOLEAN OBVIOUS
  <2>5. w => K.inode[i].type # "DIR" OBVIOUS
  <2> HIDE DEF f, fd, r, w
  <2>6. KInv([K EXCEPT !.file[f] = [ref |-> 1, type |-> "FD_INODE", ip |-> i, off |-> 0,
                                     readable |-> r, writable |-> w],
                        !.proc[p].ofile[fd] = f], 0, 0)
    BY <2>1, <2>2, <2>4, <2>5, OpenKeeps
  <2> QED BY <2>3, <2>6, Zenon
<1> QED BY <1>1, <1>2

\* A pipe that is free, two open files for it and their descriptors.
PipeMade(K, K2, p, i, rf, wf, fd0, fd1, P1) ==
  /\ p \in Procs /\ K.proc[p].state = "LIVE" /\ i \in Pipes /\ K.pipe[i] = NoPipe
  /\ rf \in Files /\ K.file[rf].ref = 0 /\ wf \in Files /\ wf # rf /\ K.file[wf].ref = 0
  /\ fd0 \in Fds /\ K.proc[p].ofile[fd0] = 0 /\ fd1 \in Fds /\ fd1 # fd0 /\ K.proc[p].ofile[fd1] = 0
  /\ Fields(K2) /\ K2.inode = K.inode /\ K2.free = K.free
  /\ SetFd(P1, K.proc, p, fd0, rf) /\ SetFd(K2.proc, P1, p, fd1, wf)
  /\ \A e \in Files \ {rf, wf} : K2.file[e] = K.file[e]
  /\ K2.file[rf].type = "FD_PIPE" /\ K2.file[rf].ip = i /\ K2.file[rf].ref = 1
  /\ K2.file[rf].readable = TRUE /\ K2.file[rf].writable = FALSE
  /\ K2.file[wf].type = "FD_PIPE" /\ K2.file[wf].ip = i /\ K2.file[wf].ref = 1
  /\ K2.file[wf].readable = FALSE /\ K2.file[wf].writable = TRUE
  /\ K2.pipe[i].readopen = TRUE /\ K2.pipe[i].writeopen = TRUE
  /\ \A j \in Pipes \ {i} : K2.pipe[j] = K.pipe[j]

LEMMA PipeKeeps ==
  ASSUME NEW K, KInv(K, 0, 0), NEW K2, NEW p, NEW i, NEW rf, NEW wf, NEW fd0, NEW fd1, NEW P1,
         PipeMade(K, K2, p, i, rf, wf, fd0, fd1, P1)
  PROVE  KInv(K2, 0, 0)
<1> USE DEF PipeMade
<1>0. Fields(K) BY DEF KInv
<1>c. Counted(K.file, K.proc, 0) BY DEF KInv
<1>t. K.file[rf].type = "FD_NONE" /\ K.file[wf].type = "FD_NONE" BY <1>c DEF Counted
<1>r. /\ K2.file[rf].type = "FD_PIPE" /\ K2.file[rf].ip = i /\ K2.file[rf].ref = 1
      /\ K2.file[rf].readable = TRUE /\ K2.file[rf].writable = FALSE
  OBVIOUS
<1>w. /\ K2.file[wf].type = "FD_PIPE" /\ K2.file[wf].ip = i /\ K2.file[wf].ref = 1
      /\ K2.file[wf].readable = FALSE /\ K2.file[wf].writable = TRUE
  OBVIOUS
<1>1. /\ TY(K2) = TY(K) /\ NL(K2) = NL(K) /\ RF(K2) = RF(K) /\ NM(K2) = NM(K) /\ TG(K2) = TG(K)
      /\ Dirs(K2)
  BY SameInodes DEF KInv
<1>2. SameProcs(P1, K.proc) /\ SameProcs(K2.proc, P1) BY DEF SetFd
<1>3. SameProcs(K2.proc, K.proc) BY <1>2 DEF SameProcs
<1>4. Referred(TY(K2), NL(K2), RF(K2), K2.file, K2.proc, 0)
  <2>1. \A j \in Inums : CwdOf(K2.proc, j) = CwdOf(K.proc, j) BY <1>3, SameProcsKeep
  <2>2. \A e \in Files : K2.file[e].type = "FD_INODE" <=> K.file[e].type = "FD_INODE"
    BY <1>t, <1>r, <1>w
  <2>3. \A e \in Files : K.file[e].type = "FD_INODE" => K2.file[e] = K.file[e]
    BY <1>t
  <2>4. \A j \in Inums : OpenOf(K2.file, j) = OpenOf(K.file, j) BY <2>2, <2>3 DEF OpenOf
  <2> QED BY <2>1, <2>2, <2>3, <2>4, <1>1, <1>3 DEF KInv, Referred, SameProcs
<1>5. Counted(K2.file, K2.proc, 0)
  <2>0. P1[p].state = "LIVE" /\ P1[p].ofile[fd1] = 0 /\ (\A q \in Procs : P1[q].ofile \in [Fds -> Files \cup {0}])
    <3>1. \A q \in Procs : K.proc[q].ofile \in [Fds -> Files \cup {0}] BY <1>0 DEF Fields
    <3>2. P1[p].ofile = [K.proc[p].ofile EXCEPT ![fd0] = rf]
          /\ \A q \in Procs : q # p => P1[q].ofile = K.proc[q].ofile
      BY DEF SetFd
    <3>3. P1[p].state = "LIVE" BY <1>2 DEF SameProcs
    <3> QED BY <3>1, <3>2, <3>3
  <2>1. /\ Cardinality(FdsOf(P1, rf)) = Cardinality(FdsOf(K.proc, rf)) + 1
        /\ \A e \in Files \ {rf} : FdsOf(P1, e) = FdsOf(K.proc, e)
    BY <1>0, FdOpens DEF Fields
  <2>2. /\ Cardinality(FdsOf(K2.proc, wf)) = Cardinality(FdsOf(P1, wf)) + 1
        /\ \A e \in Files \ {wf} : FdsOf(K2.proc, e) = FdsOf(P1, e)
    BY <2>0, FdOpens
  <2>3. ASSUME NEW e \in Files PROVE /\ K2.file[e].ref = Cardinality(FdsOf(K2.proc, e)) + Hand(0, e)
                                     /\ K2.file[e].ref = 0 => K2.file[e].type = "FD_NONE"
    <3>1. K.file[e].ref = Cardinality(FdsOf(K.proc, e)) + Hand(0, e) BY <1>c DEF Counted
    <3>2. Cardinality(FdsOf(K.proc, e)) \in Nat BY FiniteRefs
    <3>3. Hand(0, e) = 0 BY KernelSizes DEF Hand
    <3>4. CASE e = rf
      <4>1. FdsOf(K2.proc, e) = FdsOf(P1, e) BY <3>4, <2>2
      <4>2. Cardinality(FdsOf(K2.proc, e)) = Cardinality(FdsOf(P1, e)) BY <4>1, Zenon
      <4> QED BY <4>2, <3>1, <3>2, <3>3, <3>4, <2>1, <1>r
    <3>5. CASE e = wf
      <4>1. FdsOf(P1, e) = FdsOf(K.proc, e) BY <3>5, <2>1
      <4>2. Cardinality(FdsOf(P1, e)) = Cardinality(FdsOf(K.proc, e)) BY <4>1, Zenon
      <4> QED BY <4>2, <3>1, <3>2, <3>3, <3>5, <2>2, <1>w
    <3>6. CASE e # rf /\ e # wf
      <4>1. FdsOf(K2.proc, e) = FdsOf(P1, e) BY <3>6, <2>2
      <4>2. FdsOf(P1, e) = FdsOf(K.proc, e) BY <3>6, <2>1
      <4>3. Cardinality(FdsOf(K2.proc, e)) = Cardinality(FdsOf(K.proc, e)) BY <4>1, <4>2, Zenon
      <4>4. K2.file[e] = K.file[e] BY <3>6
      <4> QED BY <4>3, <4>4, <3>1, <1>c DEF Counted
    <3> QED BY <3>4, <3>5, <3>6
  <2> QED BY <2>3 DEF Counted
<1>6. Piped(K2.file, K2.pipe)
  <2>p. Piped(K.file, K.pipe) BY DEF KInv
  <2>1. \A e \in Files : ~(K.file[e].type = "FD_PIPE" /\ K.file[e].ip = i)
    <3>1. K.pipe[i].readopen = FALSE /\ K.pipe[i].writeopen = FALSE BY DEF NoPipe
    <3>2. \A e \in Files : K.file[e].type = "FD_PIPE" /\ K.file[e].ip = i =>
            ~K.file[e].writable /\ ~K.file[e].readable
      BY <3>1, <2>p DEF Piped
    <3>3. \A e \in Files : K.file[e].type = "FD_PIPE" => (K.file[e].readable <=> ~K.file[e].writable)
      BY <2>p DEF Piped
    <3> QED BY <3>2, <3>3
  <2>2. \A e \in Files : e = rf \/ e = wf \/ K2.file[e] = K.file[e] OBVIOUS
  <2>3. ASSUME NEW f \in Files, K2.file[f].type = "FD_PIPE"
        PROVE  K2.file[f].ip \in Pipes /\ (K2.file[f].readable <=> ~K2.file[f].writable)
    BY <2>2, <2>3, <2>p, <1>r, <1>w DEF Piped
  <2>4. ASSUME NEW f \in Files, NEW e \in Files, K2.file[f].type = "FD_PIPE", K2.file[e].type = "FD_PIPE",
               K2.file[f].ip = K2.file[e].ip, K2.file[f].writable = K2.file[e].writable
        PROVE  f = e
    <3>1. CASE f \in {rf, wf} /\ e \in {rf, wf} BY <3>1, <2>4, <1>r, <1>w
    <3>2. CASE f \notin {rf, wf} /\ e \notin {rf, wf}
      <4>1. K2.file[f] = K.file[f] /\ K2.file[e] = K.file[e] BY <3>2, <2>2
      <4> QED BY <4>1, <2>4, <2>p DEF Piped
    <3>3. CASE f \in {rf, wf} /\ e \notin {rf, wf} BY <3>3, <2>1, <2>2, <2>4, <1>r, <1>w
    <3>4. CASE f \notin {rf, wf} /\ e \in {rf, wf} BY <3>4, <2>1, <2>2, <2>4, <1>r, <1>w
    <3> QED BY <3>1, <3>2, <3>3, <3>4
  <2>5. ASSUME NEW j \in Pipes
        PROVE  /\ K2.pipe[j].writeopen <=> \E f \in Files : K2.file[f].type = "FD_PIPE" /\ K2.file[f].ip = j /\ K2.file[f].writable
               /\ K2.pipe[j].readopen <=> \E f \in Files : K2.file[f].type = "FD_PIPE" /\ K2.file[f].ip = j /\ K2.file[f].readable
    <3>1. CASE j = i BY <3>1, <1>r, <1>w
    <3>2. CASE j # i
      <4>1. K2.pipe[j] = K.pipe[j] BY <3>2
      <4>2. \A f \in Files : (K2.file[f].type = "FD_PIPE" /\ K2.file[f].ip = j) <=> (K.file[f].type = "FD_PIPE" /\ K.file[f].ip = j)
        BY <3>2, <2>2, <1>r, <1>w, <1>t
      <4>3. \A f \in Files : K2.file[f].type = "FD_PIPE" /\ K2.file[f].ip = j => K2.file[f] = K.file[f]
        BY <3>2, <2>2, <1>r, <1>w
      <4>4. /\ K.pipe[j].writeopen <=> \E f \in Files : K.file[f].type = "FD_PIPE" /\ K.file[f].ip = j /\ K.file[f].writable
            /\ K.pipe[j].readopen <=> \E f \in Files : K.file[f].type = "FD_PIPE" /\ K.file[f].ip = j /\ K.file[f].readable
        BY <2>p DEF Piped
      <4> QED BY <4>1, <4>2, <4>3, <4>4
    <3> QED BY <3>1, <3>2
  <2> QED BY <2>3, <2>4, <2>5 DEF Piped
<1>7. Paid(K2.proc, K2.free) BY <1>3, SameProcsKeep DEF KInv
<1> QED BY <1>1, <1>4, <1>5, <1>6, <1>7 DEF KInv

FreePipe(K) == First(Pipes, LAMBDA x : K.pipe[x] = NoPipe)

LEMMA PipeFound ==
  ASSUME NEW K, FreePipe(K) # 0
  PROVE  FreePipe(K) \in Pipes /\ K.pipe[FreePipe(K)] = NoPipe
<1> DEFINE S == {i \in Pipes : K.pipe[i] = NoPipe}
<1>1. S \in SUBSET Nat BY KernelSizes
<1>2. CASE S # {}
  <2>1. Min(S) \in S BY <1>1, <1>2, FirstFound
  <2>2. FreePipe(K) = Min(S) BY <1>2 DEF FreePipe, First
  <2> QED BY <2>1, <2>2
<1>3. CASE S = {} BY <1>3 DEF FreePipe, First
<1> QED BY <1>2, <1>3

LEMMA PipeCall ==
  ASSUME NEW K, KInv(K, 0, 0), NEW p \in Procs, K.proc[p].state = "LIVE"
  PROVE  KInv(sys_pipe(K, p).k, 0, 0)
<1>0. Fields(K) BY DEF KInv
<1> DEFINE i == FreePipe(K)
           rf == filealloc(K)
           end(w) == [ref |-> 1, type |-> "FD_PIPE", ip |-> i, off |-> 0, readable |-> ~w, writable |-> w]
           k1 == [K EXCEPT !.file[rf] = end(FALSE)]
           wf == filealloc(k1)
           fd0 == fdalloc(K, p)
           k2 == [k1 EXCEPT !.file[wf] = end(TRUE), !.proc[p].ofile[fd0] = rf,
                            !.pipe[i] = [NoPipe EXCEPT !.readopen = TRUE, !.writeopen = TRUE]]
           fd1 == fdalloc(k2, p)
           K2 == [k2 EXCEPT !.proc[p].ofile[fd1] = wf]
<1>1. \/ sys_pipe(K, p).k = K
      \/ i # 0 /\ rf # 0 /\ wf # 0 /\ ~(fd0 < 0) /\ ~(fd1 < 0) /\ sys_pipe(K, p).k = K2
  BY DEF sys_pipe, Fail, Ret, FreePipe
<1>2. CASE sys_pipe(K, p).k = K BY <1>2
<1>3. CASE i # 0 /\ rf # 0 /\ wf # 0 /\ ~(fd0 < 0) /\ ~(fd1 < 0) /\ sys_pipe(K, p).k = K2
  <2>1. i \in Pipes /\ K.pipe[i] = NoPipe BY <1>3, PipeFound
  <2>2. rf \in Files /\ K.file[rf].ref = 0 BY <1>3, FileFound
  <2>3. fd0 \in Fds /\ K.proc[p].ofile[fd0] = 0 BY <1>3, FdType, FdFound
  <2> HIDE DEF k1, k2
  <2>4. wf \in Files /\ k1.file[wf].ref = 0 BY <1>3, FileFound
  <2>5. fd1 \in Fds /\ k2.proc[p].ofile[fd1] = 0 BY <1>3, FdType, FdFound
  <2> USE DEF k1, k2
  <2> HIDE DEF i, rf, fd0, wf, fd1
  <2>6. k1.file[rf].ref = 1 /\ \A e \in Files \ {rf} : k1.file[e] = K.file[e]
    BY <2>2, <1>0 DEF Fields
  <2>7. wf # rf /\ K.file[wf].ref = 0 BY <2>4, <2>6
  <2>8. k2.proc = [K.proc EXCEPT ![p].ofile[fd0] = rf] BY <1>0 DEF Fields
  <2>9. k2.proc[p].ofile = [K.proc[p].ofile EXCEPT ![fd0] = rf] BY <2>8, <1>0 DEF Fields
  <2>10. K.proc[p].ofile \in [Fds -> Files \cup {0}] BY <1>0 DEF Fields
  <2>11. fd1 # fd0 /\ K.proc[p].ofile[fd1] = 0 BY <2>2, <2>3, <2>5, <2>9, <2>10, KernelSizes
  <2>12. SetFd(k2.proc, K.proc, p, fd0, rf) BY <2>8, <2>3, <1>0 DEF Fields, SetFd, SameProcs
  <2>13. SetFd(K2.proc, k2.proc, p, fd1, wf)
    <3>1. K2.proc = [k2.proc EXCEPT ![p].ofile[fd1] = wf] BY <1>0 DEF Fields
    <3>2. DOMAIN k2.proc = Procs
          /\ \A q \in Procs : DOMAIN k2.proc[q] = {"state", "parent", "killed", "cwd", "sz", "ofile"}
      BY <2>8, <1>0 DEF Fields
    <3> QED BY <3>1, <3>2 DEF SetFd, SameProcs
  <2>14. /\ K2.file = [K.file EXCEPT ![rf] = end(FALSE), ![wf] = end(TRUE)]
         /\ K2.pipe = [K.pipe EXCEPT ![i] = [NoPipe EXCEPT !.readopen = TRUE, !.writeopen = TRUE]]
         /\ K2.inode = K.inode /\ K2.free = K.free /\ DOMAIN K2 = DOMAIN K
    BY <1>0 DEF Fields
  <2>15. /\ \A e \in Files \ {rf, wf} : K2.file[e] = K.file[e]
         /\ K2.file[rf] = [ref |-> 1, type |-> "FD_PIPE", ip |-> i, off |-> 0,
                           readable |-> TRUE, writable |-> FALSE]
         /\ K2.file[wf] = [ref |-> 1, type |-> "FD_PIPE", ip |-> i, off |-> 0,
                           readable |-> FALSE, writable |-> TRUE]
         /\ DOMAIN K2.file = Files
    <3>1. DOMAIN K.file = Files BY <1>0 DEF Fields
    <3>2. end(FALSE) = [ref |-> 1, type |-> "FD_PIPE", ip |-> i, off |-> 0,
                        readable |-> TRUE, writable |-> FALSE]
      OBVIOUS
    <3>3. end(TRUE) = [ref |-> 1, type |-> "FD_PIPE", ip |-> i, off |-> 0,
                       readable |-> FALSE, writable |-> TRUE]
      OBVIOUS
    <3> HIDE DEF end, K2
    <3>4. K2.file[rf] = end(FALSE) /\ K2.file[wf] = end(TRUE) BY <3>1, <2>14, <2>2, <2>4, <2>7
    <3> QED BY <3>1, <3>2, <3>3, <3>4, <2>14, <2>2, <2>4
  <2>16. /\ K2.pipe[i].readopen = TRUE /\ K2.pipe[i].writeopen = TRUE
         /\ DOMAIN K2.pipe[i] = {"data", "readopen", "writeopen"} /\ DOMAIN K2.pipe = Pipes
         /\ \A j \in Pipes \ {i} : K2.pipe[j] = K.pipe[j]
    <3>1. DOMAIN K.pipe = Pipes BY <1>0 DEF Fields
    <3>2. K2.pipe[i] = [NoPipe EXCEPT !.readopen = TRUE, !.writeopen = TRUE] BY <3>1, <2>1, <2>14
    <3>3. \A j \in Pipes \ {i} : K2.pipe[j] = K.pipe[j] BY <3>1, <2>1, <2>14
    <3> DEFINE v == [NoPipe EXCEPT !.readopen = TRUE, !.writeopen = TRUE]
    <3>4. v.readopen = TRUE /\ v.writeopen = TRUE /\ DOMAIN v = {"data", "readopen", "writeopen"}
      BY DEF NoPipe
    <3>5. DOMAIN K2.pipe = Pipes BY <3>1, <2>14
    <3> HIDE DEF K2, v
    <3>6. K2.pipe[i] = v BY <3>2 DEF v
    <3> QED BY <3>3, <3>4, <3>5, <3>6
  <2>17. /\ DOMAIN K2.proc = Procs
         /\ \A q \in Procs : /\ DOMAIN K2.proc[q] = {"state", "parent", "killed", "cwd", "sz", "ofile"}
                             /\ K2.proc[q].ofile \in [Fds -> Files \cup {0}] /\ K2.proc[q].sz \in Nat
    <3>1. K2.proc = [[K.proc EXCEPT ![p].ofile[fd0] = rf] EXCEPT ![p].ofile[fd1] = wf] BY <1>0 DEF Fields
    <3>2. /\ DOMAIN K.proc = Procs
          /\ \A q \in Procs : /\ DOMAIN K.proc[q] = {"state", "parent", "killed", "cwd", "sz", "ofile"}
                              /\ K.proc[q].ofile \in [Fds -> Files \cup {0}] /\ K.proc[q].sz \in Nat
      BY <1>0 DEF Fields
    <3> DEFINE P1 == [K.proc EXCEPT ![p].ofile[fd0] = rf]
    <3>3. /\ DOMAIN P1 = Procs
          /\ \A q \in Procs : /\ DOMAIN P1[q] = {"state", "parent", "killed", "cwd", "sz", "ofile"}
                              /\ P1[q].ofile \in [Fds -> Files \cup {0}] /\ P1[q].sz \in Nat
      BY <3>2, <2>2
    <3> HIDE DEF K2, k1, k2, P1
    <3>4. K2.proc = [P1 EXCEPT ![p].ofile[fd1] = wf] BY <3>1 DEF P1
    <3>5. ASSUME NEW q \in Procs
          PROVE  /\ DOMAIN K2.proc[q] = {"state", "parent", "killed", "cwd", "sz", "ofile"}
                 /\ K2.proc[q].ofile \in [Fds -> Files \cup {0}] /\ K2.proc[q].sz \in Nat
      <4>1. CASE q = p
        <5>1. DOMAIN K2.proc[q] = DOMAIN P1[q] /\ K2.proc[q].sz = P1[q].sz
              /\ K2.proc[q].ofile = [P1[q].ofile EXCEPT ![fd1] = wf]
          BY <4>1, <3>3, <3>4
        <5>2. /\ DOMAIN P1[q] = {"state", "parent", "killed", "cwd", "sz", "ofile"}
              /\ P1[q].ofile \in [Fds -> Files \cup {0}] /\ P1[q].sz \in Nat
          BY <3>3
        <5>3. [P1[q].ofile EXCEPT ![fd1] = wf] \in [Fds -> Files \cup {0}] BY <5>2, <2>4
        <5> QED BY <5>1, <5>2, <5>3
      <4>2. CASE q # p
        <5>1. K2.proc[q] = P1[q] BY <4>2, <3>3, <3>4
        <5> QED BY <5>1, <3>3
      <4> QED BY <4>1, <4>2
    <3>6. DOMAIN K2.proc = Procs BY <3>3, <3>4
    <3> QED BY <3>5, <3>6
  <2> HIDE DEF K2, k2, k1, end
  <2>18. Fields(K2)
    <3>1. \A f \in Files : /\ DOMAIN K2.file[f] = {"ref", "type", "ip", "off", "readable", "writable"}
                           /\ K2.file[f].type \in {"FD_NONE", "FD_PIPE", "FD_INODE"}
                           /\ K2.file[f].readable \in BOOLEAN /\ K2.file[f].writable \in BOOLEAN
      <4>1. ASSUME NEW f \in Files \ {rf, wf}
            PROVE  /\ DOMAIN K2.file[f] = {"ref", "type", "ip", "off", "readable", "writable"}
                   /\ K2.file[f].type \in {"FD_NONE", "FD_PIPE", "FD_INODE"}
                   /\ K2.file[f].readable \in BOOLEAN /\ K2.file[f].writable \in BOOLEAN
        BY <2>15, <1>0 DEF Fields
      <4>2. ASSUME NEW f \in {rf, wf}
            PROVE  /\ DOMAIN K2.file[f] = {"ref", "type", "ip", "off", "readable", "writable"}
                   /\ K2.file[f].type \in {"FD_NONE", "FD_PIPE", "FD_INODE"}
                   /\ K2.file[f].readable \in BOOLEAN /\ K2.file[f].writable \in BOOLEAN
        <5>1. CASE f = rf
          <6>1. K2.file[f] = [ref |-> 1, type |-> "FD_PIPE", ip |-> i, off |-> 0,
                              readable |-> TRUE, writable |-> FALSE]
            BY <2>15, <5>1, Zenon
          <6> QED BY <6>1
        <5>2. CASE f = wf
          <6>1. K2.file[f] = [ref |-> 1, type |-> "FD_PIPE", ip |-> i, off |-> 0,
                              readable |-> FALSE, writable |-> TRUE]
            BY <2>15, <5>2, Zenon
          <6> QED BY <6>1
        <5> QED BY <5>1, <5>2
      <4> QED BY <4>1, <4>2
    <3>2. \A j \in Pipes : /\ DOMAIN K2.pipe[j] = {"data", "readopen", "writeopen"}
                           /\ K2.pipe[j].readopen \in BOOLEAN /\ K2.pipe[j].writeopen \in BOOLEAN
      BY <2>16, <1>0 DEF Fields
    <3>3. /\ DOMAIN K2 = {"inode", "file", "pipe", "proc", "free", "strayed", "panic"}
          /\ DOMAIN K2.inode = Inums
          /\ \A n \in Inums : DOMAIN K2.inode[n] = {"type", "nlink", "ref", "data"}
      BY <2>14, <1>0 DEF Fields
    <3>4. DOMAIN K2.file = Files /\ DOMAIN K2.pipe = Pipes BY <2>15, <2>16
    <3> QED BY <3>1, <3>2, <3>3, <3>4, <2>17 DEF Fields
  <2>19. KInv(K2, 0, 0)
    <3>1. /\ K2.file[rf].type = "FD_PIPE" /\ K2.file[rf].ip = i /\ K2.file[rf].ref = 1
          /\ K2.file[rf].readable = TRUE /\ K2.file[rf].writable = FALSE
      <4>1. K2.file[rf] = [ref |-> 1, type |-> "FD_PIPE", ip |-> i, off |-> 0,
                           readable |-> TRUE, writable |-> FALSE]
        BY <2>15, Zenon
      <4> QED BY <4>1
    <3>2. /\ K2.file[wf].type = "FD_PIPE" /\ K2.file[wf].ip = i /\ K2.file[wf].ref = 1
          /\ K2.file[wf].readable = FALSE /\ K2.file[wf].writable = TRUE
      <4>1. K2.file[wf] = [ref |-> 1, type |-> "FD_PIPE", ip |-> i, off |-> 0,
                           readable |-> FALSE, writable |-> TRUE]
        BY <2>15, Zenon
      <4> QED BY <4>1
    <3>3. K2.inode = K.inode /\ K2.free = K.free BY <2>14
    <3>4. \A e \in Files \ {rf, wf} : K2.file[e] = K.file[e] BY <2>15
    <3>5. PipeMade(K, K2, p, i, rf, wf, fd0, fd1, k2.proc)
      BY <3>1, <3>2, <3>3, <3>4, <2>1, <2>2, <2>3, <2>4, <2>5, <2>7, <2>11, <2>12, <2>13, <2>16, <2>18, Zenon DEF PipeMade
    <3> QED BY <3>5, PipeKeeps, Zenon
  <2> QED BY <2>19, <1>3
<1> QED BY <1>1, <1>2, <1>3
-----------------------------------------------------------------------------
(* Directories and paths.                                                  *)

\* The entry that dirlookup() finds.
LEMMA EntryFound ==
  ASSUME NEW K, NEW d, NEW name, K.inode[d].data \in Seq(Dirents), dirlookup(K, d, name) # 0
  PROVE  LET e == dirlookup(K, d, name)
         IN  /\ e \in 1..Len(K.inode[d].data)
             /\ K.inode[d].data[e][2] \in Inums /\ K.inode[d].data[e][1] \in Strings
             /\ namecmp(name, K.inode[d].data[e][1])
<1> DEFINE de == K.inode[d].data
           S == {j \in DOMAIN de : de[j][2] # 0 /\ namecmp(name, de[j][1])}
<1>1. DOMAIN de = 1..Len(de) /\ Len(de) \in Nat OBVIOUS
<1>2. S \in SUBSET Nat BY <1>1
<1>3. S # {} /\ dirlookup(K, d, name) = Min(S) BY DEF dirlookup, First
<1>4. Min(S) \in S BY <1>2, <1>3, FirstFound
<1> DEFINE e == dirlookup(K, d, name)
<1>5. e \in 1..Len(de) /\ de[e][2] # 0 /\ namecmp(name, de[e][1]) BY <1>1, <1>3, <1>4
<1>6. de[e] \in Dirents BY <1>5
<1>7. de[e][2] \in Inums \cup {0} /\ de[e][1] \in Strings BY <1>6 DEF Dirents
<1> QED BY <1>5, <1>7

LEMMA FollowType ==
  ASSUME NEW K, Dirs(K), NEW d \in Inums \cup {0}, NEW name
  PROVE  follow(K, d, name) \in Inums \cup {0}
<1>1. CASE ~IsDir(K, d) \/ dirlookup(K, d, name) = 0 BY <1>1 DEF follow
<1>2. CASE IsDir(K, d) /\ dirlookup(K, d, name) # 0
  <2>1. d \in Inums /\ K.inode[d].type = "DIR" BY <1>2 DEF IsDir
  <2>2. K.inode[d].data \in Seq(Dirents) BY <2>1 DEF Dirs
  <2>3. K.inode[d].data[dirlookup(K, d, name)][2] \in Inums BY <2>2, <1>2, EntryFound
  <2> QED BY <2>3, <1>2 DEF follow
<1> QED BY <1>1, <1>2

\* The walk along a path, a recursive function, exists and stays in the inodes.
LEMMA WalkTyped ==
  ASSUME NEW K, Dirs(K), NEW p, K.proc[p].cwd \in Inums, NEW path \in Seq(Strings)
  PROVE  /\ Len(skipelem(path)) \in Nat
         /\ \A j \in 0..Len(skipelem(path)) :
              /\ namex(K, p, path)[j] \in Inums \cup {0}
              /\ j = 0 => namex(K, p, path)[j] \in {ROOTINO, K.proc[p].cwd}
              /\ j # 0 => namex(K, p, path)[j] = follow(K, namex(K, p, path)[j - 1], skipelem(path)[j])
<1> DEFINE el == skipelem(path)
           N == Len(el)
           start == IF el # path THEN ROOTINO ELSE K.proc[p].cwd
           V == Inums \cup {0}
<1>1. el \in Seq(Strings)
  <2>1. CASE path # <<>> /\ path[1] = "/"
    <3>1. Tail(path) \in Seq(Strings) BY <2>1
    <3> QED BY <3>1, <2>1 DEF skipelem
  <2>2. CASE ~(path # <<>> /\ path[1] = "/") BY <2>2 DEF skipelem
  <2> QED BY <2>1, <2>2
<1>2. N \in Nat BY <1>1
<1>3. start \in V BY KernelSizes
<1>4. namex(K, p, path) =
        CHOOSE at : at = [j \in 0..N |-> IF j = 0 THEN start ELSE follow(K, at[j - 1], el[j])]
  BY DEF namex
<1> HIDE DEF el, N, start
<1>5. \E at : at = [j \in 0..N |-> IF j = 0 THEN start ELSE follow(K, at[j - 1], el[j])]
  <2> DEFINE Walks(g, m) == g = [j \in 0..m |-> IF j = 0 THEN start ELSE follow(K, g[j - 1], el[j])]
             Bad == {m \in 0..N : ~\E g : Walks(g, m)}
  <2>1. SUFFICES ASSUME Bad # {} PROVE FALSE
    BY <1>2
  <2>2. PICK m \in Bad : \A x \in Bad : m <= x
    <3>1. Bad \in SUBSET Nat BY <1>2
    <3> QED BY <3>1, <2>1, LeastExists
  <2>3. m \in 0..N /\ ~\E g : Walks(g, m) BY <2>2
  <2>4. m # 0
    <3>1. Walks([j \in 0..0 |-> start], 0)
      <4> DEFINE g == [j \in 0..0 |-> start]
      <4>1. \A j \in 0..0 : g[j] = IF j = 0 THEN start ELSE follow(K, g[j - 1], el[j])
        OBVIOUS
      <4> QED BY <4>1
    <3> QED BY <3>1, <2>3
  <2>5. PICK g : Walks(g, m - 1)
    <3>1. m - 1 \in 0..N /\ ~(m <= m - 1) BY <2>3, <2>4, <1>2
    <3>2. m - 1 \notin Bad BY <3>1, <2>2
    <3> QED BY <3>1, <3>2
  <2> DEFINE h == [j \in 0..m |-> IF j = m THEN follow(K, g[m - 1], el[m]) ELSE g[j]]
  <2>6. ASSUME NEW j \in 0..m
        PROVE  h[j] = IF j = 0 THEN start ELSE follow(K, h[j - 1], el[j])
    <3>0. m \in Nat BY <2>3, <1>2
    <3>1. CASE j = m
      <4>1. h[m - 1] = g[m - 1] BY <3>0, <2>4
      <4> QED BY <3>1, <4>1, <3>0, <2>4
    <3>2. CASE j # m
      <4>1. j \in 0..(m - 1) BY <3>0, <3>2
      <4>2. g[j] = IF j = 0 THEN start ELSE follow(K, g[j - 1], el[j]) BY <4>1, <2>5
      <4>3. h[j] = g[j] BY <3>2
      <4>4. j # 0 => h[j - 1] = g[j - 1] BY <4>1, <3>0
      <4> QED BY <4>2, <4>3, <4>4
    <3> QED BY <3>1, <3>2
  <2>7. Walks(h, m)
    <3>1. h = [j \in 0..m |-> h[j]] OBVIOUS
    <3> HIDE DEF h
    <3> QED BY <3>1, <2>6
  <2> QED BY <2>3, <2>7
<1> DEFINE at == namex(K, p, path)
<1>6. at = [j \in 0..N |-> IF j = 0 THEN start ELSE follow(K, at[j - 1], el[j])]
  BY <1>4, <1>5, Zenon
<1> HIDE DEF at
<1>7. \A j \in 0..N : at[j] \in V
  <2> DEFINE Bad == {j \in 0..N : at[j] \notin V}
  <2>1. SUFFICES ASSUME Bad # {} PROVE FALSE OBVIOUS
  <2>2. PICK m \in Bad : \A x \in Bad : m <= x
    <3>1. Bad \in SUBSET Nat BY <1>2
    <3> QED BY <3>1, <2>1, LeastExists
  <2>3. m \in 0..N /\ at[m] \notin V BY <2>2
  <2>4. m # 0 BY <2>3, <1>3, <1>6
  <2>5. m - 1 \in 0..N /\ ~(m <= m - 1) BY <2>3, <2>4, <1>2
  <2>6. at[m - 1] \in V BY <2>2, <2>5
  <2>7. at[m] = follow(K, at[m - 1], el[m]) BY <2>3, <2>4, <1>6
  <2> QED BY <2>3, <2>6, <2>7, FollowType
<1>s. start \in {ROOTINO, K.proc[p].cwd} BY DEF start
<1>8. \A j \in 0..N : /\ j = 0 => at[j] \in {ROOTINO, K.proc[p].cwd}
                      /\ j # 0 => at[j] = follow(K, at[j - 1], el[j])
  BY <1>6, <1>s
<1> QED BY <1>2, <1>7, <1>8 DEF at, N, el

\* A path that namei() or nameiparent() follows leads to a freed inode.
DanglingLast(K, p, path) == Dangling(K, p, path, Elements(path))
DanglingParent(K, p, path) == Dangling(K, p, path, Elements(path) - 1)

\* What the calls use of a path.
LEMMA PathTyped ==
  ASSUME NEW K, NEW h, NEW g, KInv(K, h, g), NEW p \in Procs, K.proc[p].state = "LIVE", NEW path \in Seq(Strings)
  PROVE  /\ namei(K, p, path) \in Inums \cup {0}
         /\ ~DanglingLast(K, p, path) /\ namei(K, p, path) # 0 => K.inode[namei(K, p, path)].type # "NONE"
         /\ nameiparent(K, p, path) # 0 =>
              /\ nameiparent(K, p, path) \in Inums /\ K.inode[nameiparent(K, p, path)].type = "DIR"
              /\ LastName(path) \in Strings
<1> DEFINE n == Len(skipelem(path))
           at == namex(K, p, path)
<1>1. Dirs(K) /\ K.proc[p].cwd \in Inums BY DEF KInv, Referred
<1>2. n \in Nat /\ \A j \in 0..n : at[j] \in Inums \cup {0} BY <1>1, WalkTyped
<1>e. n # 0 => Len(path) \in Nat \ {0} BY DEF skipelem
<1>d. DanglingLast(K, p, path) <=> \E j \in 0..n : at[j] # 0 /\ K.inode[at[j]].type = "NONE"
  BY DEF DanglingLast, Dangling, Elements
<1>i. namei(K, p, path) = at[n] BY DEF namei
<1>p. nameiparent(K, p, path) = LET d == IF n = 0 THEN 0 ELSE at[n - 1] IN IF IsDir(K, d) THEN d ELSE 0
  BY DEF nameiparent
<1> HIDE DEF n, at
<1>3. namei(K, p, path) \in Inums \cup {0} BY <1>2, <1>i
<1>4. ~DanglingLast(K, p, path) /\ namei(K, p, path) # 0 => K.inode[namei(K, p, path)].type # "NONE"
  BY <1>2, <1>d, <1>i
<1>5. ASSUME nameiparent(K, p, path) # 0
      PROVE  /\ nameiparent(K, p, path) \in Inums /\ K.inode[nameiparent(K, p, path)].type = "DIR"
             /\ n # 0
  <2>1. n # 0 /\ nameiparent(K, p, path) = at[n - 1] /\ IsDir(K, at[n - 1])
    BY <1>5, <1>p DEF IsDir
  <2>2. n - 1 \in 0..n BY <2>1, <1>2
  <2> QED BY <2>1, <2>2, <1>2 DEF IsDir
<1>6. n # 0 => LastName(path) \in Strings BY <1>e DEF LastName
<1> QED BY <1>3, <1>4, <1>5, <1>6
-----------------------------------------------------------------------------
(* Calls that panic as something has run out.                              *)

\* A state in which a name has been made in a removed directory: nothing more
\* is said of it, and no call leaves it.
Astray(K) == "strayed" \in DOMAIN K /\ K.strayed = TRUE
Good(K, h) == Astray(K) \/ KInv(K, h, 0)

LEMMA PanicKeeps ==
  ASSUME NEW K, NEW h, NEW g, NEW why
  PROVE  /\ KInv(K, h, g) => KInv(Panic(K, why).k, h, g)
         /\ Astray(K) => Astray(Panic(K, why).k)
         /\ Panic(K, why).r = -1
<1>1. Panic(K, why).k = [K EXCEPT !.panic = why] /\ Panic(K, why).r = -1 BY DEF Panic, Ret
<1>2. ASSUME KInv(K, h, g) PROVE KInv([K EXCEPT !.panic = why], h, g)
  <2>1. Fields(K) BY <1>2 DEF KInv
  <2> DEFINE K2 == [K EXCEPT !.panic = why]
  <2>2. /\ DOMAIN K2 = DOMAIN K /\ K2.inode = K.inode /\ K2.file = K.file
        /\ K2.pipe = K.pipe /\ K2.proc = K.proc /\ K2.free = K.free
    BY <2>1 DEF Fields
  <2> HIDE DEF K2
  <2>3. KInv(K2, h, g) BY <2>2, <1>2, SameParts
  <2> QED BY <2>3 DEF K2
<1>3. Astray(K) => Astray([K EXCEPT !.panic = why]) BY DEF Astray
<1> QED BY <1>1, <1>2, <1>3

\* The inode cache, the disk or a directory is as good as full.
Crammed(K) == Cardinality(Cached(K)) + 2 >= NINODE
Drained(K) == freeBlocks(K) <= CHUNK
Stuffed(K) == \E d \in Inums : IsDir(K, d) /\ FullDir(K, d)

\* The call panics with one of these reasons.
Stopped(R, K) ==
  \/ R = Panic(K, "iget: no inodes") /\ Crammed(K)
  \/ R = Panic(K, "balloc: out of blocks") /\ Drained(K)
  \/ R = Panic(K, "dirlink") /\ Stuffed(K)

LEMMA StoppedKeeps ==
  ASSUME NEW K, NEW R, Stopped(R, K), NEW h, NEW g
  PROVE  /\ KInv(K, h, g) => KInv(R.k, h, g)
         /\ Astray(K) => Astray(R.k)
         /\ R.r = -1
<1>1. PICK why : R = Panic(K, why) BY DEF Stopped
<1> QED BY <1>1, PanicKeeps

\* A call holds two inodes at most.
LEMMA CacheFull ==
  ASSUME NEW K, NEW a, NEW b, NEW held \in SUBSET {a, b}, NEW i, Uncached(K, held, i)
  PROVE  Crammed(K)
<1> DEFINE C == Cached(K)
           D == C \cup {a}
           E == D \cup {b}
<1>1. IsFiniteSet(C)
  <2>1. C \in SUBSET Inums BY DEF Cached
  <2> QED BY <2>1, KernelFinite, FS_Subset
<1>2. Cardinality(C \cup held) >= NINODE BY DEF Uncached
<1> HIDE DEF C
<1>3. IsFiniteSet(D) /\ Cardinality(D) <= Cardinality(C) + 1 /\ Cardinality(C) \in Nat
  <2>1. Cardinality(C) \in Nat BY <1>1, FS_CardinalityType
  <2>2. CASE a \in C
    <3>1. D = C BY <2>2
    <3> HIDE DEF D
    <3> QED BY <3>1, <2>1, <1>1
  <2>3. CASE a \notin C BY <2>1, <2>3, <1>1, FS_AddElement
  <2> QED BY <2>2, <2>3
<1> HIDE DEF D
<1>4. IsFiniteSet(E) /\ Cardinality(E) <= Cardinality(D) + 1 /\ Cardinality(D) \in Nat /\ Cardinality(E) \in Nat
  <2>1. Cardinality(D) \in Nat BY <1>3, FS_CardinalityType
  <2>2. CASE b \in D
    <3>1. E = D BY <2>2
    <3> HIDE DEF E
    <3> QED BY <3>1, <2>1, <1>3
  <2>3. CASE b \notin D BY <2>1, <2>3, <1>3, FS_AddElement
  <2> QED BY <2>2, <2>3
<1>5. C \cup held \in SUBSET E BY DEF D
<1> HIDE DEF E
<1>6. Cardinality(C \cup held) <= Cardinality(E) /\ Cardinality(C \cup held) \in Nat
  <2>1. IsFiniteSet(C \cup held) /\ Cardinality(C \cup held) <= Cardinality(E) BY <1>4, <1>5, FS_Subset
  <2> QED BY <2>1, FS_CardinalityType
<1>7. Cardinality(C) + 2 >= NINODE BY <1>2, <1>3, <1>4, <1>6, KernelAssumption
<1> QED BY <1>7 DEF Crammed, C

LEMMA WalkIs ==
  ASSUME NEW K, NEW p, NEW path, NEW n, NEW a, NEW held \in SUBSET {a}, NEW next
  PROVE  LET R == Walk(K, p, path, n, held, next)
         IN  \/ R = next /\ ~Dangling(K, p, path, n)
             \/ R = Panic(K, "ilock: no type") /\ Dangling(K, p, path, n)
             \/ Stopped(R, K)
<1>1. ASSUME Crowded(K, p, path, n, held) PROVE Crammed(K)
  <2> DEFINE at == namex(K, p, path)
  <2>1. \/ Uncached(K, held, ROOTINO)
        \/ \E j \in 1..n : Uncached(K, held \cup {at[j - 1]}, at[j])
    BY <1>1 DEF Crowded
  <2>2. ASSUME Uncached(K, held, ROOTINO) PROVE Crammed(K)
    <3>1. held \in SUBSET {a, a} OBVIOUS
    <3> QED BY <3>1, <2>2, CacheFull
  <2>3. ASSUME NEW x, NEW i, Uncached(K, held \cup {x}, i) PROVE Crammed(K)
    <3>1. held \cup {x} \in SUBSET {a, x} OBVIOUS
    <3> QED BY <3>1, <2>3, CacheFull
  <2> HIDE DEF at
  <2> QED BY <2>1, <2>2, <2>3
<1> QED BY <1>1 DEF Walk, Stopped

\* The panics of balloc(): a transaction adds few blocks.
LEMMA BlocksShort ==
  ASSUME NEW K, NEW need \in Nat, need <= CHUNK + 1, OutOfBlocks(K, need)
  PROVE  Drained(K)
<1>1. freeBlocks(K) \in 0..(need - 1) BY DEF OutOfBlocks
<1> QED BY <1>1, KernelAssumption DEF Drained

LEMMA RoomIs ==
  ASSUME NEW K, NEW d, NEW new \in {0, 1}, NEW next
  PROVE  LET R == Room(K, d, new, next)
         IN  \/ R = next
             \/ R = Panic(K, "dirlink") /\ FullDir(K, d)
             \/ R = Panic(K, "balloc: out of blocks") /\ Drained(K)
<1>1. growth(K, d) \in {0, 1, 2} BY DEF growth
<1>2. new + growth(K, d) \in Nat /\ new + growth(K, d) <= CHUNK + 1 BY <1>1, KernelAssumption
<1>3. OutOfBlocks(K, new + growth(K, d)) => Drained(K) BY <1>2, BlocksShort
<1> QED BY <1>3 DEF Room
-----------------------------------------------------------------------------
(* Names.                                                                  *)

\* Directories keep their "." and "..".
Heads(K2, K) ==
  \A x \in Inums : K.inode[x].type = "DIR" =>
    K2.inode[x].data[1] = K.inode[x].data[1] /\ K2.inode[x].data[2] = K.inode[x].data[2]

\* dirlink() of a name that is not there makes one.
LEMMA DirlinkMakes ==
  ASSUME NEW K, Fields(K), Dirs(K), NEW d \in Inums, K.inode[d].type = "DIR",
         NEW name \in Strings, NEW i \in Inums, dirlookup(K, d, name) = 0
  PROVE  LET R == dirlink(K, d, name, i)
         IN  /\ R.r = 0 /\ Fields(R.k) /\ Rest(R.k, K) /\ Dirs(R.k)
             /\ TY(R.k) = TY(K) /\ NL(R.k) = NL(K) /\ RF(R.k) = RF(K) /\ Heads(R.k, K)
             /\ \E j \in Nat : /\ <<d, j>> \notin NM(K) /\ NM(R.k) = NM(K) \cup {<<d, j>>}
                               /\ TG(R.k)[<<d, j>>] = i
                               /\ \A e \in NM(K) : TG(R.k)[e] = TG(K)[e]
<1> DEFINE de == K.inode[d].data
           S == {x \in DOMAIN de : de[x][2] = 0}
           j == First(DOMAIN de, LAMBDA x : de[x][2] = 0)
           a == IF j = 0 THEN Len(de) + 1 ELSE j
           new == IF j = 0 THEN Append(de, <<name, i>>) ELSE [de EXCEPT ![j] = <<name, i>>]
           K2 == [K EXCEPT !.inode[d].data = new]
<1>1. /\ de \in Seq(Dirents) /\ Len(de) \in Nat /\ Len(de) >= 2 /\ DOMAIN de = 1..Len(de)
      /\ de[1][1] = "." /\ de[1][2] # 0 /\ de[2][1] = ".." /\ de[2][2] # 0
  BY DEF Dirs
<1>2. dirlink(K, d, name, i) = Ret(K2, 0)
  <2>1. CASE j = 0
    <3>1. dirlink(K, d, name, i) = Ret([K EXCEPT !.inode[d].data = Append(@, <<name, i>>)], 0)
      BY <2>1 DEF dirlink
    <3>2. [K EXCEPT !.inode[d].data = Append(@, <<name, i>>)] = K2 BY <2>1
    <3> QED BY <3>1, <3>2
  <2>2. CASE j # 0
    <3>1. dirlink(K, d, name, i) = Ret([K EXCEPT !.inode[d].data[j] = <<name, i>>], 0)
      BY <2>2 DEF dirlink
    <3>2. [K EXCEPT !.inode[d].data[j] = <<name, i>>] = K2 BY <2>2
    <3> QED BY <3>1, <3>2
  <2> QED BY <2>1, <2>2
<1>3. j # 0 => j \in S
  <2>1. S \in SUBSET Nat BY <1>1
  <2>2. CASE S # {}
    <3>1. Min(S) \in S BY <2>1, <2>2, FirstFound
    <3>2. j = Min(S) BY <2>2 DEF First
    <3> QED BY <3>1, <3>2
  <2>3. CASE S = {} BY <2>3 DEF First
  <2> QED BY <2>2, <2>3
<1>4. j # 0 => j \in 3..Len(de) /\ de[j][2] = 0
  <2>1. j # 0 => j \in 1..Len(de) /\ de[j][2] = 0 /\ j # 1 /\ j # 2 BY <1>1, <1>3
  <2> QED BY <2>1, <1>1
<1>5. <<name, i>> \in Dirents BY DEF Dirents
<1>6. /\ new \in Seq(Dirents) /\ Len(new) \in Nat /\ Len(new) >= Len(de)
      /\ a \in 3..Len(new) /\ new[a] = <<name, i>>
      /\ \A x \in 1..Len(new) : x # a => x \in 1..Len(de) /\ new[x] = de[x]
      /\ \A x \in 1..Len(de) : x # a => new[x] = de[x]
      /\ a \in 1..Len(de) => de[a][2] = 0
  <2>1. CASE j = 0
    <3>1. new = Append(de, <<name, i>>) /\ a = Len(de) + 1 BY <2>1
    <3> HIDE DEF new, a, j, de
    <3> QED BY <3>1, <1>1, <1>5
  <2>2. CASE j # 0
    <3>1. new = [de EXCEPT ![j] = <<name, i>>] /\ a = j BY <2>2
    <3>2. j \in 3..Len(de) /\ de[j][2] = 0 BY <2>2, <1>4
    <3> HIDE DEF new, a, j, de
    <3> QED BY <3>1, <3>2, <1>1, <1>5
  <2> QED BY <2>1, <2>2
<1>7. /\ Fields(K2) /\ Rest(K2, K) BY DEF Fields, Rest
<1>8. /\ \A x \in Inums \ {d} : K2.inode[x] = K.inode[x]
      /\ K2.inode[d].type = "DIR" /\ K2.inode[d].nlink = K.inode[d].nlink
      /\ K2.inode[d].ref = K.inode[d].ref /\ K2.inode[d].data = new
  <2>1. DOMAIN K.inode = Inums /\ DOMAIN K.inode[d] = {"type", "nlink", "ref", "data"} BY DEF Fields
  <2>2. K2.inode = [K.inode EXCEPT ![d].data = new] BY DEF Fields
  <2> HIDE DEF K2, new
  <2> QED BY <2>1, <2>2
<1> DEFINE R == dirlink(K, d, name, i)
<1>9. R.k = K2 /\ R.r = 0 BY <1>2 DEF Ret
<1> HIDE DEF K2, new, a, j, de, R
<1>10. TY(K2) = TY(K) /\ NL(K2) = NL(K) /\ RF(K2) = RF(K)
  <2>1. \A x \in Inums : /\ K2.inode[x].type = K.inode[x].type /\ K2.inode[x].nlink = K.inode[x].nlink
                         /\ K2.inode[x].ref = K.inode[x].ref
    BY <1>8
  <2> QED BY <2>1 DEF TY, NL, RF
<1>h. new[1] = de[1] /\ new[2] = de[2] BY <1>1, <1>6
<1>H. Heads(K2, K) BY <1>h, <1>8 DEF Heads, de
<1>11. Dirs(K2)
  <2>1. /\ new \in Seq(Dirents) /\ Len(new) >= 2 /\ new[1] = de[1] /\ new[2] = de[2]
    BY <1>1, <1>6, <1>h
  <2>2. ASSUME NEW x \in Inums, K2.inode[x].type = "DIR"
        PROVE  /\ K2.inode[x].data \in Seq(Dirents) /\ Len(K2.inode[x].data) >= 2
               /\ K2.inode[x].data[1][1] = "." /\ K2.inode[x].data[1][2] # 0
               /\ K2.inode[x].data[2][1] = ".." /\ K2.inode[x].data[2][2] # 0
    <3>1. CASE x = d BY <3>1, <2>1, <1>1, <1>8
    <3>2. CASE x # d BY <3>2, <2>2, <1>8 DEF Dirs
    <3> QED BY <3>1, <3>2
  <2> QED BY <2>2 DEF Dirs
<1>12. /\ a \in Nat /\ <<d, a>> \notin NM(K)
  <2>1. a \in Nat BY <1>6
  <2>2. <<d, a>> \in NM(K) => a \in 3..Len(de) /\ de[a][2] # 0 BY DEF NM, de
  <2> QED BY <2>1, <2>2, <1>1, <1>6
<1>13. NM(K2) = NM(K) \cup {<<d, a>>}
  <2>0. i # 0 /\ new[a][2] = i BY <1>6, KernelSizes
  <2>1. ASSUME NEW e \in Inums \X Nat PROVE e \in NM(K2) <=> e \in NM(K) \/ e = <<d, a>>
    <3>1. CASE e[1] # d BY <3>1, <1>8 DEF NM
    <3>2. CASE e[1] = d /\ e[2] = a
      <4>1. e = <<d, a>> BY <3>2
      <4>2. K2.inode[e[1]].type = "DIR" /\ K2.inode[e[1]].data = new BY <3>2, <1>8
      <4>3. e \in NM(K2) BY <4>2, <3>2, <2>0, <1>6 DEF NM
      <4> QED BY <4>1, <4>3
    <3>3. CASE e[1] = d /\ e[2] # a
      <4>1. e # <<d, a>> BY <3>3
      <4>2. e \in NM(K2) <=> e[2] \in 3..Len(new) /\ new[e[2]][2] # 0 BY <3>3, <1>8 DEF NM
      <4>3. e \in NM(K) <=> e[2] \in 3..Len(de) /\ de[e[2]][2] # 0 BY <3>3 DEF NM, de
      <4>4. e[2] \in 3..Len(new) <=> e[2] \in 3..Len(de) BY <3>3, <1>1, <1>6
      <4>5. e[2] \in 3..Len(de) => new[e[2]] = de[e[2]] BY <3>3, <1>1, <1>6
      <4> QED BY <4>1, <4>2, <4>3, <4>4, <4>5
    <3> QED BY <3>1, <3>2, <3>3
  <2>2. NM(K2) \subseteq Inums \X Nat /\ NM(K) \subseteq Inums \X Nat /\ <<d, a>> \in Inums \X Nat
    BY <1>12 DEF NM
  <2> QED BY <2>1, <2>2
<1>14. TG(K2)[<<d, a>>] = i
  <2>1. <<d, a>> \in NM(K2) BY <1>13
  <2>2. TG(K2)[<<d, a>>] = K2.inode[d].data[a][2] BY <2>1 DEF TG
  <2> QED BY <2>2, <1>6, <1>8
<1>15. ASSUME NEW e \in NM(K) PROVE TG(K2)[e] = TG(K)[e]
  <2>0. e \in NM(K2) BY <1>13
  <2>1. TG(K2)[e] = K2.inode[e[1]].data[e[2]][2] /\ TG(K)[e] = K.inode[e[1]].data[e[2]][2]
    BY <2>0 DEF TG
  <2>2. CASE e[1] # d
    <3>1. e[1] \in Inums BY DEF NM
    <3> QED BY <3>1, <2>1, <2>2, <1>8
  <2>3. CASE e[1] = d
    <3>1. e[2] \in 3..Len(de) /\ e = <<d, e[2]>> BY <2>3 DEF NM, de
    <3>2. e[2] # a BY <3>1, <1>12
    <3>3. new[e[2]] = de[e[2]] BY <3>1, <3>2, <1>1, <1>6
    <3> QED BY <3>3, <2>1, <2>3, <1>8 DEF de
  <2> QED BY <2>2, <2>3
<1>16. \E x \in Nat : /\ <<d, x>> \notin NM(K) /\ NM(K2) = NM(K) \cup {<<d, x>>}
                      /\ TG(K2)[<<d, x>>] = i
                      /\ \A e \in NM(K) : TG(K2)[e] = TG(K)[e]
  BY <1>12, <1>13, <1>14, <1>15
<1> QED BY <1>7, <1>9, <1>10, <1>11, <1>16, <1>H DEF R

LEMMA DirlinkStrays ==
  ASSUME NEW K, NEW d, NEW name, NEW i, Astray(K)
  PROVE  Astray(dirlink(K, d, name, i).k)
<1> DEFINE j == First(DOMAIN K.inode[d].data, LAMBDA x : K.inode[d].data[x][2] = 0)
<1>1. \/ dirlink(K, d, name, i).k = K
      \/ dirlink(K, d, name, i).k = [K EXCEPT !.inode[d].data = Append(@, <<name, i>>)]
      \/ dirlink(K, d, name, i).k = [K EXCEPT !.inode[d].data[j] = <<name, i>>]
  BY DEF dirlink, Fail, Ret
<1> HIDE DEF j
<1>2. CASE dirlink(K, d, name, i).k = K BY <1>2
<1>3. CASE dirlink(K, d, name, i).k = [K EXCEPT !.inode[d].data = Append(@, <<name, i>>)]
  BY <1>3 DEF Astray
<1>4. CASE dirlink(K, d, name, i).k = [K EXCEPT !.inode[d].data[j] = <<name, i>>]
  BY <1>4 DEF Astray
<1> QED BY <1>1, <1>2, <1>3, <1>4

\* link() where there is room.
Linking(K, ip, dp, name) ==
  LET up == [K EXCEPT !.inode[ip].nlink = @ + 1]
      bad(kk) == Fail([kk EXCEPT !.inode[ip].nlink = @ - 1])
      end(linked) == IF linked.r < 0 THEN bad(linked.k) ELSE linked
  IN  IF dp = 0 THEN bad(up)
      ELSE end(dirlink([up EXCEPT !.strayed = @ \/ K.inode[dp].nlink = 0], dp, name, ip))

LEMMA LinkIs ==
  ASSUME NEW K, NEW i, NEW d, NEW name
  PROVE  LET R == linkTo(K, i, d, name)
         IN  \/ R = Linking(K, i, d, name)
             \/ d # 0 /\ R = Panic(K, "dirlink") /\ FullDir(K, d)
             \/ Stopped(R, K)
<1> DEFINE e == dirlookup(K, d, name)
           R == linkTo(K, i, d, name)
           next == Linking(K, i, d, name)
           up == [K EXCEPT !.inode[i].nlink = @ + 1]
           bad(kk) == Fail([kk EXCEPT !.inode[i].nlink = @ - 1])
           end(linked) == IF linked.r < 0 THEN bad(linked.k) ELSE linked
           none == bad(up)
           done1 == end(dirlink([up EXCEPT !.strayed = @ \/ K.inode[d].nlink = 0], d, name, i))
<1>a. R = IF d = 0 THEN none ELSE IF e = 0 THEN Room(K, d, 0, done1)
          ELSE IF Uncached(K, {i, d}, K.inode[d].data[e][2]) THEN Panic(K, "iget: no inodes") ELSE done1
  BY Zenon DEF linkTo
<1>b. next = IF d = 0 THEN none ELSE done1 BY Zenon DEF Linking
<1> HIDE DEF none, done1, next, R
<1>1. \/ R = next
      \/ d # 0 /\ R = Room(K, d, 0, next)
      \/ R = Panic(K, "iget: no inodes") /\ Uncached(K, {i, d}, K.inode[d].data[e][2])
  BY <1>a, <1>b
<1>2. ASSUME NEW x, Uncached(K, {i, d}, x) PROVE Crammed(K) BY <1>2, CacheFull
<1> HIDE DEF next, R, e
<1>3. \/ Room(K, d, 0, next) = next
      \/ Room(K, d, 0, next) = Panic(K, "dirlink") /\ FullDir(K, d)
      \/ Room(K, d, 0, next) = Panic(K, "balloc: out of blocks") /\ Drained(K)
  BY RoomIs
<1>4. R = next \/ (d # 0 /\ R = Panic(K, "dirlink") /\ FullDir(K, d)) \/ Stopped(R, K)
  BY <1>1, <1>2, <1>3 DEF Stopped
<1> QED BY <1>4 DEF R, next

LEMMA LinkStrays ==
  ASSUME NEW K, NEW i, NEW d, NEW name, Astray(K) \/ (d # 0 /\ K.inode[d].nlink = 0 /\ "strayed" \in DOMAIN K)
  PROVE  Astray(Linking(K, i, d, name).k)
<1> DEFINE up == [K EXCEPT !.inode[i].nlink = @ + 1]
           us == [up EXCEPT !.strayed = @ \/ K.inode[d].nlink = 0]
           L == dirlink(us, d, name, i)
<1>1. \/ Linking(K, i, d, name).k = [up EXCEPT !.inode[i].nlink = @ - 1] /\ d = 0
      \/ Linking(K, i, d, name).k = [L.k EXCEPT !.inode[i].nlink = @ - 1]
      \/ Linking(K, i, d, name).k = L.k
  BY DEF Linking, Fail, Ret
<1>2. Astray(us) BY DEF Astray
<1>3. Astray(L.k) BY <1>2, DirlinkStrays
<1>4. Astray(K) => Astray(up) BY DEF Astray
<1> HIDE DEF up, us, L
<1>6. CASE Linking(K, i, d, name).k = [up EXCEPT !.inode[i].nlink = @ - 1] /\ d = 0
  BY <1>4, <1>6 DEF Astray
<1>7. CASE Linking(K, i, d, name).k = [L.k EXCEPT !.inode[i].nlink = @ - 1]
  BY <1>3, <1>7 DEF Astray
<1>8. CASE Linking(K, i, d, name).k = L.k BY <1>3, <1>8
<1> QED BY <1>1, <1>6, <1>7, <1>8

\* A count of links is not negative.
LEMMA LinksNat ==
  ASSUME NEW Y, NEW L, NEW N, NEW T, Linked(Y, L, N, T), NEW i \in Inums, Y[i] # "NONE"
  PROVE  L[i] \in Nat
<1>1. L[i] = Cardinality(To(N, T, i)) + Cardinality(Sub(Y, N, T, i)) + Root(i) BY DEF Linked
<1>2. Cardinality(To(N, T, i)) \in Nat /\ Cardinality(Sub(Y, N, T, i)) \in Nat /\ Root(i) \in Nat
  BY FiniteTo DEF Linked, Root
<1> QED BY <1>1, <1>2

\* Inodes that are the same in every field.
LEMMA SameFields ==
  ASSUME NEW K, NEW K2, KInv(K, 0, 0), Fields(K2),
         \A x \in Inums : /\ K2.inode[x].type = K.inode[x].type /\ K2.inode[x].data = K.inode[x].data
                          /\ K2.inode[x].ref = K.inode[x].ref /\ K2.inode[x].nlink = K.inode[x].nlink,
         K2.file = K.file, K2.pipe = K.pipe, K2.proc = K.proc, K2.free = K.free
  PROVE  KInv(K2, 0, 0)
<1>1. TY(K2) = TY(K) /\ NM(K2) = NM(K) /\ TG(K2) = TG(K) BY SameNames
<1>2. NL(K2) = NL(K) /\ RF(K2) = RF(K) BY DEF NL, RF
<1>3. Dirs(K2) BY DEF KInv, Dirs
<1> QED BY <1>1, <1>2, <1>3 DEF KInv

LEMMA LinkKeeps ==
  ASSUME NEW K, KInv(K, 0, 0), NEW i \in Inums, K.inode[i].type \notin {"NONE", "DIR"},
         NEW d \in Inums \cup {0}, d # 0 => K.inode[d].type = "DIR", NEW name, d # 0 => name \in Strings
  PROVE  Good(Linking(K, i, d, name).k, 0)
<1>0. Fields(K) /\ Dirs(K) /\ Linked(TY(K), NL(K), NM(K), TG(K)) BY DEF KInv
<1> DEFINE up == [K EXCEPT !.inode[i].nlink = @ + 1]
           us == [up EXCEPT !.strayed = @ \/ K.inode[d].nlink = 0]
           L == dirlink(us, d, name, i)
<1>2. Good(Linking(K, i, d, name).k, 0)
  <2>1. i \in Inums /\ K.inode[i].type # "NONE" /\ K.inode[i].type # "DIR" OBVIOUS
  <2>2. K.inode[i].nlink \in Nat
    <3>1. TY(K)[i] # "NONE" BY <2>1 DEF TY
    <3>2. NL(K)[i] \in Nat BY <3>1, <2>1, <1>0, LinksNat
    <3> QED BY <3>2, <2>1 DEF NL
  <2>3. /\ up.inode[i].nlink = K.inode[i].nlink + 1
        /\ \A x \in Inums : /\ up.inode[x].type = K.inode[x].type /\ up.inode[x].data = K.inode[x].data
                            /\ up.inode[x].ref = K.inode[x].ref
                            /\ x # i => up.inode[x].nlink = K.inode[x].nlink
    BY <1>0, <2>1 DEF Fields
  <2>4. Fields(up) /\ up.file = K.file /\ up.pipe = K.pipe /\ up.proc = K.proc /\ up.free = K.free
    BY <1>0, <2>1 DEF Fields
  <2>5. CASE d = 0
    <3>1. Linking(K, i, d, name).k = [up EXCEPT !.inode[i].nlink = @ - 1]
      BY <2>5 DEF Linking, Fail, Ret
    <3> DEFINE K2 == [up EXCEPT !.inode[i].nlink = @ - 1]
    <3>2. /\ Fields(K2) /\ K2.file = up.file /\ K2.pipe = up.pipe /\ K2.proc = up.proc /\ K2.free = up.free
          /\ K2.inode[i].nlink = up.inode[i].nlink - 1
          /\ \A x \in Inums : /\ K2.inode[x].type = up.inode[x].type /\ K2.inode[x].data = up.inode[x].data
                              /\ K2.inode[x].ref = up.inode[x].ref
                              /\ x # i => K2.inode[x].nlink = up.inode[x].nlink
      <4> HIDE DEF up
      <4> QED BY <2>1, <2>4 DEF Fields
    <3> HIDE DEF K2, up
    <3>3. KInv(K2, 0, 0)
      <4>1. \A x \in Inums : /\ K2.inode[x].type = K.inode[x].type /\ K2.inode[x].data = K.inode[x].data
                             /\ K2.inode[x].ref = K.inode[x].ref /\ K2.inode[x].nlink = K.inode[x].nlink
        BY <3>2, <2>2, <2>3
      <4> QED BY <4>1, <3>2, <2>4, SameFields
    <3> QED BY <3>1, <3>3 DEF Good, K2
  <2>6. CASE d # 0 /\ K.inode[d].nlink = 0
    <3>1. "strayed" \in DOMAIN K BY <1>0 DEF Fields
    <3> QED BY <3>1, <2>6, LinkStrays DEF Good
  <2>7. CASE d # 0 /\ K.inode[d].nlink # 0
    <3>1. /\ us.inode = up.inode /\ us.file = K.file /\ us.pipe = K.pipe /\ us.proc = K.proc /\ us.free = K.free
          /\ DOMAIN us = DOMAIN K
      BY <1>0 DEF Fields
    <3>2. Fields(us) BY <3>1, <2>4, <1>0 DEF Fields
    <3>3. Linking(K, i, d, name).k = IF L.r < 0 THEN [L.k EXCEPT !.inode[i].nlink = @ - 1] ELSE L.k
      BY <2>7 DEF Linking, Fail, Ret
    <3> HIDE DEF us, up
    <3>4. /\ TY(us) = TY(K) /\ NM(us) = NM(K) /\ TG(us) = TG(K)
      <4>1. \A x \in Inums : us.inode[x].type = K.inode[x].type /\ us.inode[x].data = K.inode[x].data BY <3>1, <2>3
      <4> DEFINE D == {x \in Inums : K.inode[x].type = "DIR"}
      <4>2. \A x \in D : us.inode[x].data = K.inode[x].data BY <4>1
      <4> QED BY <4>1, <4>2, SameNames
    <3>5. RF(us) = RF(K) BY <3>1, <2>3 DEF RF
    <3>6. Dirs(us) BY <3>1, <2>3, <1>0 DEF Dirs
    <3>7. us.inode[d].type = "DIR" /\ d \in Inums BY <3>1, <2>3, <2>7
    <3>8. CASE dirlookup(us, d, name) # 0
      <4>1. L.k = us /\ L.r = -1 BY <3>8 DEF dirlink, Fail, Ret
      <4> DEFINE K2 == [us EXCEPT !.inode[i].nlink = @ - 1]
      <4>2. Linking(K, i, d, name).k = K2 BY <4>1, <3>3
      <4>3. /\ Fields(K2) /\ K2.file = us.file /\ K2.pipe = us.pipe /\ K2.proc = us.proc /\ K2.free = us.free
            /\ K2.inode[i].nlink = us.inode[i].nlink - 1
            /\ \A x \in Inums : /\ K2.inode[x].type = us.inode[x].type /\ K2.inode[x].data = us.inode[x].data
                                /\ K2.inode[x].ref = us.inode[x].ref
                                /\ x # i => K2.inode[x].nlink = us.inode[x].nlink
        BY <3>2, <2>1 DEF Fields
      <4> HIDE DEF K2
      <4>8. KInv(K2, 0, 0)
        <5>1. \A x \in Inums : /\ K2.inode[x].type = K.inode[x].type /\ K2.inode[x].data = K.inode[x].data
                               /\ K2.inode[x].ref = K.inode[x].ref /\ K2.inode[x].nlink = K.inode[x].nlink
          BY <4>3, <3>1, <2>2, <2>3
        <5> QED BY <5>1, <4>3, <3>1, SameFields
      <4> QED BY <4>2, <4>8 DEF Good
    <3>9. CASE dirlookup(us, d, name) = 0
      <4>1. /\ L.r = 0 /\ Fields(L.k) /\ Rest(L.k, us) /\ Dirs(L.k)
            /\ TY(L.k) = TY(us) /\ NL(L.k) = NL(us) /\ RF(L.k) = RF(us)
            /\ \E j \in Nat : /\ <<d, j>> \notin NM(us) /\ NM(L.k) = NM(us) \cup {<<d, j>>}
                              /\ TG(L.k)[<<d, j>>] = i
                              /\ \A e \in NM(us) : TG(L.k)[e] = TG(us)[e]
        <5>1. name \in Strings BY <2>7
        <5> HIDE DEF L
        <5> QED BY <5>1, <3>2, <3>6, <3>7, <3>9, <2>1, DirlinkMakes DEF L
      <4> DEFINE K2 == L.k
      <4>2. Linking(K, i, d, name).k = K2 BY <4>1, <3>3
      <4> HIDE DEF L, K2
      <4>3. PICK j \in Nat : /\ <<d, j>> \notin NM(K) /\ NM(K2) = NM(K) \cup {<<d, j>>}
                             /\ TG(K2)[<<d, j>>] = i
                             /\ \A e \in NM(K) : TG(K2)[e] = TG(K)[e]
        BY <4>1, <3>4 DEF K2
      <4>4. TY(K2) = TY(K) /\ RF(K2) = RF(K) /\ NL(K2) = NL(us) BY <4>1, <3>4, <3>5 DEF K2
      <4>5. /\ NL(us)[i] = NL(K)[i] + 1 /\ \A x \in Inums \ {i} : NL(us)[x] = NL(K)[x]
        BY <3>1, <2>1, <2>3 DEF NL
      <4>6. NL(us) \in [Inums -> Int]
        <5>1. NL(K) \in [Inums -> Int] BY <1>0 DEF Linked
        <5>2. NL(us) = [x \in Inums |-> NL(us)[x]] BY DEF NL
        <5> QED BY <5>1, <5>2, <4>5
      <4>7. Linked(TY(K), NL(us), NM(K2), TG(K2))
        <5>1. TG(K) \in [NM(K) -> Inums] /\ TY(K) \in [Inums -> Kinds] BY <1>0 DEF Linked
        <5>2. TG(K2) = [e \in NM(K2) |-> TG(K2)[e]] BY DEF TG
        <5>3. \A e \in NM(K2) : TG(K2)[e] \in Inums BY <5>1, <4>3, <2>1
        <5>4. TG(K2) \in [NM(K2) -> Inums] BY <5>2, <5>3
        <5>5. TY(K)[d] = "DIR" /\ NL(K)[d] # 0 /\ TY(K)[i] \notin {"NONE", "DIR"}
          BY <2>1, <2>7, <3>7 DEF TY, NL
        <5> QED BY <5>1, <5>4, <5>5, <4>3, <4>5, <4>6, <3>7, <2>1, <1>0, NameKeeps
      <4>8. Referred(TY(K2), NL(K2), RF(K2), K2.file, K2.proc, 0)
        <5>1. Referred(TY(K), NL(K), RF(K), K.file, K.proc, 0) BY DEF KInv
        <5>2. K2.file = K.file /\ K2.proc = K.proc BY <4>1, <3>1 DEF Rest, K2
        <5>3. NL(us)[i] # 0
          <6>1. NL(K)[i] = K.inode[i].nlink BY <2>1 DEF NL
          <6> QED BY <6>1, <4>5, <2>2
        <5>4. \A x \in Inums : TY(K)[x] # "NONE" /\ NL(us)[x] = 0 => RF(K)[x] > 0
          BY <5>1, <5>3, <4>5 DEF Referred
        <5> QED BY <5>1, <5>2, <5>4, <4>4 DEF Referred
      <4>9. KInv(K2, 0, 0)
        <5>1. /\ K2.file = K.file /\ K2.proc = K.proc /\ K2.pipe = K.pipe /\ K2.free = K.free
          BY <4>1, <3>1 DEF Rest, K2
        <5>2. Fields(K2) /\ Dirs(K2) BY <4>1 DEF K2
        <5> QED BY <5>1, <5>2, <4>4, <4>7, <4>8 DEF KInv
      <4> QED BY <4>2, <4>9 DEF Good
    <3> QED BY <3>8, <3>9
  <2> QED BY <2>5, <2>6, <2>7
<1> QED BY <1>2

\* Erasing the name e of dp: the state just before the inode is let go.
Erased(K, K2, d, e, i) ==
  /\ <<d, e>> \in NM(K) /\ i = K.inode[d].data[e][2]
  /\ K.inode[i].type = "DIR" => isdirempty(K, i)
  /\ K2.file = K.file /\ K2.pipe = K.pipe /\ K2.proc = K.proc /\ K2.free = K.free
  /\ \A x \in Inums \ {d, i} : K2.inode[x] = K.inode[x]
  /\ i # d =>
       /\ K2.inode[d].type = K.inode[d].type /\ K2.inode[d].ref = K.inode[d].ref
       /\ K2.inode[d].data = [K.inode[d].data EXCEPT ![e] = <<"", 0>>]
       /\ K2.inode[d].nlink = K.inode[d].nlink - (IF K.inode[i].type = "DIR" THEN 1 ELSE 0)
       /\ K2.inode[i].type = K.inode[i].type /\ K2.inode[i].data = K.inode[i].data
       /\ K2.inode[i].ref = K.inode[i].ref + 1 /\ K2.inode[i].nlink = K.inode[i].nlink - 1

LEMMA ErasedKeeps ==
  ASSUME NEW K, KInv(K, 0, 0), NEW d \in Inums, NEW e \in Nat, NEW i \in Inums,
         NEW K2, Fields(K2), Erased(K, K2, d, e, i)
  PROVE  KInv(K2, i, 0)
<1> DEFINE e0 == <<d, e>>
           de == K.inode[d].data
           blank == <<"", 0>>
           new == [de EXCEPT ![e] = blank]
<1>0. /\ Fields(K) /\ Dirs(K) /\ Linked(TY(K), NL(K), NM(K), TG(K))
      /\ Referred(TY(K), NL(K), RF(K), K.file, K.proc, 0)
  BY DEF KInv
<1>1. e0 \in NM(K) /\ TG(K)[e0] = i BY DEF TG, Erased
<1>2. K.inode[d].type = "DIR" /\ e \in 3..Len(de) /\ de[e][2] # 0 BY <1>1 DEF NM
<1>3. /\ de \in Seq(Dirents) /\ Len(de) \in Nat /\ Len(de) >= 2
      /\ de[1][1] = "." /\ de[1][2] # 0 /\ de[2][1] = ".." /\ de[2][2] # 0
  <2>1. Dirs(K) /\ K.inode[d].type = "DIR" BY <1>0, <1>2
  <2> QED BY <2>1 DEF Dirs
<1>4. TY(K)[i] # "NONE" /\ K.inode[i].type # "NONE"
  <2>1. TY(K)[i] # "NONE" BY <1>0, <1>1 DEF Linked
  <2> QED BY <2>1 DEF TY
<1>5. K.inode[i].type = "DIR" => \A x \in NM(K) : x[1] # i
  <2> SUFFICES ASSUME K.inode[i].type = "DIR", NEW x \in NM(K), x[1] = i PROVE FALSE OBVIOUS
  <2>1. x[2] \in 3..Len(K.inode[i].data) /\ K.inode[i].data[x[2]][2] # 0 BY DEF NM
  <2>2. K.inode[i].data \in Seq(Dirents) BY <1>0 DEF Dirs
  <2>3. x[2] \in DOMAIN K.inode[i].data /\ x[2] > 2
    <3>1. DOMAIN K.inode[i].data = 1..Len(K.inode[i].data) /\ Len(K.inode[i].data) \in Nat BY <2>2
    <3> QED BY <3>1, <2>1
  <2>4. isdirempty(K, i) BY DEF Erased
  <2> QED BY <2>1, <2>3, <2>4 DEF isdirempty
<1>6. i # d
  BY <1>1, <1>2, <1>5
<1>o. \A x \in Inums \ {d, i} : K2.inode[x] = K.inode[x] BY DEF Erased
<1>7. /\ K2.inode[d].type = "DIR" /\ K2.inode[d].ref = K.inode[d].ref
      /\ K2.inode[d].data = new
      /\ K2.inode[d].nlink = K.inode[d].nlink - (IF K.inode[i].type = "DIR" THEN 1 ELSE 0)
      /\ K2.inode[i].type = K.inode[i].type /\ K2.inode[i].data = K.inode[i].data
      /\ K2.inode[i].ref = K.inode[i].ref + 1 /\ K2.inode[i].nlink = K.inode[i].nlink - 1
  BY <1>2, <1>6 DEF Erased
<1>8. /\ new \in Seq(Dirents) /\ Len(new) = Len(de) /\ new[e][2] = 0
      /\ \A x \in 1..Len(de) : x # e => new[x] = de[x]
  <2>1. blank \in Dirents /\ blank[2] = 0 BY Literals DEF Dirents
  <2>2. e \in 1..Len(de) BY <1>2, <1>3
  <2>3. de \in Seq(Dirents) /\ Len(de) \in Nat BY <1>3
  <2> HIDE DEF de, blank
  <2> QED BY <2>1, <2>2, <2>3
<1> HIDE DEF new, de
<1>9. Dirs(K2)
  <2>1. /\ new \in Seq(Dirents) /\ Len(new) >= 2 /\ new[1] = de[1] /\ new[2] = de[2]
    BY <1>2, <1>3, <1>8
  <2>2. ASSUME NEW x \in Inums, K2.inode[x].type = "DIR"
        PROVE  /\ K2.inode[x].data \in Seq(Dirents) /\ Len(K2.inode[x].data) >= 2
               /\ K2.inode[x].data[1][1] = "." /\ K2.inode[x].data[1][2] # 0
               /\ K2.inode[x].data[2][1] = ".." /\ K2.inode[x].data[2][2] # 0
    <3>1. CASE x = d BY <3>1, <2>1, <1>3, <1>7
    <3>2. CASE x # d
      <4>1. K2.inode[x].data = K.inode[x].data /\ K.inode[x].type = "DIR" BY <3>2, <2>2, <1>7, <1>o
      <4> QED BY <4>1, <1>0 DEF Dirs
    <3> QED BY <3>1, <3>2
  <2> QED BY <2>2 DEF Dirs
<1>10. TY(K2) = TY(K)
  <2>1. \A x \in Inums : K2.inode[x].type = K.inode[x].type BY <1>2, <1>7, <1>o
  <2> QED BY <2>1 DEF TY
<1>11. NM(K2) = NM(K) \ {e0}
  <2>1. ASSUME NEW x \in Inums \X Nat PROVE x \in NM(K2) <=> x \in NM(K) /\ x # e0
    <3>1. CASE x[1] # d
      <4>1. K2.inode[x[1]].data = K.inode[x[1]].data /\ K2.inode[x[1]].type = K.inode[x[1]].type
        BY <3>1, <1>7, <1>o
      <4>2. x # e0 BY <3>1
      <4> QED BY <4>1, <4>2 DEF NM
    <3>2. CASE x[1] = d /\ x[2] = e
      <4>1. x = e0 BY <3>2
      <4>2. x \notin NM(K2) BY <3>2, <1>7, <1>8 DEF NM
      <4> QED BY <4>1, <4>2
    <3>3. CASE x[1] = d /\ x[2] # e
      <4>1. x # e0 BY <3>3
      <4>2. x \in NM(K2) <=> x[2] \in 3..Len(de) /\ new[x[2]][2] # 0 BY <3>3, <1>7, <1>8 DEF NM
      <4>3. x \in NM(K) <=> x[2] \in 3..Len(de) /\ de[x[2]][2] # 0 BY <3>3, <1>2 DEF NM, de
      <4>4. x[2] \in 3..Len(de) => new[x[2]] = de[x[2]] BY <3>3, <1>3, <1>8
      <4> QED BY <4>1, <4>2, <4>3, <4>4
    <3> QED BY <3>1, <3>2, <3>3
  <2>2. NM(K2) \subseteq Inums \X Nat /\ NM(K) \subseteq Inums \X Nat BY DEF NM
  <2> QED BY <2>1, <2>2
<1>12. ASSUME NEW x \in NM(K2) PROVE TG(K2)[x] = TG(K)[x]
  <2>0. x \in NM(K) /\ x # e0 BY <1>11
  <2>1. TG(K2)[x] = K2.inode[x[1]].data[x[2]][2] /\ TG(K)[x] = K.inode[x[1]].data[x[2]][2]
    BY <2>0 DEF TG
  <2>2. CASE x[1] # d
    <3>1. x[1] \in Inums BY <2>0 DEF NM
    <3>2. K2.inode[x[1]].data = K.inode[x[1]].data BY <3>1, <2>2, <1>7, <1>o
    <3> QED BY <3>2, <2>1
  <2>3. CASE x[1] = d
    <3>1. x[2] \in 3..Len(de) /\ x = <<d, x[2]>> BY <2>0, <2>3 DEF NM, de
    <3>2. x[2] # e BY <3>1, <2>0
    <3>3. new[x[2]] = de[x[2]] BY <3>1, <3>2, <1>3, <1>8
    <3> QED BY <3>3, <2>1, <2>3, <1>7 DEF de
  <2> QED BY <2>2, <2>3
<1>13. /\ \A x \in Inums \ {d, i} : NL(K2)[x] = NL(K)[x] /\ RF(K2)[x] = RF(K)[x]
       /\ NL(K2)[i] = NL(K)[i] - 1 /\ RF(K2)[i] = RF(K)[i] + 1 /\ RF(K2)[d] = RF(K)[d]
       /\ NL(K2)[d] = NL(K)[d] - (IF TY(K)[i] = "DIR" THEN 1 ELSE 0)
  BY <1>7, <1>o DEF NL, RF, TY
<1>14. NL(K2) \in [Inums -> Int] /\ RF(K2) \in [Inums -> Int]
  <2>1. NL(K) \in [Inums -> Int] /\ RF(K) \in [Inums -> Int] BY <1>0 DEF Linked, Referred
  <2>2. NL(K2) = [x \in Inums |-> NL(K2)[x]] /\ RF(K2) = [x \in Inums |-> RF(K2)[x]] BY DEF NL, RF
  <2>3. \A x \in Inums : NL(K2)[x] \in Int /\ RF(K2)[x] \in Int BY <2>1, <1>13
  <2> QED BY <2>2, <2>3
<1>15. Linked(TY(K), NL(K2), NM(K2), TG(K2))
  <2>1. TG(K) \in [NM(K) -> Inums] BY <1>0 DEF Linked
  <2>2. TG(K2) = [x \in NM(K2) |-> TG(K2)[x]] BY DEF TG
  <2>3. \A x \in NM(K2) : TG(K2)[x] \in Inums BY <2>1, <1>11, <1>12
  <2>4. TG(K2) \in [NM(K2) -> Inums] BY <2>2, <2>3
  <2>5. TY(K)[TG(K)[e0]] = "DIR" => \A x \in NM(K) : x[1] # TG(K)[e0] BY <1>1, <1>5 DEF TY
  <2>6. e0[1] = d OBVIOUS
  <2> HIDE DEF e0
  <2> QED BY <2>4, <2>5, <2>6, <1>0, <1>1, <1>11, <1>12, <1>13, <1>14, EraseKeeps
<1>16. NL(K2)[d] # 0
  <2>1. NL(K2)[d] = Cardinality(To(NM(K2), TG(K2), d)) + Cardinality(Sub(TY(K), NM(K2), TG(K2), d)) + Root(d)
    <3>1. TY(K)[d] # "NONE" BY <1>2 DEF TY
    <3> QED BY <3>1, <1>15 DEF Linked
  <2>2. d = ROOTINO \/ To(NM(K), TG(K), d) # {}
    <3>1. e0[1] = d OBVIOUS
    <3> QED BY <3>1, <1>0, <1>1 DEF Linked
  <2>3. To(NM(K2), TG(K2), d) = To(NM(K), TG(K), d)
    BY <1>1, <1>6, <1>11, <1>12 DEF To
  <2>4. /\ Cardinality(To(NM(K2), TG(K2), d)) \in Nat /\ Cardinality(Sub(TY(K), NM(K2), TG(K2), d)) \in Nat
        /\ (Cardinality(To(NM(K2), TG(K2), d)) = 0 <=> To(NM(K2), TG(K2), d) = {})
    <3>1. IsFiniteSet(NM(K2)) BY <1>15 DEF Linked
    <3> QED BY <3>1, FiniteTo
  <2>5. CASE d = ROOTINO BY <2>1, <2>4, <2>5 DEF Root
  <2>6. CASE To(NM(K), TG(K), d) # {}
    <3>1. Cardinality(To(NM(K2), TG(K2), d)) # 0 BY <2>3, <2>4, <2>6
    <3>2. Root(d) \in Nat BY DEF Root
    <3> QED BY <3>1, <3>2, <2>1, <2>4
  <2> QED BY <2>2, <2>5, <2>6
<1>17. Referred(TY(K), NL(K2), RF(K2), K.file, K.proc, i)
  <2>1. ASSUME NEW x \in Inums, TY(K)[x] # "NONE"
        PROVE  /\ RF(K2)[x] = Cardinality(OpenOf(K.file, x)) + Cardinality(CwdOf(K.proc, x)) + Hand(i, x)
               /\ NL(K2)[x] = 0 => RF(K2)[x] > 0
    <3>1. Cardinality(OpenOf(K.file, x)) \in Nat /\ Cardinality(CwdOf(K.proc, x)) \in Nat BY FiniteRefs
    <3>2. RF(K)[x] = Cardinality(OpenOf(K.file, x)) + Cardinality(CwdOf(K.proc, x)) + Hand(0, x)
      BY <2>1, <1>0 DEF Referred
    <3>3. Hand(0, x) = 0 /\ Hand(i, x) = (IF x = i THEN 1 ELSE 0) BY KernelSizes DEF Hand
    <3>4. NL(K)[x] = 0 => RF(K)[x] > 0 BY <2>1, <1>0 DEF Referred
    <3>5. CASE x = i BY <3>1, <3>2, <3>3, <3>5, <1>13
    <3>6. CASE x = d BY <3>1, <3>2, <3>3, <3>6, <1>6, <1>13, <1>16
    <3>7. CASE x # i /\ x # d BY <3>1, <3>2, <3>3, <3>4, <3>7, <1>13
    <3> QED BY <3>5, <3>6, <3>7
  <2> QED BY <2>1, <1>0, <1>4, <1>14 DEF Referred
<1>18. K2.file = K.file /\ K2.pipe = K.pipe /\ K2.proc = K.proc /\ K2.free = K.free BY DEF Erased
<1> QED BY <1>9, <1>10, <1>15, <1>17, <1>18 DEF KInv

\* unlink() of an inode that is in the cache, or for which there is an entry.
Unlinking(K, dp, e) ==
  LET ip == K.inode[dp].data[e][2]
      dir == IsDir(K, ip)
      erased == [K EXCEPT !.inode[dp].data[e] = <<"", 0>>,
                          !.inode[dp].nlink = IF dir THEN @ - 1 ELSE @]
  IN  IF e = 0 THEN Fail(K)
      ELSE IF K.inode[ip].nlink < 1 THEN Panic(K, "unlink: nlink < 1")
      ELSE IF dir /\ ~isdirempty(K, ip) THEN Fail(K)
      ELSE Ret(iput([iget(erased, ip) EXCEPT !.inode[ip].nlink = @ - 1], ip), 0)

LEMMA UnlinkAtIs ==
  ASSUME NEW K, NEW d, NEW e
  PROVE  unlinkAt(K, d, e) = Unlinking(K, d, e) \/ Stopped(unlinkAt(K, d, e), K)
<1> DEFINE i == K.inode[d].data[e][2]
           dir == IsDir(K, i)
           erased == [K EXCEPT !.inode[d].data[e] = <<"", 0>>,
                               !.inode[d].nlink = IF dir THEN @ - 1 ELSE @]
           rest == IF K.inode[i].nlink < 1 THEN Panic(K, "unlink: nlink < 1")
                   ELSE IF dir /\ ~isdirempty(K, i) THEN Fail(K)
                   ELSE Ret(iput([iget(erased, i) EXCEPT !.inode[i].nlink = @ - 1], i), 0)
<1>a. unlinkAt(K, d, e) = IF e = 0 THEN Fail(K)
                          ELSE IF Uncached(K, {d}, i) THEN Panic(K, "iget: no inodes") ELSE rest
  BY Zenon DEF unlinkAt
<1>b. Unlinking(K, d, e) = IF e = 0 THEN Fail(K) ELSE rest BY Zenon DEF Unlinking
<1> HIDE DEF rest
<1>1. \/ unlinkAt(K, d, e) = Unlinking(K, d, e)
      \/ unlinkAt(K, d, e) = Panic(K, "iget: no inodes") /\ Uncached(K, {d}, i)
  <2> DEFINE U == Uncached(K, {d}, i)
             F == Fail(K)
             P == Panic(K, "iget: no inodes")
             A == unlinkAt(K, d, e)
             B == Unlinking(K, d, e)
  <2>1. A = IF e = 0 THEN F ELSE IF U THEN P ELSE rest BY <1>a, Zenon
  <2>2. B = IF e = 0 THEN F ELSE rest BY <1>b, Zenon
  <2> HIDE DEF U, F, P, A, B
  <2>3. A = B \/ (A = P /\ U) BY <2>1, <2>2
  <2> QED BY <2>3, Zenon DEF A, B, P, U
<1>2. Uncached(K, {d}, i) => Crammed(K)
  <2>1. {d} \in SUBSET {d, d} OBVIOUS
  <2> HIDE DEF i
  <2> QED BY <2>1, CacheFull
<1> HIDE DEF i
<1> QED BY <1>1, <1>2 DEF Stopped

LEMMA UnlinkAtKeeps ==
  ASSUME NEW K, KInv(K, 0, 0), NEW d \in Inums, K.inode[d].type = "DIR", NEW e \in Nat,
         e # 0 => e \in 3..Len(K.inode[d].data) /\ K.inode[d].data[e][2] \in Inums
  PROVE  /\ KInv(Unlinking(K, d, e).k, 0, 0)
         /\ \/ Unlinking(K, d, e).k = K
            \/ \E K2 : /\ Fields(K2) /\ K2.panic = K.panic
                       /\ Erased(K, K2, d, e, K.inode[d].data[e][2])
                       /\ Unlinking(K, d, e).k = iput(K2, K.inode[d].data[e][2])
<1> DEFINE i == K.inode[d].data[e][2]
           dir == IsDir(K, i)
           blank == <<"", 0>>
           erased == [K EXCEPT !.inode[d].data[e] = blank, !.inode[d].nlink = IF dir THEN @ - 1 ELSE @]
           K2 == [iget(erased, i) EXCEPT !.inode[i].nlink = @ - 1]
<1>0. Fields(K) BY DEF KInv
<1>1. \/ Unlinking(K, d, e).k = K
      \/ e # 0 /\ K.inode[i].nlink < 1
      \/ e # 0 /\ (dir => isdirempty(K, i)) /\ Unlinking(K, d, e).k = iput(K2, i)
  BY DEF Unlinking, Fail, Ret, Panic
<1>2. CASE Unlinking(K, d, e).k = K BY <1>2
<1>3. CASE e # 0 /\ K.inode[i].nlink < 1
  <2>1. e \in 3..Len(K.inode[d].data) /\ i \in Inums /\ i # 0 BY <1>3, KernelSizes
  <2>2. <<d, e>> \in NM(K) BY <2>1 DEF NM
  <2>3. TG(K)[<<d, e>>] = i BY <2>2 DEF TG
  <2>4. Linked(TY(K), NL(K), NM(K), TG(K)) BY DEF KInv
  <2> HIDE DEF i
  <2>5. <<d, e>> \in To(NM(K), TG(K), i) BY <2>2, <2>3 DEF To
  <2>6. TY(K)[i] # "NONE" BY <2>2, <2>3, <2>4 DEF Linked
  <2>7. NL(K)[i] = Cardinality(To(NM(K), TG(K), i)) + Cardinality(Sub(TY(K), NM(K), TG(K), i)) + Root(i)
    BY <2>1, <2>4, <2>6 DEF Linked
  <2>8. /\ IsFiniteSet(To(NM(K), TG(K), i)) /\ Cardinality(To(NM(K), TG(K), i)) \in Nat
        /\ Cardinality(Sub(TY(K), NM(K), TG(K), i)) \in Nat
    BY <2>4, FiniteTo DEF Linked
  <2>9. Cardinality(To(NM(K), TG(K), i)) # 0 BY <2>5, <2>8, FS_EmptySet
  <2>10. NL(K)[i] \in Nat /\ NL(K)[i] >= 1 BY <2>7, <2>8, <2>9 DEF Root
  <2> QED BY <2>1, <2>10, <1>3 DEF NL
<1>4. CASE e # 0 /\ (dir => isdirempty(K, i)) /\ Unlinking(K, d, e).k = iput(K2, i)
  <2>1. e \in 3..Len(K.inode[d].data) /\ i \in Inums /\ i # 0 BY <1>4, KernelSizes
  <2>2. <<d, e>> \in NM(K) BY <2>1 DEF NM
  <2>3. K.inode[i].type = "DIR" => isdirempty(K, i) BY <2>1, <1>4 DEF IsDir
  <2>i. dir <=> K.inode[i].type = "DIR" BY <2>1 DEF IsDir
  <2> HIDE DEF i, dir, blank
  <2>4. /\ DOMAIN erased = DOMAIN K /\ DOMAIN erased.inode = Inums /\ erased.panic = K.panic
        /\ erased.file = K.file /\ erased.pipe = K.pipe /\ erased.proc = K.proc /\ erased.free = K.free
        /\ \A x \in Inums \ {d} : erased.inode[x] = K.inode[x]
        /\ erased.inode[d].type = K.inode[d].type /\ erased.inode[d].ref = K.inode[d].ref
        /\ DOMAIN erased.inode[d] = {"type", "nlink", "ref", "data"}
        /\ erased.inode[d].data = [K.inode[d].data EXCEPT ![e] = blank]
        /\ erased.inode[d].nlink = IF dir THEN K.inode[d].nlink - 1 ELSE K.inode[d].nlink
    <3> DEFINE I1 == [K.inode EXCEPT ![d].data[e] = blank]
    <3>1. /\ DOMAIN erased = DOMAIN K /\ erased.panic = K.panic
          /\ erased.file = K.file /\ erased.pipe = K.pipe /\ erased.proc = K.proc /\ erased.free = K.free
          /\ erased.inode = [I1 EXCEPT ![d].nlink = IF dir THEN @ - 1 ELSE @]
      BY <1>0 DEF Fields
    <3>2. DOMAIN K.inode = Inums /\ DOMAIN K.inode[d] = {"type", "nlink", "ref", "data"} BY <1>0 DEF Fields
    <3>3. /\ DOMAIN I1 = Inums /\ DOMAIN I1[d] = {"type", "nlink", "ref", "data"}
          /\ \A x \in Inums \ {d} : I1[x] = K.inode[x]
          /\ I1[d].type = K.inode[d].type /\ I1[d].ref = K.inode[d].ref /\ I1[d].nlink = K.inode[d].nlink
          /\ I1[d].data = [K.inode[d].data EXCEPT ![e] = blank]
      BY <3>2
    <3> HIDE DEF I1, erased
    <3> QED BY <3>1, <3>3
  <2>5. Fields(erased)
    BY <2>4, <1>0 DEF Fields
  <2> HIDE DEF erased
  <2>6. /\ DOMAIN K2 = DOMAIN erased /\ DOMAIN K2.inode = Inums /\ K2.panic = erased.panic
        /\ K2.file = erased.file /\ K2.pipe = erased.pipe /\ K2.proc = erased.proc /\ K2.free = erased.free
        /\ \A x \in Inums \ {i} : K2.inode[x] = erased.inode[x]
        /\ K2.inode[i].type = erased.inode[i].type /\ K2.inode[i].data = erased.inode[i].data
        /\ DOMAIN K2.inode[i] = {"type", "nlink", "ref", "data"}
        /\ K2.inode[i].ref = erased.inode[i].ref + 1 /\ K2.inode[i].nlink = erased.inode[i].nlink - 1
    BY <2>1, <2>5 DEF Fields, iget
  <2>7. Fields(K2) BY <2>5, <2>6 DEF Fields
  <2> HIDE DEF K2
  <2>n. K.inode[d].nlink \in Int
    <3>1. NL(K) \in [Inums -> Int] BY DEF KInv, Linked
    <3>2. NL(K)[d] \in Int BY <3>1
    <3> QED BY <3>2 DEF NL
  <2>8. i # d =>
          /\ K2.inode[d].type = K.inode[d].type /\ K2.inode[d].ref = K.inode[d].ref
          /\ K2.inode[d].data = [K.inode[d].data EXCEPT ![e] = <<"", 0>>]
          /\ K2.inode[d].nlink = K.inode[d].nlink - (IF K.inode[i].type = "DIR" THEN 1 ELSE 0)
          /\ K2.inode[i].type = K.inode[i].type /\ K2.inode[i].data = K.inode[i].data
          /\ K2.inode[i].ref = K.inode[i].ref + 1 /\ K2.inode[i].nlink = K.inode[i].nlink - 1
    <3> SUFFICES ASSUME i # d
                 PROVE  /\ K2.inode[d].type = K.inode[d].type /\ K2.inode[d].ref = K.inode[d].ref
                        /\ K2.inode[d].data = [K.inode[d].data EXCEPT ![e] = blank]
                        /\ K2.inode[d].nlink = K.inode[d].nlink - (IF K.inode[i].type = "DIR" THEN 1 ELSE 0)
                        /\ K2.inode[i].type = K.inode[i].type /\ K2.inode[i].data = K.inode[i].data
                        /\ K2.inode[i].ref = K.inode[i].ref + 1 /\ K2.inode[i].nlink = K.inode[i].nlink - 1
      BY DEF blank
    <3>1. K2.inode[d] = erased.inode[d] /\ erased.inode[i] = K.inode[i] BY <2>1, <2>4, <2>6
    <3>2. K2.inode[d].nlink = K.inode[d].nlink - (IF K.inode[i].type = "DIR" THEN 1 ELSE 0)
      BY <3>1, <2>4, <2>i, <2>n
    <3> QED BY <3>1, <3>2, <2>4, <2>6
  <2>9. \A x \in Inums \ {d, i} : K2.inode[x] = K.inode[x] BY <2>4, <2>6
  <2>10. K2.file = K.file /\ K2.pipe = K.pipe /\ K2.proc = K.proc /\ K2.free = K.free BY <2>4, <2>6
  <2>11. i = K.inode[d].data[e][2] BY DEF i
  <2>e. Erased(K, K2, d, e, i) BY <2>2, <2>3, <2>8, <2>9, <2>10, <2>11 DEF Erased
  <2>12. KInv(K2, i, 0) BY <2>e, <2>1, <2>7, ErasedKeeps
  <2>13. KInv(iput(K2, i), 0, 0) BY <2>1, <2>12, IputKeeps
  <2>14. K2.panic = K.panic BY <2>4, <2>6
  <2>15. \E L : /\ Fields(L) /\ L.panic = K.panic /\ Erased(K, L, d, e, i)
               /\ Unlinking(K, d, e).k = iput(L, i)
    BY <2>e, <2>7, <2>14, <1>4
  <2> QED BY <2>13, <2>15, <2>11, <1>4
<1> QED BY <1>1, <1>2, <1>3, <1>4
-----------------------------------------------------------------------------
(* New inodes.                                                             *)

LEMMA InodeFound ==
  ASSUME NEW K
  PROVE  /\ ialloc(K) \in Int
         /\ ialloc(K) # 0 => ialloc(K) \in Inums /\ K.inode[ialloc(K)].type = "NONE"
         /\ ialloc(K) = 0 => \A i \in Inums : K.inode[i].type # "NONE"
<1> DEFINE S == {i \in Inums : K.inode[i].type = "NONE"}
<1>1. S \in SUBSET Nat BY KernelSizes
<1>2. CASE S # {}
  <2>1. Min(S) \in S BY <1>1, <1>2, FirstFound
  <2>2. ialloc(K) = Min(S) BY <1>2 DEF ialloc, First
  <2>3. \A x \in S : x \in Int /\ x # 0 /\ x \in Inums /\ K.inode[x].type = "NONE" BY <1>1, KernelSizes
  <2> HIDE DEF S
  <2> QED BY <2>1, <2>2, <2>3
<1>3. CASE S = {} BY <1>3 DEF ialloc, First
<1> QED BY <1>2, <1>3

\* The inode new, with its first name, and in hand.
Made(K, M, d, new, type) ==
  /\ M.panic = K.panic /\ M.file = K.file /\ M.pipe = K.pipe /\ M.proc = K.proc /\ M.free = K.free
  /\ \A x \in Inums \ {d, new} : M.inode[x] = K.inode[x]
  /\ M.inode[new] = [type |-> type, nlink |-> 1, ref |-> 1,
                     data |-> IF type = "DIR" THEN <<<<".", new>>, <<"..", d>>>> ELSE <<>>]
  /\ M.inode[d].type = "DIR" /\ M.inode[d].ref = K.inode[d].ref /\ M.inode[d].data = K.inode[d].data
  /\ M.inode[d].nlink = IF type = "DIR" THEN K.inode[d].nlink + 1 ELSE K.inode[d].nlink

\* What is new in K2 is the inode new, named in d.
Grown(K, K2, d, new, type) ==
  /\ K2.panic = K.panic /\ new \in Inums /\ K.inode[new].type = "NONE"
  /\ \A x \in Inums \ {new} :
       /\ K2.inode[x].type = K.inode[x].type
       /\ K.inode[x].type = "DIR" =>
            K2.inode[x].data[1] = K.inode[x].data[1] /\ K2.inode[x].data[2] = K.inode[x].data[2]
  /\ type = "DIR" => K2.inode[new].data[1][2] = new /\ K2.inode[new].data[2][2] = d
  /\ K2.inode[new].type = type
  /\ \E j \in Nat : /\ NM(K2) = NM(K) \cup {<<d, j>>} /\ TG(K2)[<<d, j>>] = new
                    /\ \A e \in NM(K) : TG(K2)[e] = TG(K)[e]

LEMMA MadeKeeps ==
  ASSUME NEW K, KInv(K, 0, 0), NEW d \in Inums, K.inode[d].type = "DIR", K.inode[d].nlink # 0,
         NEW new \in Inums, K.inode[new].type = "NONE", NEW type \in Kinds \ {"NONE"},
         NEW M, Fields(M), Made(K, M, d, new, type),
         NEW name \in Strings, dirlookup(M, d, name) = 0
  PROVE  LET R == dirlink(M, d, name, new)
         IN  /\ R.r = 0 /\ KInv(R.k, new, 0) /\ R.k.proc = K.proc /\ R.k.inode[new].type = type
             /\ Grown(K, R.k, d, new, type)
<1>0. /\ Fields(K) /\ Dirs(K) /\ Linked(TY(K), NL(K), NM(K), TG(K))
      /\ Referred(TY(K), NL(K), RF(K), K.file, K.proc, 0)
  BY DEF KInv
<1>1. d # new OBVIOUS
<1>2. M.inode[new].type = type /\ M.inode[new].nlink = 1 /\ M.inode[new].ref = 1
      /\ (type = "DIR" => M.inode[new].data = <<<<".", new>>, <<"..", d>>>>)
  BY DEF Made
<1>m. /\ \A x \in Inums \ {d, new} : M.inode[x] = K.inode[x]
      /\ M.inode[d].type = "DIR" /\ M.inode[d].ref = K.inode[d].ref /\ M.inode[d].data = K.inode[d].data
      /\ M.inode[d].nlink = IF type = "DIR" THEN K.inode[d].nlink + 1 ELSE K.inode[d].nlink
  BY DEF Made
<1>3. Dirs(M)
  <2>1. ASSUME NEW x \in Inums, M.inode[x].type = "DIR"
        PROVE  /\ M.inode[x].data \in Seq(Dirents) /\ Len(M.inode[x].data) >= 2
               /\ M.inode[x].data[1][1] = "." /\ M.inode[x].data[1][2] # 0
               /\ M.inode[x].data[2][1] = ".." /\ M.inode[x].data[2][2] # 0
    <3>1. CASE x = new
      <4>1. M.inode[x].data = <<<<".", new>>, <<"..", d>>>> BY <3>1, <2>1, <1>2
      <4>2. <<".", new>> \in Dirents /\ <<"..", d>> \in Dirents BY Literals DEF Dirents
      <4> QED BY <4>1, <4>2, KernelSizes
    <3>2. CASE x # new
      <4>1. M.inode[x].data = K.inode[x].data /\ K.inode[x].type = "DIR" BY <3>2, <2>1, <1>m
      <4> QED BY <4>1, <1>0 DEF Dirs
    <3> QED BY <3>1, <3>2
  <2> QED BY <2>1 DEF Dirs
<1>4. NM(M) = NM(K)
  <2>1. ASSUME NEW x \in Inums \X Nat PROVE x \in NM(M) <=> x \in NM(K)
    <3>1. CASE x[1] = new
      <4>1. x \notin NM(K) BY <3>1 DEF NM
      <4>2. x \notin NM(M)
        <5>1. CASE type = "DIR"
          <6>1. M.inode[new].data = <<<<".", new>>, <<"..", d>>>> BY <5>1, <1>2
          <6>2. Len(M.inode[new].data) = 2 BY <6>1
          <6> QED BY <6>2, <3>1 DEF NM
        <5>2. CASE type # "DIR" BY <5>2, <3>1, <1>2 DEF NM
        <5> QED BY <5>1, <5>2
      <4> QED BY <4>1, <4>2
    <3>2. CASE x[1] # new
      <4>1. M.inode[x[1]].data = K.inode[x[1]].data /\ M.inode[x[1]].type = K.inode[x[1]].type BY <3>2, <1>m
      <4> QED BY <4>1 DEF NM
    <3> QED BY <3>1, <3>2
  <2>2. NM(M) \subseteq Inums \X Nat /\ NM(K) \subseteq Inums \X Nat BY DEF NM
  <2> QED BY <2>1, <2>2
<1>5. TG(M) = TG(K)
  <2>1. \A x \in NM(K) : x[1] \in Inums /\ x[1] # new BY DEF NM
  <2>2. \A x \in NM(K) : M.inode[x[1]].data = K.inode[x[1]].data BY <2>1, <1>m
  <2> QED BY <2>2, <1>4 DEF TG
<1> DEFINE R == dirlink(M, d, name, new)
           K2 == R.k
<1>6. /\ R.r = 0 /\ Fields(K2) /\ Rest(K2, M) /\ Dirs(K2)
      /\ TY(K2) = TY(M) /\ NL(K2) = NL(M) /\ RF(K2) = RF(M) /\ Heads(K2, M)
      /\ \E j \in Nat : /\ <<d, j>> \notin NM(M) /\ NM(K2) = NM(M) \cup {<<d, j>>}
                        /\ TG(K2)[<<d, j>>] = new
                        /\ \A e \in NM(M) : TG(K2)[e] = TG(M)[e]
  BY <1>3, <1>m, DirlinkMakes
<1> HIDE DEF R, K2
<1>7. PICK j \in Nat : /\ <<d, j>> \notin NM(K) /\ NM(K2) = NM(K) \cup {<<d, j>>}
                       /\ TG(K2)[<<d, j>>] = new
                       /\ \A e \in NM(K) : TG(K2)[e] = TG(K)[e]
  BY <1>4, <1>5, <1>6
<1>8. /\ TY(M)[new] = type /\ \A x \in Inums \ {new} : TY(M)[x] = TY(K)[x]
      /\ NL(M)[new] = 1 /\ RF(M)[new] = 1 /\ TY(K)[new] = "NONE" /\ TY(K)[d] = "DIR" /\ NL(K)[d] # 0
      /\ \A x \in Inums \ {new, d} : NL(M)[x] = NL(K)[x]
      /\ \A x \in Inums \ {new} : RF(M)[x] = RF(K)[x]
      /\ NL(M)[d] = IF type = "DIR" THEN NL(K)[d] + 1 ELSE NL(K)[d]
  BY <1>1, <1>2, <1>m DEF TY, NL, RF
<1>9. TY(M) \in [Inums -> Kinds] /\ NL(M) \in [Inums -> Int] /\ RF(M) \in [Inums -> Int]
  <2>1. TY(K) \in [Inums -> Kinds] /\ NL(K) \in [Inums -> Int] /\ RF(K) \in [Inums -> Int]
    BY <1>0 DEF Linked, Referred
  <2>2. TY(M) = [x \in Inums |-> TY(M)[x]] /\ NL(M) = [x \in Inums |-> NL(M)[x]]
        /\ RF(M) = [x \in Inums |-> RF(M)[x]]
    BY DEF TY, NL, RF
  <2>3. \A x \in Inums : TY(M)[x] \in Kinds /\ NL(M)[x] \in Int /\ RF(M)[x] \in Int
    BY <2>1, <1>8
  <2> QED BY <2>2, <2>3
<1>10. Linked(TY(M), NL(M), NM(K2), TG(K2))
  <2>1. TG(K) \in [NM(K) -> Inums] /\ NL(K) \in [Inums -> Int] BY <1>0 DEF Linked
  <2>2. TG(K2) = [e \in NM(K2) |-> TG(K2)[e]] BY DEF TG
  <2>3. \A e \in NM(K2) : TG(K2)[e] \in Inums BY <2>1, <1>7
  <2>4. TG(K2) \in [NM(K2) -> Inums] BY <2>2, <2>3
  <2>5. NL(M)[d] = NL(K)[d] + (IF TY(M)[new] = "DIR" THEN 1 ELSE 0) BY <2>1, <1>8
  <2>6. TY(M)[new] # "NONE" BY <1>8
  <2> QED BY <2>4, <2>5, <2>6, <1>0, <1>7, <1>8, <1>9, NameKeeps
<1>11. Referred(TY(M), NL(M), RF(M), K.file, K.proc, new)
  <2>1. OpenOf(K.file, new) = {} /\ CwdOf(K.proc, new) = {}
    BY <1>0, <1>8 DEF Referred, OpenOf, CwdOf
  <2>2. Cardinality(OpenOf(K.file, new)) = 0 /\ Cardinality(CwdOf(K.proc, new)) = 0
    BY <2>1, FS_EmptySet, Zenon
  <2>3. ASSUME NEW x \in Inums, TY(M)[x] # "NONE"
        PROVE  /\ RF(M)[x] = Cardinality(OpenOf(K.file, x)) + Cardinality(CwdOf(K.proc, x)) + Hand(new, x)
               /\ NL(M)[x] = 0 => RF(M)[x] > 0
    <3>3. Hand(0, x) = 0 /\ Hand(new, x) = (IF x = new THEN 1 ELSE 0) BY KernelSizes DEF Hand
    <3>4. CASE x = new BY <3>3, <3>4, <2>2, <1>8
    <3>5. CASE x # new
      <4>0. TY(K)[x] # "NONE" BY <3>5, <2>3, <1>8
      <4>1. RF(K)[x] = Cardinality(OpenOf(K.file, x)) + Cardinality(CwdOf(K.proc, x)) + Hand(0, x)
        BY <4>0, <1>0 DEF Referred
      <4>2. NL(K)[x] = 0 => RF(K)[x] > 0 BY <4>0, <1>0 DEF Referred
      <4>3. NL(K)[x] \in Nat BY <4>0, <1>0, LinksNat
      <4>4. NL(M)[x] = 0 => NL(K)[x] = 0 BY <4>3, <3>5, <1>8
      <4> QED BY <4>1, <4>2, <4>4, <3>3, <3>5, <1>8
    <3> QED BY <3>4, <3>5
  <2>4. ASSUME NEW f \in Files, K.file[f].type = "FD_INODE"
        PROVE  /\ K.file[f].ip \in Inums /\ TY(M)[K.file[f].ip] # "NONE"
               /\ K.file[f].writable => TY(M)[K.file[f].ip] # "DIR"
    <3>1. /\ K.file[f].ip \in Inums /\ TY(K)[K.file[f].ip] # "NONE"
          /\ K.file[f].writable => TY(K)[K.file[f].ip] # "DIR"
      BY <2>4, <1>0 DEF Referred
    <3>2. K.file[f].ip # new BY <3>1, <1>8
    <3> QED BY <3>1, <3>2, <1>8
  <2>5. ASSUME NEW p \in Procs, K.proc[p].state = "LIVE"
        PROVE  K.proc[p].cwd \in Inums /\ TY(M)[K.proc[p].cwd] # "NONE"
    <3>1. K.proc[p].cwd \in Inums /\ TY(K)[K.proc[p].cwd] # "NONE" BY <2>5, <1>0 DEF Referred
    <3> QED BY <3>1, <1>8
  <2> QED BY <2>3, <2>4, <2>5, <1>8, <1>9 DEF Referred
<1>12. KInv(K2, new, 0)
  <2>1. K2.file = K.file /\ K2.proc = K.proc /\ K2.pipe = K.pipe /\ K2.free = K.free
    BY <1>6 DEF Rest, Made
  <2> QED BY <2>1, <1>6, <1>10, <1>11 DEF KInv
<1>13. K2.inode[new].type = type
  <2>1. TY(K2)[new] = type BY <1>6, <1>8
  <2> QED BY <2>1 DEF TY
<1>14. K2.proc = K.proc BY <1>6 DEF Rest, Made
<1>15. Grown(K, K2, d, new, type)
  <2>1. K2.panic = K.panic BY <1>6 DEF Rest, Made
  <2>2. ASSUME NEW x \in Inums \ {new}
        PROVE  /\ K2.inode[x].type = K.inode[x].type
               /\ K.inode[x].type = "DIR" =>
                    K2.inode[x].data[1] = K.inode[x].data[1] /\ K2.inode[x].data[2] = K.inode[x].data[2]
    <3>1. TY(K2)[x] = TY(K)[x] BY <1>6, <1>8
    <3>2. K2.inode[x].type = K.inode[x].type BY <3>1 DEF TY
    <3>3. M.inode[x].data = K.inode[x].data /\ M.inode[x].type = K.inode[x].type BY <1>m
    <3> QED BY <3>2, <3>3, <1>6 DEF Heads
  <2>3. type = "DIR" => K2.inode[new].data[1][2] = new /\ K2.inode[new].data[2][2] = d
    <3>1. SUFFICES ASSUME type = "DIR" PROVE K2.inode[new].data[1][2] = new /\ K2.inode[new].data[2][2] = d
      OBVIOUS
    <3>2. M.inode[new].data = <<<<".", new>>, <<"..", d>>>> /\ M.inode[new].type = "DIR" BY <3>1, <1>2
    <3>3. K2.inode[new].data[1] = M.inode[new].data[1] /\ K2.inode[new].data[2] = M.inode[new].data[2]
      BY <3>2, <1>6 DEF Heads
    <3> QED BY <3>2, <3>3
  <2> QED BY <2>1, <2>2, <2>3, <1>7, <1>13 DEF Grown
<1> QED BY <1>6, <1>12, <1>13, <1>14, <1>15 DEF R, K2

\* What create() returns: an inode in hand, or none.
Created(c, K, type) ==
  /\ c.r \in Int
  /\ c.r <= 0 => Good(c.k, 0)
  /\ c.r > 0 => /\ c.r \in Inums
                /\ \/ Astray(c.k)
                   \/ KInv(c.k, c.r, 0) /\ c.k.proc = K.proc /\ c.k.inode[c.r].type \in {type, "FILE"}

\* create() where there is room.
Making(K, dp, name, type, new) ==
  LET made == [K EXCEPT !.inode[new] =
                 [type |-> type, nlink |-> 1, ref |-> 1,
                  data |-> IF type = "DIR" THEN <<<<".", new>>, <<"..", dp>>>> ELSE <<>>],
                        !.inode[dp].nlink = IF type = "DIR" THEN @ + 1 ELSE @,
                        !.strayed = @ \/ K.inode[dp].nlink = 0]
      end(linked) == IF linked.r < 0 THEN Panic(K, "create: dirlink") ELSE Ret(linked.k, new)
  IN  IF new = 0 THEN Panic(K, "ialloc: no inodes") ELSE end(dirlink(made, dp, name, new))

LEMMA NewInodeIs ==
  ASSUME NEW K, NEW d, NEW name, NEW type, NEW new
  PROVE  LET R == newInode(K, d, name, type, new)
         IN  \/ R = Making(K, d, name, type, new)
             \/ R = Panic(K, "dirlink") /\ FullDir(K, d)
             \/ Stopped(R, K)
<1> DEFINE R == newInode(K, d, name, type, new)
           made == [K EXCEPT !.inode[new] =
                      [type |-> type, nlink |-> 1, ref |-> 1,
                       data |-> IF type = "DIR" THEN <<<<".", new>>, <<"..", d>>>> ELSE <<>>],
                             !.inode[d].nlink = IF type = "DIR" THEN @ + 1 ELSE @,
                             !.strayed = @ \/ K.inode[d].nlink = 0]
           end(linked) == IF linked.r < 0 THEN Panic(K, "create: dirlink") ELSE Ret(linked.k, new)
           rest == end(dirlink(made, d, name, new))
           n == IF type = "DIR" THEN 1 ELSE 0
           A == Panic(K, "ialloc: no inodes")
           B == Panic(K, "iget: no inodes")
           M == Making(K, d, name, type, new)
           U == Uncached(K, {d}, new)
           Q == Room(K, d, n, rest)
<1>1. R = IF new = 0 THEN A ELSE IF U THEN B ELSE Q BY Zenon DEF newInode
<1>2. M = IF new = 0 THEN A ELSE rest BY Zenon DEF Making
<1>3. U => Crammed(K)
  <2>1. {d} \in SUBSET {d, d} OBVIOUS
  <2> QED BY <2>1, CacheFull
<1>4. n \in {0, 1} OBVIOUS
<1> HIDE DEF rest, n, A, M, U, R
<1>5. \/ Q = rest
      \/ Q = Panic(K, "dirlink") /\ FullDir(K, d)
      \/ Q = Panic(K, "balloc: out of blocks") /\ Drained(K)
  BY <1>4, RoomIs
<1> HIDE DEF Q
<1>6. R = M \/ (R = Panic(K, "dirlink") /\ FullDir(K, d)) \/ Stopped(R, K)
  BY <1>1, <1>2, <1>3, <1>5 DEF Stopped
<1> QED BY <1>6 DEF R, M

LEMMA MakingKeeps ==
  ASSUME NEW K, KInv(K, 0, 0), NEW d \in Inums, K.inode[d].type = "DIR",
         NEW name \in Strings, NEW type \in Kinds \ {"NONE"}, dirlookup(K, d, name) = 0
  PROVE  LET c == Making(K, d, name, type, ialloc(K))
         IN  /\ Created(c, K, type)
             /\ \/ Astray(c.k)
                \/ c = Panic(K, "ialloc: no inodes") /\ ialloc(K) = 0
                \/ c.r > 0 /\ Grown(K, c.k, d, ialloc(K), type)
<1> DEFINE new == ialloc(K)
           c == Making(K, d, name, type, new)
           M == [K EXCEPT !.inode[new] =
                   [type |-> type, nlink |-> 1, ref |-> 1,
                    data |-> IF type = "DIR" THEN <<<<".", new>>, <<"..", d>>>> ELSE <<>>],
                          !.inode[d].nlink = IF type = "DIR" THEN @ + 1 ELSE @,
                          !.strayed = @ \/ K.inode[d].nlink = 0]
           R == dirlink(M, d, name, new)
<1>0. Fields(K) BY DEF KInv
<1>1. /\ new = 0 => c = Panic(K, "ialloc: no inodes")
      /\ new # 0 => c = IF R.r < 0 THEN Panic(K, "create: dirlink") ELSE Ret(R.k, new)
  BY DEF Making
<1>a. new # 0 => new \in Inums /\ K.inode[new].type = "NONE" BY InodeFound
<1> DEFINE Goal == /\ Created(c, K, type)
                   /\ \/ Astray(c.k)
                      \/ c = Panic(K, "ialloc: no inodes") /\ new = 0
                      \/ c.r > 0 /\ Grown(K, c.k, d, new, type)
<1>b. SUFFICES Goal OBVIOUS
<1>l. new # 0 => R.r = 0
  <2>1. SUFFICES ASSUME new # 0 PROVE dirlookup(M, d, name) = 0 BY DEF dirlink, Ret
  <2>2. d # new BY <2>1, <1>a
  <2>3. M.inode[d].data = K.inode[d].data BY <2>2, <1>0 DEF Fields
  <2> HIDE DEF M
  <2>4. dirlookup(M, d, name) = dirlookup(K, d, name) BY <2>3 DEF dirlookup
  <2> QED BY <2>4
<1> HIDE DEF new, c, R, M
<1>2. ASSUME NEW why, c = Panic(K, why) PROVE Created(c, K, type)
  <2>1. KInv(c.k, 0, 0) /\ c.r = -1 BY <1>2, PanicKeeps
  <2> QED BY <2>1 DEF Created, Good
<1>3. CASE new = 0 BY <1>1, <1>2, <1>3
<1>4. CASE new # 0 /\ R.r < 0
  <2>1. R.r = 0 /\ R.r < 0 BY <1>4, <1>l
  <2>2. ~(0 < 0) OBVIOUS
  <2> QED BY <2>1, <2>2, Zenon
<1>5. CASE new # 0 /\ ~(R.r < 0)
  <2>0. c = Ret(R.k, new) BY <1>1, <1>5
  <2>1. c.k = R.k /\ c.r = new BY <2>0 DEF Ret
  <2>2. new \in Inums /\ new > 0 /\ new \in Int BY <1>5, <1>a DEF Inums
  <2>3. CASE K.inode[d].nlink = 0
    <3>1. Astray(M) BY <2>3, <1>0 DEF Astray, Fields, M
    <3>2. Astray(R.k) BY <3>1, DirlinkStrays DEF R
    <3>3. Created(c, K, type) BY <3>2, <2>1, <2>2 DEF Created
    <3> QED BY <3>2, <3>3, <2>1
  <2>4. CASE K.inode[d].nlink # 0
    <3>0. d # new BY <2>2, <1>a
    <3>1. /\ DOMAIN M = DOMAIN K /\ M.file = K.file /\ M.pipe = K.pipe /\ M.proc = K.proc /\ M.free = K.free
          /\ M.panic = K.panic
          /\ DOMAIN M.inode = Inums
          /\ \A x \in Inums \ {d, new} : M.inode[x] = K.inode[x]
          /\ M.inode[new] = [type |-> type, nlink |-> 1, ref |-> 1,
                             data |-> IF type = "DIR" THEN <<<<".", new>>, <<"..", d>>>> ELSE <<>>]
          /\ M.inode[d] = [K.inode[d] EXCEPT !.nlink = IF type = "DIR" THEN K.inode[d].nlink + 1 ELSE K.inode[d].nlink]
      BY <3>0, <2>2, <1>0 DEF Fields, M
    <3>2. /\ M.inode[d].type = "DIR" /\ M.inode[d].ref = K.inode[d].ref /\ M.inode[d].data = K.inode[d].data
          /\ M.inode[d].nlink = IF type = "DIR" THEN K.inode[d].nlink + 1 ELSE K.inode[d].nlink
          /\ DOMAIN M.inode[d] = {"type", "nlink", "ref", "data"}
      <4>1. DOMAIN K.inode[d] = {"type", "nlink", "ref", "data"} BY <1>0 DEF Fields
      <4> QED BY <4>1, <3>1
    <3>3. Fields(M)
      <4>1. \A x \in Inums : DOMAIN M.inode[x] = {"type", "nlink", "ref", "data"}
        BY <3>1, <3>2, <1>0 DEF Fields
      <4> QED BY <4>1, <3>1, <1>0 DEF Fields
    <3>4. dirlookup(M, d, name) = 0
      <4>1. dirlookup(M, d, name) = dirlookup(K, d, name) BY <3>2 DEF dirlookup
      <4> QED BY <4>1
    <3>5. /\ R.r = 0 /\ KInv(R.k, new, 0) /\ R.k.proc = K.proc /\ R.k.inode[new].type = type
          /\ Grown(K, R.k, d, new, type)
      <4>1. Made(K, M, d, new, type) BY <3>1, <3>2 DEF Made
      <4> QED BY <4>1, <3>3, <3>4, <2>2, <2>4, <1>5, <1>a, MadeKeeps DEF R
    <3>6. Created(c, K, type) BY <3>5, <2>1, <2>2 DEF Created
    <3> QED BY <3>5, <3>6, <2>1, <2>2
  <2> QED BY <2>3, <2>4
<1> QED BY <1>3, <1>4, <1>5

LEMMA NewInodeKeeps ==
  ASSUME NEW K, KInv(K, 0, 0), NEW d \in Inums, K.inode[d].type = "DIR",
         NEW name \in Strings, NEW type \in Kinds \ {"NONE"}, dirlookup(K, d, name) = 0
  PROVE  LET c == newInode(K, d, name, type, ialloc(K))
         IN  /\ Created(c, K, type)
             /\ \/ Astray(c.k) \/ Stopped(c, K)
                \/ c = Panic(K, "ialloc: no inodes") /\ ialloc(K) = 0
                \/ c.r > 0 /\ Grown(K, c.k, d, ialloc(K), type)
<1> DEFINE new == ialloc(K)
           c == newInode(K, d, name, type, new)
           m == Making(K, d, name, type, new)
<1>1. \/ c = m \/ (c = Panic(K, "dirlink") /\ FullDir(K, d)) \/ Stopped(c, K)
  BY NewInodeIs
<1>2. IsDir(K, d) BY KernelSizes DEF IsDir
<1>3. /\ Created(m, K, type)
      /\ \/ Astray(m.k)
         \/ m = Panic(K, "ialloc: no inodes") /\ new = 0
         \/ m.r > 0 /\ Grown(K, m.k, d, new, type)
  BY MakingKeeps
<1> HIDE DEF c, m
<1>4. c = m \/ Stopped(c, K) BY <1>1, <1>2 DEF Stopped, Stuffed
<1>5. Stopped(c, K) => Created(c, K, type)
  <2>1. SUFFICES ASSUME Stopped(c, K) PROVE Created(c, K, type) OBVIOUS
  <2>2. KInv(c.k, 0, 0) /\ c.r = -1 BY <2>1, StoppedKeeps
  <2> QED BY <2>2 DEF Created, Good
<1>6. Created(c, K, type) BY <1>3, <1>4, <1>5
<1>7. \/ Astray(c.k) \/ Stopped(c, K)
      \/ c = Panic(K, "ialloc: no inodes") /\ new = 0
      \/ c.r > 0 /\ Grown(K, c.k, d, new, type)
  BY <1>3, <1>4
<1> QED BY <1>6, <1>7 DEF c

LEMMA CreateInIs ==
  ASSUME NEW K, NEW d, NEW name, NEW type
  PROVE  LET e == dirlookup(K, d, name)
             i == K.inode[d].data[e][2]
             c == createIn(K, d, name, type)
         IN  \/ c = Ret(K, 0) \/ Stopped(c, K)
             \/ d # 0 /\ e = 0 /\ c = newInode(K, d, name, type, ialloc(K))
             \/ d # 0 /\ e # 0 /\ K.inode[i].type = "NONE" /\ c = Panic(K, "ilock: no type")
             \/ d # 0 /\ e # 0 /\ K.inode[i].type = "FILE" /\ c = Ret(iget(K, i), i)
<1> DEFINE e == dirlookup(K, d, name)
           i == K.inode[d].data[e][2]
           c == createIn(K, d, name, type)
<1>1. \/ c = Ret(K, 0) \/ (Uncached(K, {d}, i) /\ c = Panic(K, "iget: no inodes"))
      \/ d # 0 /\ e = 0 /\ c = newInode(K, d, name, type, ialloc(K))
      \/ d # 0 /\ e # 0 /\ K.inode[i].type = "NONE" /\ c = Panic(K, "ilock: no type")
      \/ d # 0 /\ e # 0 /\ K.inode[i].type = "FILE" /\ c = Ret(iget(K, i), i)
  BY DEF createIn
<1>2. Uncached(K, {d}, i) => Crammed(K)
  <2>1. {d} \in SUBSET {d, d} OBVIOUS
  <2> HIDE DEF i
  <2> QED BY <2>1, CacheFull
<1> HIDE DEF c, i, e
<1>3. \/ c = Ret(K, 0) \/ Stopped(c, K)
      \/ d # 0 /\ e = 0 /\ c = newInode(K, d, name, type, ialloc(K))
      \/ d # 0 /\ e # 0 /\ K.inode[i].type = "NONE" /\ c = Panic(K, "ilock: no type")
      \/ d # 0 /\ e # 0 /\ K.inode[i].type = "FILE" /\ c = Ret(iget(K, i), i)
  BY <1>1, <1>2 DEF Stopped
<1> QED BY <1>3, Zenon DEF c, i, e

LEMMA CreateIs ==
  ASSUME NEW K, NEW p, NEW path, NEW type
  PROVE  LET R == create(K, p, path, type)
         IN  \/ R = createIn(K, nameiparent(K, p, path), LastName(path), type)
             \/ R = Panic(K, "ilock: no type") /\ DanglingParent(K, p, path)
             \/ Stopped(R, K)
<1> DEFINE next == createIn(K, nameiparent(K, p, path), LastName(path), type)
<1>1. create(K, p, path, type) = Walk(K, p, path, Elements(path) - 1, {}, next) BY DEF create
<1>2. {} \in SUBSET {0} OBVIOUS
<1> HIDE DEF next
<1>3. LET R == Walk(K, p, path, Elements(path) - 1, {}, next)
      IN  \/ R = next
          \/ R = Panic(K, "ilock: no type") /\ Dangling(K, p, path, Elements(path) - 1)
          \/ Stopped(R, K)
  BY <1>2, WalkIs
<1> QED BY <1>1, <1>3 DEF DanglingParent, next

LEMMA CreateInKeeps ==
  ASSUME NEW K, KInv(K, 0, 0), NEW d \in Inums \cup {0},
         d # 0 => K.inode[d].type = "DIR", NEW name, d # 0 => name \in Strings,
         NEW type \in Kinds \ {"NONE"}
  PROVE  Created(createIn(K, d, name, type), K, type)
<1> DEFINE e == dirlookup(K, d, name)
           i == K.inode[d].data[e][2]
           c == createIn(K, d, name, type)
<1>1. \/ c = Ret(K, 0) \/ Stopped(c, K)
      \/ d # 0 /\ e = 0 /\ c = newInode(K, d, name, type, ialloc(K))
      \/ c = Panic(K, "ilock: no type")
      \/ d # 0 /\ e # 0 /\ K.inode[i].type = "FILE" /\ c = Ret(iget(K, i), i)
  BY CreateInIs
<1> HIDE DEF c
<1>2. CASE c = Ret(K, 0)
  <2>1. c.r = 0 /\ c.k = K BY <1>2 DEF Ret
  <2>2. Created(c, K, type) BY <2>1 DEF Created, Good
  <2> QED BY <2>2 DEF c
<1>3. CASE d # 0 /\ e = 0 /\ c = newInode(K, d, name, type, ialloc(K))
  <2>1. Created(c, K, type) BY <1>3, NewInodeKeeps
  <2> QED BY <2>1 DEF c
<1>4. CASE c = Panic(K, "ilock: no type")
  <2>1. KInv(c.k, 0, 0) /\ c.r = -1 BY <1>4, PanicKeeps
  <2>2. Created(c, K, type) BY <2>1 DEF Created, Good
  <2> QED BY <2>2 DEF c
<1>5. CASE d # 0 /\ e # 0 /\ K.inode[i].type = "FILE" /\ c = Ret(iget(K, i), i)
  <2>1. c.k = iget(K, i) /\ c.r = i BY <1>5 DEF Ret
  <2>2. K.inode[d].data \in Seq(Dirents) BY <1>5 DEF KInv, Dirs
  <2>3. i \in Inums BY <2>2, <1>5, EntryFound
  <2>4. i \in Int /\ i > 0 BY <2>3 DEF Inums
  <2>5. K.inode[i].type = "FILE" BY <1>5
  <2> HIDE DEF i
  <2>6. KInv(iget(K, i), i, 0) /\ Rest(iget(K, i), K) /\ TY(iget(K, i)) = TY(K)
    BY <2>3, <2>5, IgetKeeps
  <2>7. iget(K, i).inode[i].type = "FILE"
    <3>1. TY(iget(K, i))[i] = TY(K)[i] BY <2>6
    <3> QED BY <3>1, <2>3, <2>5 DEF TY
  <2>8. Created(c, K, type) BY <2>1, <2>3, <2>4, <2>6, <2>7 DEF Created, Rest
  <2> QED BY <2>8 DEF c
<1>6. CASE Stopped(c, K)
  <2>1. KInv(c.k, 0, 0) /\ c.r = -1 BY <1>6, StoppedKeeps
  <2>2. Created(c, K, type) BY <2>1 DEF Created, Good
  <2> QED BY <2>2 DEF c
<1> QED BY <1>1, <1>2, <1>3, <1>4, <1>5, <1>6

LEMMA CreateKeeps ==
  ASSUME NEW K, KInv(K, 0, 0), NEW p \in Procs, K.proc[p].state = "LIVE",
         NEW path \in Seq(Strings), NEW type \in Kinds \ {"NONE"}
  PROVE  Created(create(K, p, path, type), K, type)
<1> DEFINE d == nameiparent(K, p, path)
           name == LastName(path)
           c == create(K, p, path, type)
<1>1. c = createIn(K, d, name, type) \/ c = Panic(K, "ilock: no type") \/ Stopped(c, K)
  BY CreateIs
<1>2. d # 0 => d \in Inums /\ K.inode[d].type = "DIR" /\ name \in Strings BY PathTyped
<1> HIDE DEF d, name, c
<1>3. d \in Inums \cup {0} BY <1>2
<1>4. Created(createIn(K, d, name, type), K, type) BY <1>2, <1>3, CreateInKeeps
<1>5. ASSUME c = Panic(K, "ilock: no type") \/ Stopped(c, K) PROVE Created(c, K, type)
  <2>1. KInv(c.k, 0, 0) /\ c.r = -1 BY <1>5, PanicKeeps, StoppedKeeps
  <2> QED BY <2>1 DEF Created, Good
<1>6. Created(c, K, type) BY <1>1, <1>4, <1>5
<1> QED BY <1>6 DEF c

LEMMA GoodPut ==
  ASSUME NEW K, NEW i \in Inums, Good(K, i)
  PROVE  Good(iput(K, i), 0)
<1>1. CASE Astray(K)
  <2>1. \/ iput(K, i) = [K EXCEPT !.inode[i] = NoInode]
        \/ iput(K, i) = [K EXCEPT !.inode[i].ref = @ - 1]
    BY DEF iput
  <2> QED BY <2>1, <1>1 DEF Astray, Good
<1>2. CASE KInv(K, i, 0) BY <1>2, IputKeeps DEF Good
<1> QED BY <1>1, <1>2 DEF Good

LEMMA MknodCall ==
  ASSUME NEW K, KInv(K, 0, 0), NEW p \in Procs, K.proc[p].state = "LIVE",
         NEW path \in Seq(Strings), NEW type \in Kinds \ {"NONE"}
  PROVE  Good(sys_mknod(K, p, path, type).k, 0)
<1> DEFINE c == create(K, p, path, type)
<1>1. sys_mknod(K, p, path, type).k = IF c.r <= 0 THEN c.k ELSE iput(c.k, c.r)
  BY DEF sys_mknod, Fail, Ret
<1>2. Created(c, K, type) BY CreateKeeps
<1> HIDE DEF c
<1>3. CASE c.r <= 0 BY <1>1, <1>2, <1>3 DEF Created
<1>4. CASE ~(c.r <= 0)
  <2>1. c.r > 0 BY <1>2, <1>4 DEF Created
  <2>2. c.r \in Inums /\ Good(c.k, c.r) BY <2>1, <1>2 DEF Created, Good
  <2>3. Good(iput(c.k, c.r), 0) BY <2>2, GoodPut
  <2> QED BY <2>3, <1>1, <1>4
<1> QED BY <1>3, <1>4

LEMMA OpenInodeStrays ==
  ASSUME NEW K, Astray(K), NEW p, NEW i, NEW flags
  PROVE  Astray(openInode(K, p, i, flags).k)
<1> DEFINE f == filealloc(K)
           fd == fdalloc(K, p)
           o == [ref |-> 1, type |-> "FD_INODE", ip |-> i, off |-> 0,
                 readable |-> "O_WRONLY" \notin flags,
                 writable |-> flags \cap {"O_WRONLY", "O_RDWR"} # {}]
<1>1. \/ openInode(K, p, i, flags).k = K
      \/ openInode(K, p, i, flags).k = [K EXCEPT !.inode[i] = NoInode]
      \/ openInode(K, p, i, flags).k = [K EXCEPT !.inode[i].ref = @ - 1]
      \/ openInode(K, p, i, flags).k = [K EXCEPT !.file[f] = o, !.proc[p].ofile[fd] = f]
  BY DEF openInode, Fail, Ret, iput
<1> HIDE DEF f, fd, o
<1>2. CASE openInode(K, p, i, flags).k = K BY <1>2
<1>3. CASE openInode(K, p, i, flags).k = [K EXCEPT !.inode[i] = NoInode] BY <1>3 DEF Astray
<1>4. CASE openInode(K, p, i, flags).k = [K EXCEPT !.inode[i].ref = @ - 1] BY <1>4 DEF Astray
<1>5. CASE openInode(K, p, i, flags).k = [K EXCEPT !.file[f] = o, !.proc[p].ofile[fd] = f]
  BY <1>5 DEF Astray
<1> QED BY <1>1, <1>2, <1>3, <1>4, <1>5

\* open() without O_CREATE.
LEMMA OpenIs ==
  ASSUME NEW K, NEW p, NEW path, NEW flags, "O_CREATE" \notin flags
  PROVE  LET R == sys_open(K, p, path, flags)
             o == openFound(K, namei(K, p, path), flags)
         IN  \/ R = openInode(o.k, p, o.r, flags) /\ ~DanglingLast(K, p, path)
             \/ R = Panic(K, "ilock: no type") /\ DanglingLast(K, p, path)
             \/ Stopped(R, K)
<1> DEFINE o == openFound(K, namei(K, p, path), flags)
           next == openInode(o.k, p, o.r, flags)
<1>1. sys_open(K, p, path, flags) = Walk(K, p, path, Elements(path), {}, next) BY DEF sys_open
<1>2. {} \in SUBSET {0} OBVIOUS
<1> HIDE DEF next
<1>3. LET R == Walk(K, p, path, Elements(path), {}, next)
      IN  \/ R = next /\ ~Dangling(K, p, path, Elements(path))
          \/ R = Panic(K, "ilock: no type") /\ Dangling(K, p, path, Elements(path))
          \/ Stopped(R, K)
  BY <1>2, WalkIs
<1> QED BY <1>1, <1>3 DEF DanglingLast, next

LEMMA OpenCall ==
  ASSUME NEW K, KInv(K, 0, 0), NEW p \in Procs, K.proc[p].state = "LIVE",
         NEW path \in Seq(Strings), NEW flags
  PROVE  Good(sys_open(K, p, path, flags).k, 0)
<1>1. CASE "O_CREATE" \in flags
  <2> DEFINE type == IF "O_CHECKED" \in flags THEN "CHECKED" ELSE "FILE"
             c == create(K, p, path, type)
  <2>1. sys_open(K, p, path, flags) = openInode(c.k, p, c.r, flags) BY <1>1 DEF sys_open
  <2>2. type \in Kinds \ {"NONE"} /\ type # "DIR" BY DEF Kinds
  <2> HIDE DEF type
  <2>3. Created(c, K, type) BY <2>2, CreateKeeps
  <2> HIDE DEF c
  <2>4. CASE c.r <= 0
    <3>1. openInode(c.k, p, c.r, flags).k = c.k BY <2>4 DEF openInode, Fail, Ret
    <3> QED BY <3>1, <2>1, <2>3, <2>4 DEF Created
  <2>5. CASE ~(c.r <= 0)
    <3>1. c.r > 0 BY <2>3, <2>5 DEF Created
    <3>2. CASE Astray(c.k) BY <3>2, <2>1, OpenInodeStrays DEF Good
    <3>3. CASE ~Astray(c.k)
      <4>1. /\ c.r \in Inums /\ KInv(c.k, c.r, 0) /\ c.k.proc = K.proc /\ c.k.inode[c.r].type # "DIR"
        BY <3>1, <3>3, <2>2, <2>3 DEF Created
      <4>2. KInv(openInode(c.k, p, c.r, flags).k, 0, 0) BY <4>1, OpenInodeKeeps
      <4> QED BY <4>2, <2>1 DEF Good
    <3> QED BY <3>2, <3>3
  <2> QED BY <2>4, <2>5
<1>2. ASSUME sys_open(K, p, path, flags) = Panic(K, "ilock: no type") \/ Stopped(sys_open(K, p, path, flags), K)
      PROVE  Good(sys_open(K, p, path, flags).k, 0)
  <2>1. KInv(sys_open(K, p, path, flags).k, 0, 0) BY <1>2, PanicKeeps, StoppedKeeps
  <2> QED BY <2>1 DEF Good
<1> DEFINE o == openFound(K, namei(K, p, path), flags)
<1>3. CASE ~DanglingLast(K, p, path) /\ sys_open(K, p, path, flags) = openInode(o.k, p, o.r, flags)
  <2> DEFINE i == namei(K, p, path)
             c == openFound(K, i, flags)
  <2>1. sys_open(K, p, path, flags) = openInode(c.k, p, c.r, flags) BY <1>3
  <2>2. i \in Inums \cup {0} /\ (i # 0 => K.inode[i].type # "NONE") BY <1>3, PathTyped
  <2> HIDE DEF i
  <2>3. CASE i = 0 \/ (IsDir(K, i) /\ flags # {})
    <3>1. c.k = K /\ c.r = 0 BY <2>3 DEF openFound, Ret
    <3>2. openInode(c.k, p, c.r, flags).k = K BY <3>1 DEF openInode, Fail, Ret
    <3> QED BY <3>2, <2>1 DEF Good
  <2>4. CASE ~(i = 0 \/ (IsDir(K, i) /\ flags # {}))
    <3>1. c.k = iget(K, i) /\ c.r = i BY <2>4 DEF openFound, Ret
    <3>2. i \in Inums /\ K.inode[i].type # "NONE" BY <2>2, <2>4
    <3>3. KInv(iget(K, i), i, 0) /\ Rest(iget(K, i), K) /\ TY(iget(K, i)) = TY(K)
      BY <3>2, IgetKeeps
    <3>4. flags # {} => iget(K, i).inode[i].type # "DIR"
      <4>1. TY(iget(K, i))[i] = TY(K)[i] BY <3>3
      <4>2. flags # {} => K.inode[i].type # "DIR" BY <2>4 DEF IsDir
      <4> QED BY <4>1, <4>2, <3>2 DEF TY
    <3>5. iget(K, i).proc[p].state = "LIVE" BY <3>3 DEF Rest
    <3>6. KInv(openInode(iget(K, i), p, i, flags).k, 0, 0) BY <3>2, <3>3, <3>4, <3>5, OpenInodeKeeps
    <3> QED BY <3>1, <3>6, <2>1 DEF Good
  <2> QED BY <2>3, <2>4
<1> QED BY <1>1, <1>2, <1>3, OpenIs

LEMMA LinkCallIs ==
  ASSUME NEW K, NEW p, NEW old, NEW new
  PROVE  LET R == sys_link(K, p, old, new)
             i == namei(K, p, old)
         IN  \/ R.k = K \/ Stopped(R, K)
             \/ R = Panic(K, "ilock: no type") /\ (DanglingLast(K, p, old) \/ DanglingParent(K, p, new))
             \/ /\ ~DanglingLast(K, p, old) /\ i # 0 /\ ~IsDir(K, i)
                /\ R = linkTo(K, i, nameiparent(K, p, new), LastName(new))
<1> DEFINE R == sys_link(K, p, old, new)
           i == namei(K, p, old)
           next == linkTo(K, i, nameiparent(K, p, new), LastName(new))
           W == Walk(K, p, new, Elements(new) - 1, {i}, next)
           S == linkFrom(K, p, i, new)
<1>1. R = Walk(K, p, old, Elements(old), {}, S) BY DEF sys_link
<1>2. S.k = K \/ (i # 0 /\ ~IsDir(K, i) /\ S = W) BY DEF linkFrom, Fail, Ret
<1>3. {} \in SUBSET {0} /\ {i} \in SUBSET {i} OBVIOUS
<1> HIDE DEF R, S, i, next
<1>4. \/ R = S /\ ~Dangling(K, p, old, Elements(old))
      \/ R = Panic(K, "ilock: no type") /\ Dangling(K, p, old, Elements(old))
      \/ Stopped(R, K)
  <2> DEFINE V == Walk(K, p, old, Elements(old), {}, S)
  <2>1. \/ V = S /\ ~Dangling(K, p, old, Elements(old))
        \/ V = Panic(K, "ilock: no type") /\ Dangling(K, p, old, Elements(old))
        \/ Stopped(V, K)
    BY <1>3, WalkIs
  <2> HIDE DEF V
  <2> QED BY <2>1, <1>1 DEF V
<1>5. \/ W = next
      \/ W = Panic(K, "ilock: no type") /\ Dangling(K, p, new, Elements(new) - 1)
      \/ Stopped(W, K)
  BY <1>3, WalkIs
<1> HIDE DEF W
<1>6. \/ R.k = K \/ Stopped(R, K)
      \/ R = Panic(K, "ilock: no type") /\ (DanglingLast(K, p, old) \/ DanglingParent(K, p, new))
      \/ ~DanglingLast(K, p, old) /\ i # 0 /\ ~IsDir(K, i) /\ R = next
  BY <1>2, <1>4, <1>5 DEF DanglingLast, DanglingParent
<1> QED BY <1>6 DEF R, i, next

LEMMA LinkCall ==
  ASSUME NEW K, KInv(K, 0, 0), NEW p \in Procs, K.proc[p].state = "LIVE",
         NEW old \in Seq(Strings), NEW new \in Seq(Strings)
  PROVE  Good(sys_link(K, p, old, new).k, 0)
<1> DEFINE i == namei(K, p, old)
           d == nameiparent(K, p, new)
           name == LastName(new)
           R == sys_link(K, p, old, new)
<1>1. \/ R.k = K \/ Stopped(R, K) \/ R = Panic(K, "ilock: no type")
      \/ ~DanglingLast(K, p, old) /\ i # 0 /\ ~IsDir(K, i) /\ R = linkTo(K, i, d, name)
  BY LinkCallIs
<1>2. i \in Inums \cup {0} /\ (~DanglingLast(K, p, old) /\ i # 0 => K.inode[i].type # "NONE") BY PathTyped
<1>3. d # 0 => d \in Inums /\ K.inode[d].type = "DIR" /\ name \in Strings BY PathTyped
<1> HIDE DEF i, d, name, R
<1>4. d \in Inums \cup {0} BY <1>3
<1>5. ASSUME R.k = K \/ R = Panic(K, "ilock: no type") \/ Stopped(R, K) PROVE Good(R.k, 0)
  <2>1. KInv(R.k, 0, 0) BY <1>5, PanicKeeps, StoppedKeeps
  <2> QED BY <2>1 DEF Good
<1>6. ASSUME ~DanglingLast(K, p, old), i # 0, ~IsDir(K, i), R = linkTo(K, i, d, name) PROVE Good(R.k, 0)
  <2>1. i \in Inums /\ K.inode[i].type \notin {"NONE", "DIR"} BY <1>2, <1>6 DEF IsDir
  <2>2. Good(Linking(K, i, d, name).k, 0) BY <2>1, <1>3, <1>4, LinkKeeps
  <2>3. R = Linking(K, i, d, name) \/ R = Panic(K, "dirlink") \/ Stopped(R, K) BY <1>6, LinkIs
  <2>4. ASSUME R = Panic(K, "dirlink") \/ Stopped(R, K) PROVE Good(R.k, 0)
    <3>1. KInv(R.k, 0, 0) BY <2>4, PanicKeeps, StoppedKeeps
    <3> QED BY <3>1 DEF Good
  <2> QED BY <2>2, <2>3, <2>4
<1>7. Good(R.k, 0) BY <1>1, <1>5, <1>6
<1> QED BY <1>7 DEF R

LEMMA UnlinkWalk ==
  ASSUME NEW K, NEW p, NEW path
  PROVE  LET d == nameiparent(K, p, path)
             name == LastName(path)
             R == sys_unlink(K, p, path)
         IN  \/ R.k = K \/ Stopped(R, K)
             \/ R = Panic(K, "ilock: no type") /\ DanglingParent(K, p, path)
             \/ d # 0 /\ name # "." /\ name # ".." /\ R = unlinkAt(K, d, dirlookup(K, d, name))
<1> DEFINE d == nameiparent(K, p, path)
           name == LastName(path)
           U == unlinkAt(K, d, dirlookup(K, d, name))
           next == IF d = 0 \/ name \in {".", ".."} THEN Fail(K) ELSE U
           R == sys_unlink(K, p, path)
<1>1. R = Walk(K, p, path, Elements(path) - 1, {}, next) BY Zenon DEF sys_unlink
<1>2. {} \in SUBSET {0} OBVIOUS
<1>3. next.k = K \/ (d # 0 /\ name # "." /\ name # ".." /\ next = U)
  <2> HIDE DEF U, d, name
  <2> QED BY DEF Fail, Ret
<1> HIDE DEF next, d, name, U, R
<1>4. LET W == Walk(K, p, path, Elements(path) - 1, {}, next)
      IN  \/ W = next
          \/ W = Panic(K, "ilock: no type") /\ Dangling(K, p, path, Elements(path) - 1)
          \/ Stopped(W, K)
  BY <1>2, WalkIs
<1>5. \/ R.k = K \/ Stopped(R, K)
      \/ R = Panic(K, "ilock: no type") /\ DanglingParent(K, p, path)
      \/ d # 0 /\ name # "." /\ name # ".." /\ R = U
  BY <1>1, <1>3, <1>4 DEF DanglingParent
<1> QED BY <1>5, Zenon DEF d, name, U, R

LEMMA UnlinkIs ==
  ASSUME NEW K, KInv(K, 0, 0), NEW p \in Procs, K.proc[p].state = "LIVE",
         NEW path \in Seq(Strings)
  PROVE  LET R == sys_unlink(K, p, path)
         IN  \/ R.k = K \/ Stopped(R, K)
             \/ DanglingParent(K, p, path) /\ R = Panic(K, "ilock: no type")
             \/ \E d \in Inums, e \in Nat : /\ K.inode[d].type = "DIR" /\ e \in 3..Len(K.inode[d].data)
                                            /\ K.inode[d].data[e][2] \in Inums
                                            /\ R = Unlinking(K, d, e)
<1> DEFINE d == nameiparent(K, p, path)
           name == LastName(path)
           e == dirlookup(K, d, name)
           R == sys_unlink(K, p, path)
<1>1. \/ R.k = K \/ Stopped(R, K)
      \/ DanglingParent(K, p, path) /\ R = Panic(K, "ilock: no type")
      \/ d # 0 /\ name # "." /\ name # ".." /\ R = unlinkAt(K, d, e)
  BY UnlinkWalk
<1>p. d # 0 => d \in Inums /\ K.inode[d].type = "DIR" /\ name \in Strings BY PathTyped
<1> HIDE DEF d, name, R
<1>2. SUFFICES ASSUME d # 0 /\ name # "." /\ name # ".." /\ R = Unlinking(K, d, e),
                      e # 0
               PROVE  /\ d \in Inums /\ e \in Nat /\ K.inode[d].type = "DIR" /\ e \in 3..Len(K.inode[d].data)
                      /\ K.inode[d].data[e][2] \in Inums
  <2> HIDE DEF e
  <2>1. e = 0 => Unlinking(K, d, e).k = K
    <3>1. e = 0 => Unlinking(K, d, e) = Fail(K) BY Zenon DEF Unlinking
    <3> QED BY <3>1 DEF Fail, Ret
  <2>2. unlinkAt(K, d, e) = Unlinking(K, d, e) \/ Stopped(unlinkAt(K, d, e), K) BY UnlinkAtIs
  <2> QED BY <2>1, <2>2, <1>1 DEF R
<1>3. d \in Inums /\ K.inode[d].type = "DIR" BY <1>2, <1>p
<1>4. /\ K.inode[d].data \in Seq(Dirents) /\ Len(K.inode[d].data) >= 2
      /\ K.inode[d].data[1][1] = "." /\ K.inode[d].data[2][1] = ".."
  BY <1>3 DEF KInv, Dirs
<1>5. /\ e \in 1..Len(K.inode[d].data) /\ K.inode[d].data[e][2] \in Inums
      /\ namecmp(name, K.inode[d].data[e][1])
  BY <1>2, <1>4, EntryFound
<1> HIDE DEF e
<1>6. e # 1 /\ e # 2
  <2>1. ~namecmp(name, ".") /\ ~namecmp(name, "..") BY <1>2 DEF namecmp
  <2> QED BY <2>1, <1>4, <1>5
<1>7. e \in 3..Len(K.inode[d].data) /\ e \in Nat BY <1>4, <1>5, <1>6
<1> QED BY <1>3, <1>5, <1>7

LEMMA UnlinkCall ==
  ASSUME NEW K, KInv(K, 0, 0), NEW p \in Procs, K.proc[p].state = "LIVE",
         NEW path \in Seq(Strings)
  PROVE  KInv(sys_unlink(K, p, path).k, 0, 0)
<1> DEFINE R == sys_unlink(K, p, path)
<1>1. CASE R = Panic(K, "ilock: no type") BY <1>1, PanicKeeps
<1>2. CASE R.k = K BY <1>2
<1>3. ASSUME NEW d \in Inums, NEW e \in Nat, K.inode[d].type = "DIR", e \in 3..Len(K.inode[d].data),
             K.inode[d].data[e][2] \in Inums, R = Unlinking(K, d, e)
      PROVE  KInv(R.k, 0, 0)
  <2>1. KInv(Unlinking(K, d, e).k, 0, 0) BY <1>3, UnlinkAtKeeps
  <2> HIDE DEF R
  <2> QED BY <2>1, <1>3
<1>4. ASSUME Stopped(R, K) PROVE KInv(R.k, 0, 0)
  <2> HIDE DEF R
  <2> QED BY <1>4, StoppedKeeps
<1> QED BY <1>1, <1>2, <1>3, <1>4, UnlinkIs
-----------------------------------------------------------------------------
(* Working directories.                                                    *)

\* iput() looks at nothing but the inodes.
LEMMA IputOf ==
  ASSUME NEW K, NEW K2, Fields(K), Fields(K2), K2.inode = K.inode, NEW i
  PROVE  iput(K2, i).inode = iput(K, i).inode
<1>1. ASSUME NEW C, Fields(C)
      PROVE  iput(C, i).inode = IF C.inode[i].ref = 1 /\ C.inode[i].nlink = 0
                                THEN [C.inode EXCEPT ![i] = NoInode] ELSE [C.inode EXCEPT ![i].ref = @ - 1]
  BY <1>1 DEF iput, Fields
<1> QED BY <1>1

\* The reference in hand becomes the directory of p, whose old one is in hand.
LEMMA CwdMoves ==
  ASSUME NEW K, NEW i \in Inums, KInv(K, i, 0), NEW p \in Procs, K.proc[p].state = "LIVE",
         NEW K2, Fields(K2), K2.inode = K.inode, K2.file = K.file, K2.pipe = K.pipe, K2.free = K.free,
         \A q \in Procs \ {p} : K2.proc[q] = K.proc[q],
         K2.proc[p].state = "LIVE", K2.proc[p].cwd = i, K2.proc[p].sz = K.proc[p].sz,
         K2.proc[p].ofile = K.proc[p].ofile
  PROVE  KInv(K2, K.proc[p].cwd, 0)
<1> DEFINE old == K.proc[p].cwd
           P == K.proc
           P2 == K2.proc
<1>0. Referred(TY(K), NL(K), RF(K), K.file, P, i) BY DEF KInv
<1>1. /\ TY(K2) = TY(K) /\ NL(K2) = NL(K) /\ RF(K2) = RF(K) /\ NM(K2) = NM(K) /\ TG(K2) = TG(K)
      /\ Dirs(K2)
  BY SameInodes DEF KInv
<1>2. old \in Inums /\ TY(K)[old] # "NONE" /\ TY(K)[i] # "NONE" BY <1>0, KernelSizes DEF Referred
<1>3. \A f : FdsOf(P2, f) = FdsOf(P, f)
  <2>1. \A q \in Procs : P2[q].state = P[q].state /\ P2[q].ofile = P[q].ofile OBVIOUS
  <2> QED BY <2>1 DEF FdsOf
<1>4. Counted(K2.file, P2, 0)
  <2>1. Counted(K.file, P, 0) BY DEF KInv
  <2> QED BY <2>1, <1>3 DEF Counted
<1>5. Paid(P2, K2.free)
  <2>1. \A q \in Procs : P2[q].state = P[q].state /\ P2[q].sz = P[q].sz OBVIOUS
  <2>2. PagesOf(P2) = PagesOf(P) BY <2>1 DEF PagesOf
  <2>3. Paid(P, K.free) BY DEF KInv
  <2> QED BY <2>1, <2>2, <2>3 DEF Paid
<1>6. ASSUME NEW j \in Inums
      PROVE  Cardinality(CwdOf(P2, j)) + Hand(old, j) = Cardinality(CwdOf(P, j)) + Hand(i, j)
  <2>0. IsFiniteSet(CwdOf(P, j)) /\ Cardinality(CwdOf(P, j)) \in Nat BY FiniteRefs
  <2>h. Hand(old, j) = (IF j = old THEN 1 ELSE 0) /\ Hand(i, j) = (IF j = i THEN 1 ELSE 0) BY DEF Hand
  <2>1. CASE j = i /\ j = old
    <3>1. CwdOf(P2, j) = CwdOf(P, j) BY <2>1 DEF CwdOf
    <3> QED BY <3>1, <2>0, <2>h, <2>1
  <2>2. CASE j = i /\ j # old
    <3>1. CwdOf(P2, j) = CwdOf(P, j) \cup {p} BY <2>2 DEF CwdOf
    <3>2. p \notin CwdOf(P, j) BY <2>2 DEF CwdOf
    <3>3. Cardinality(CwdOf(P, j) \cup {p}) = Cardinality(CwdOf(P, j)) + 1 BY <3>2, <2>0, FS_AddElement
    <3>4. Cardinality(CwdOf(P2, j)) = Cardinality(CwdOf(P, j)) + 1 BY <3>1, <3>3, Zenon
    <3> QED BY <3>4, <2>0, <2>h, <2>2
  <2>3. CASE j # i /\ j = old
    <3>1. CwdOf(P2, j) = CwdOf(P, j) \ {p} BY <2>3 DEF CwdOf
    <3>2. p \in CwdOf(P, j) BY <2>3 DEF CwdOf
    <3>3. Cardinality(CwdOf(P, j) \ {p}) = Cardinality(CwdOf(P, j)) - 1 BY <3>2, <2>0, FS_RemoveElement
    <3>4. Cardinality(CwdOf(P2, j)) = Cardinality(CwdOf(P, j)) - 1 BY <3>1, <3>3, Zenon
    <3> QED BY <3>4, <2>0, <2>h, <2>3
  <2>4. CASE j # i /\ j # old
    <3>1. CwdOf(P2, j) = CwdOf(P, j) BY <2>4 DEF CwdOf
    <3> QED BY <3>1, <2>0, <2>h, <2>4
  <2> QED BY <2>1, <2>2, <2>3, <2>4
<1>7. Referred(TY(K), NL(K), RF(K), K.file, P2, old)
  <2>1. ASSUME NEW j \in Inums, TY(K)[j] # "NONE"
        PROVE  RF(K)[j] = Cardinality(OpenOf(K.file, j)) + Cardinality(CwdOf(P2, j)) + Hand(old, j)
    <3>1. RF(K)[j] = Cardinality(OpenOf(K.file, j)) + Cardinality(CwdOf(P, j)) + Hand(i, j)
      BY <2>1, <1>0 DEF Referred
    <3>2. /\ Cardinality(OpenOf(K.file, j)) \in Nat /\ Cardinality(CwdOf(P, j)) \in Nat
          /\ Cardinality(CwdOf(P2, j)) \in Nat
      BY FiniteRefs
    <3>3. Hand(old, j) \in Nat /\ Hand(i, j) \in Nat BY DEF Hand
    <3> HIDE DEF old, P, P2
    <3> QED BY <3>1, <3>2, <3>3, <1>6
  <2>2. \A q \in Procs : P2[q].state = "LIVE" => P2[q].cwd \in Inums /\ TY(K)[P2[q].cwd] # "NONE"
    BY <1>0, <1>2 DEF Referred
  <2> QED BY <2>1, <2>2, <1>0, <1>2 DEF Referred
<1> QED BY <1>1, <1>4, <1>5, <1>7 DEF KInv

\* p changes its directory to i.
Moved(K, p, i) == [iput(iget(K, i), K.proc[p].cwd) EXCEPT !.proc[p].cwd = i]

LEMMA ChdirIs ==
  ASSUME NEW K, NEW p, NEW path
  PROVE  LET R == sys_chdir(K, p, path)
             i == namei(K, p, path)
         IN  \/ R.k = K \/ Stopped(R, K)
             \/ R = Panic(K, "ilock: no type") /\ DanglingLast(K, p, path)
             \/ ~DanglingLast(K, p, path) /\ IsDir(K, i) /\ R.k = Moved(K, p, i)
<1> DEFINE R == sys_chdir(K, p, path)
           i == namei(K, p, path)
           K2 == Moved(K, p, i)
           next == IF ~IsDir(K, i) THEN Fail(K) ELSE Ret(K2, 0)
<1>1. R = Walk(K, p, path, Elements(path), {}, next) BY Zenon DEF sys_chdir, Moved
<1>2. {} \in SUBSET {0} OBVIOUS
<1> HIDE DEF K2, i
<1>3. next.k = K \/ (IsDir(K, i) /\ next.k = K2) BY DEF Fail, Ret
<1> HIDE DEF next, R
<1>4. LET W == Walk(K, p, path, Elements(path), {}, next)
      IN  \/ W = next /\ ~Dangling(K, p, path, Elements(path))
          \/ W = Panic(K, "ilock: no type") /\ Dangling(K, p, path, Elements(path))
          \/ Stopped(W, K)
  BY <1>2, WalkIs
<1>5. \/ R.k = K \/ Stopped(R, K)
      \/ R = Panic(K, "ilock: no type") /\ DanglingLast(K, p, path)
      \/ ~DanglingLast(K, p, path) /\ IsDir(K, i) /\ R.k = K2
  BY <1>1, <1>3, <1>4 DEF DanglingLast
<1> QED BY <1>5, Zenon DEF R, i, K2

LEMMA ChdirCall ==
  ASSUME NEW K, KInv(K, 0, 0), NEW p \in Procs, K.proc[p].state = "LIVE", NEW path \in Seq(Strings)
  PROVE  KInv(sys_chdir(K, p, path).k, 0, 0)
<1> DEFINE R == sys_chdir(K, p, path)
<1>1. ASSUME R.k = K \/ Stopped(R, K) \/ R = Panic(K, "ilock: no type") PROVE KInv(R.k, 0, 0)
  <2> HIDE DEF R
  <2> QED BY <1>1, PanicKeeps, StoppedKeeps
<1> DEFINE i == namei(K, p, path)
<1>2. ASSUME ~DanglingLast(K, p, path), IsDir(K, i), R.k = Moved(K, p, i)
      PROVE  KInv(R.k, 0, 0)
  <2> DEFINE old == K.proc[p].cwd
             S == iget(K, i)
             K2 == [iput(S, old) EXCEPT !.proc[p].cwd = i]
             S2 == [S EXCEPT !.proc[p].cwd = i]
  <2>1. R.k = K2 BY <1>2 DEF Moved
  <2>2. i \in Inums \cup {0} /\ (i # 0 => K.inode[i].type # "NONE") BY <1>2, PathTyped
  <2> HIDE DEF i, R
  <2>4. KInv(K2, 0, 0)
    <3>1. i \in Inums /\ K.inode[i].type # "NONE" BY <2>2, <1>2 DEF IsDir
    <3>2. KInv(S, i, 0) /\ Rest(S, K) BY <3>1, IgetKeeps
    <3>3. old \in Inums BY DEF KInv, Referred
    <3>4. S.proc = K.proc BY <3>2 DEF Rest
    <3>5. Fields(S) BY <3>2 DEF KInv
    <3> HIDE DEF S, old
    <3>6. /\ S2.inode = S.inode /\ S2.file = S.file /\ S2.pipe = S.pipe /\ S2.free = S.free
          /\ S2.proc = [S.proc EXCEPT ![p].cwd = i] /\ DOMAIN S2 = DOMAIN S
      BY <3>5 DEF Fields
    <3> HIDE DEF S2
    <3>7. Fields(S2) BY <3>5, <3>6 DEF Fields
    <3>8. /\ \A q \in Procs \ {p} : S2.proc[q] = S.proc[q]
          /\ S2.proc[p].state = "LIVE" /\ S2.proc[p].cwd = i /\ S2.proc[p].sz = S.proc[p].sz
          /\ S2.proc[p].ofile = S.proc[p].ofile
      BY <3>4, <3>5, <3>6 DEF Fields
    <3>9. KInv(S2, old, 0)
      <4>1. S.proc[p].state = "LIVE" /\ S.proc[p].cwd = old BY <3>4 DEF old
      <4> QED BY <4>1, <3>1, <3>2, <3>6, <3>7, <3>8, CwdMoves
    <3>10. KInv(iput(S2, old), 0, 0) /\ Rest(iput(S2, old), S2) BY <3>3, <3>9, IputKeeps
    <3>11. iput(S2, old).inode = iput(S, old).inode BY <3>5, <3>6, <3>7, IputOf
    <3>12. /\ DOMAIN iput(S, old) = DOMAIN S /\ iput(S, old).file = S.file /\ iput(S, old).pipe = S.pipe
           /\ iput(S, old).free = S.free /\ iput(S, old).proc = S.proc
      BY <3>5 DEF iput, Fields
    <3>13. /\ K2.inode = iput(S, old).inode /\ K2.file = S.file /\ K2.pipe = S.pipe
           /\ K2.free = S.free /\ K2.proc = [S.proc EXCEPT ![p].cwd = i] /\ DOMAIN K2 = DOMAIN S
      BY <3>12, <3>5 DEF Fields
    <3> HIDE DEF K2
    <3>14. /\ K2.inode = iput(S2, old).inode /\ K2.file = iput(S2, old).file /\ K2.pipe = iput(S2, old).pipe
           /\ K2.free = iput(S2, old).free /\ K2.proc = iput(S2, old).proc
      BY <3>6, <3>10, <3>11, <3>13 DEF Rest
    <3>15. DOMAIN K2 = DOMAIN iput(S2, old) BY <3>10, <3>13, <3>5 DEF KInv, Fields
    <3> QED BY <3>10, <3>14, <3>15, SameParts
  <2> QED BY <2>1, <2>4
<1> QED BY <1>1, <1>2, ChdirIs

\* exec() walks the path.
LEMMA ExecIs ==
  ASSUME NEW K, NEW p, NEW path
  PROVE  LET R == sys_exec(K, p, path)
         IN  \/ R.k = K \/ Stopped(R, K)
             \/ R = Panic(K, "ilock: no type") /\ DanglingLast(K, p, path)
<1> DEFINE next == IF namei(K, p, path) = 0 THEN Fail(K) ELSE Ret(K, 0)
<1>1. sys_exec(K, p, path) = Walk(K, p, path, Elements(path), {}, next) BY Zenon DEF sys_exec
<1>2. {} \in SUBSET {0} OBVIOUS
<1>3. next.k = K BY DEF Fail, Ret
<1> HIDE DEF next
<1>4. LET R == Walk(K, p, path, Elements(path), {}, next)
      IN  \/ R = next
          \/ R = Panic(K, "ilock: no type") /\ Dangling(K, p, path, Elements(path))
          \/ Stopped(R, K)
  BY <1>2, WalkIs
<1> QED BY <1>1, <1>3, <1>4 DEF DanglingLast

LEMMA ExecCall ==
  ASSUME NEW K, NEW p, NEW path
  PROVE  /\ Astray(K) => Astray(sys_exec(K, p, path).k)
         /\ KInv(K, 0, 0) => KInv(sys_exec(K, p, path).k, 0, 0)
<1> DEFINE R == sys_exec(K, p, path)
<1>1. R.k = K \/ Stopped(R, K) \/ R = Panic(K, "ilock: no type") BY ExecIs
<1> HIDE DEF R
<1>2. (Astray(K) => Astray(R.k)) /\ (KInv(K, 0, 0) => KInv(R.k, 0, 0))
  BY <1>1, PanicKeeps, StoppedKeeps
<1> QED BY <1>2 DEF R
-----------------------------------------------------------------------------
(* Reading and writing.                                                    *)

\* Data, offsets and the flags of processes are not counted.
LEMMA DataKeeps ==
  ASSUME NEW K, KInv(K, 0, 0), NEW K2, Fields(K2), K2.free = K.free,
         \A x \in Inums : /\ K2.inode[x].type = K.inode[x].type /\ K2.inode[x].nlink = K.inode[x].nlink
                          /\ K2.inode[x].ref = K.inode[x].ref
                          /\ K.inode[x].type = "DIR" => K2.inode[x].data = K.inode[x].data,
         \A f \in Files : /\ K2.file[f].ref = K.file[f].ref /\ K2.file[f].type = K.file[f].type
                          /\ K2.file[f].ip = K.file[f].ip /\ K2.file[f].readable = K.file[f].readable
                          /\ K2.file[f].writable = K.file[f].writable,
         \A x \in Pipes : /\ K2.pipe[x].readopen = K.pipe[x].readopen
                          /\ K2.pipe[x].writeopen = K.pipe[x].writeopen,
         SameProcs(K2.proc, K.proc), \A q \in Procs : K2.proc[q].ofile = K.proc[q].ofile
  PROVE  KInv(K2, 0, 0)
<1>1. TY(K2) = TY(K) /\ NM(K2) = NM(K) /\ TG(K2) = TG(K)
  <2> DEFINE D == {i \in Inums : K.inode[i].type = "DIR"}
  <2>1. \A i \in D : K2.inode[i].data = K.inode[i].data OBVIOUS
  <2> QED BY <2>1, SameNames
<1>2. NL(K2) = NL(K) /\ RF(K2) = RF(K) BY DEF NL, RF
<1>3. Dirs(K2)
  <2>1. Dirs(K) BY DEF KInv
  <2> QED BY <2>1 DEF Dirs
<1>4. /\ \A i \in Inums : OpenOf(K2.file, i) = OpenOf(K.file, i)
      /\ \A i \in Inums : CwdOf(K2.proc, i) = CwdOf(K.proc, i)
      /\ \A f \in Files : FdsOf(K2.proc, f) = FdsOf(K.proc, f)
  BY DEF OpenOf, CwdOf, FdsOf, SameProcs
<1>5. Referred(TY(K), NL(K), RF(K), K2.file, K2.proc, 0)
  <2>1. Referred(TY(K), NL(K), RF(K), K.file, K.proc, 0) BY DEF KInv
  <2> QED BY <2>1, <1>4 DEF Referred, SameProcs
<1>6. Counted(K2.file, K2.proc, 0)
  <2>1. Counted(K.file, K.proc, 0) BY DEF KInv
  <2> QED BY <2>1, <1>4 DEF Counted
<1>7. Piped(K2.file, K2.pipe)
  <2>1. Piped(K.file, K.pipe) BY DEF KInv
  <2> QED BY <2>1 DEF Piped
<1>8. Paid(K2.proc, K2.free) BY SameProcsKeep DEF KInv
<1> QED BY <1>1, <1>2, <1>3, <1>5, <1>6, <1>7, <1>8 DEF KInv

LEMMA ReadCall ==
  ASSUME NEW K, NEW p \in Procs, NEW fd, NEW n
  PROVE  /\ Astray(K) => Astray(sys_read(K, p, fd, n).k)
         /\ KInv(K, 0, 0) => KInv(sys_read(K, p, fd, n).k, 0, 0)
<1> DEFINE f == argfd(K, p, fd)
           i == K.file[f].ip
           got == Len(Readable(K, f, n))
           K1 == [K EXCEPT !.file[f].off = @ + got]
           K2 == [K EXCEPT !.pipe[i].data = SubSeq(@, got + 1, Len(@))]
           R == sys_read(K, p, fd, n).k
<1>1. R = K \/ R = K1 \/ R = K2
  BY DEF sys_read, Fail, Ret
<1> HIDE DEF f, i, got, R
<1>2. Astray(K) => Astray(R)
  <2>1. Astray(K) => Astray(K1) BY DEF Astray
  <2>2. Astray(K) => Astray(K2) BY DEF Astray
  <2> HIDE DEF K1, K2
  <2> QED BY <2>1, <2>2, <1>1
<1>3. ASSUME KInv(K, 0, 0) PROVE KInv(R, 0, 0)
  <2>0. Fields(K) BY <1>3 DEF KInv
  <2>1. KInv(K1, 0, 0)
    <3>1. Fields(K1) /\ K1.free = K.free /\ K1.inode = K.inode /\ K1.pipe = K.pipe /\ K1.proc = K.proc
      BY <2>0 DEF Fields
    <3>2. \A x \in Files : /\ K1.file[x].ref = K.file[x].ref /\ K1.file[x].type = K.file[x].type
                           /\ K1.file[x].ip = K.file[x].ip /\ K1.file[x].readable = K.file[x].readable
                           /\ K1.file[x].writable = K.file[x].writable
      BY <2>0 DEF Fields
    <3> HIDE DEF K1
    <3>3. SameProcs(K1.proc, K.proc) BY <3>1 DEF SameProcs
    <3> QED BY <3>1, <3>2, <3>3, <1>3, DataKeeps
  <2>2. KInv(K2, 0, 0)
    <3>1. Fields(K2) /\ K2.free = K.free /\ K2.inode = K.inode /\ K2.file = K.file /\ K2.proc = K.proc
      BY <2>0 DEF Fields
    <3>2. \A x \in Pipes : K2.pipe[x].readopen = K.pipe[x].readopen /\ K2.pipe[x].writeopen = K.pipe[x].writeopen
      BY <2>0 DEF Fields
    <3> HIDE DEF K2
    <3>3. SameProcs(K2.proc, K.proc) BY <3>1 DEF SameProcs
    <3> QED BY <3>1, <3>2, <3>3, <1>3, DataKeeps
  <2> QED BY <2>1, <2>2, <1>1, <1>3
<1> QED BY <1>2, <1>3 DEF R

\* writei() changes the data of the inode, or nothing.
Written(K, K2, i) == K2 = K \/ \E X : K2 = [K EXCEPT !.inode[i].data = X]

\* write() to a file, which moves the offset, and to a pipe.
Stored(K, K2, f, i) == \E W : Written(K, W, i) /\ (K2 = W \/ \E y : K2 = [W EXCEPT !.file[f].off = y])
Poured(K, K2, i) == \E X : K2 = [K EXCEPT !.pipe[i].data = X]

LEMMA WriteiIs ==
  ASSUME NEW K, NEW i, NEW off, NEW s
  PROVE  LET w == writei(K, i, off, s)
         IN  \/ w = Panic(K, "balloc: out of blocks") /\ Drained(K)
             \/ Written(K, w.k, i)
<1> DEFINE d == K.inode[i].data
           X1 == d \o s
           X2 == SubSeq(d, 1, off) \o s \o SubSeq(d, off + Len(s) + 1, Len(d))
           grown == {j \in 1..CHUNK : j <= Len(s) /\ off + j > Len(d)}
           indirect == IF Len(d) <= NDIRECT /\ off + Len(s) > NDIRECT THEN 1 ELSE 0
           need == Cardinality(grown) + indirect
           w == writei(K, i, off, s)
<1>1. \/ w.k = K \/ w.k = [K EXCEPT !.inode[i].data = X1] \/ w.k = [K EXCEPT !.inode[i].data = X2]
      \/ w = Panic(K, "balloc: out of blocks") /\ OutOfBlocks(K, need)
  BY DEF writei, Fail, Ret
<1>2. need \in Nat /\ need <= CHUNK + 1
  <2>1. indirect \in {0, 1} OBVIOUS
  <2>2. IsFiniteSet(1..CHUNK) /\ Cardinality(1..CHUNK) = CHUNK BY KernelAssumption, FS_Interval
  <2>3. grown \in SUBSET (1..CHUNK) OBVIOUS
  <2> HIDE DEF grown, indirect
  <2>4. IsFiniteSet(grown) /\ Cardinality(grown) <= Cardinality(1..CHUNK) BY <2>2, <2>3, FS_Subset
  <2>5. Cardinality(grown) \in Nat BY <2>4, FS_CardinalityType
  <2> QED BY <2>1, <2>2, <2>4, <2>5, KernelAssumption
<1> HIDE DEF X1, X2, need, w
<1>3. (w = Panic(K, "balloc: out of blocks") /\ Drained(K)) \/ Written(K, w.k, i)
  BY <1>1, <1>2, BlocksShort DEF Written
<1> QED BY <1>3 DEF w

\* What write() leaves: the pipe or the file written and its offset moved, or a
\* panic of balloc().
LEMMA WriteIs ==
  ASSUME NEW K, NEW p, NEW fd, NEW s, NEW dn
  PROVE  LET f == argfd(K, p, fd)
             i == K.file[f].ip
             R == sys_write(K, p, fd, s, dn).k
         IN  \/ R = K \/ Poured(K, R, i)
             \/ R = Panic(K, "balloc: out of blocks").k /\ Drained(K)
             \/ f # 0 /\ K.file[f].writable /\ K.file[f].type = "FD_INODE" /\ Stored(K, R, f, i)
<1> DEFINE f == argfd(K, p, fd)
           i == K.file[f].ip
           R == sys_write(K, p, fd, s, dn).k
           n == Min({Len(s), dn + PIPESIZE - Len(K.pipe[i].data)})
           m == Min({Len(s), dn + CHUNK})
           w == writei(K, i, K.file[f].off, SubSeq(s, dn + 1, m))
           P == K.pipe[i].data \o SubSeq(s, dn + 1, n)
           y == w.k.file[f].off + w.r
           F == filewrite(K, f, s, dn)
<1>1. \/ R = K \/ R = [K EXCEPT !.pipe[i].data = P]
      \/ f # 0 /\ K.file[f].writable /\ K.file[f].type = "FD_INODE" /\ R = F.k
  <2> DEFINE put == [K EXCEPT !.pipe[i].data = @ \o SubSeq(s, dn + 1, n)]
  <2>1. \/ R = K \/ R = put
        \/ f # 0 /\ K.file[f].writable /\ K.file[f].type = "FD_INODE" /\ R = F.k
    <3> HIDE DEF F
    <3> QED BY DEF sys_write, Fail, Ret, F
  <2>2. put = [K EXCEPT !.pipe[i].data = P] OBVIOUS
  <2> HIDE DEF put, R, F
  <2> QED BY <2>1, <2>2
<1>2. F.k = K \/ (w.r < 0 /\ F.k = w.k) \/ (~(w.r < 0) /\ F.k = [w.k EXCEPT !.file[f].off = y])
  <2> HIDE DEF w, m
  <2>1. F = IF dn >= Len(s) THEN Ret(K, Len(s))
            ELSE IF w.r < 0 THEN Fail(w.k)
            ELSE Ret([w.k EXCEPT !.file[f].off = @ + w.r], IF m = Len(s) THEN m ELSE Asleep - m)
    BY Zenon DEF filewrite, w, m
  <2> HIDE DEF F
  <2> QED BY <2>1 DEF Fail, Ret
<1>3. (w = Panic(K, "balloc: out of blocks") /\ Drained(K)) \/ Written(K, w.k, i) BY WriteiIs
<1>4. Panic(K, "balloc: out of blocks").r = -1 BY PanicKeeps
<1> HIDE DEF f, i, R, P, y, w, F
<1>5. \/ R = K \/ Poured(K, R, i)
      \/ R = Panic(K, "balloc: out of blocks").k /\ Drained(K)
      \/ f # 0 /\ K.file[f].writable /\ K.file[f].type = "FD_INODE" /\ Stored(K, R, f, i)
  <2>1. CASE R = K \/ R = [K EXCEPT !.pipe[i].data = P] BY <2>1 DEF Poured
  <2>2. CASE /\ f # 0 /\ K.file[f].writable /\ K.file[f].type = "FD_INODE" /\ R = F.k
             /\ w = Panic(K, "balloc: out of blocks") /\ Drained(K)
    <3>1. w.r = -1 BY <2>2, <1>4
    <3>2. w.r < 0 BY <3>1
    <3>3. F.k = K \/ F.k = w.k BY <3>2, <1>2
    <3> QED BY <3>3, <2>2
  <2>3. CASE f # 0 /\ K.file[f].writable /\ K.file[f].type = "FD_INODE" /\ R = F.k /\ Written(K, w.k, i)
    <3>1. R = K \/ R = w.k \/ R = [w.k EXCEPT !.file[f].off = y] BY <2>3, <1>2
    <3>2. R # K => Stored(K, R, f, i) BY <3>1, <2>3, Zenon DEF Stored
    <3> QED BY <2>3, <3>2
  <2> QED BY <2>1, <2>2, <2>3, <1>1, <1>3
<1> QED BY <1>5 DEF f, i, R

LEMMA WriteCall ==
  ASSUME NEW K, NEW p \in Procs, NEW fd, NEW s, NEW dn
  PROVE  /\ Astray(K) => Astray(sys_write(K, p, fd, s, dn).k)
         /\ KInv(K, 0, 0) => KInv(sys_write(K, p, fd, s, dn).k, 0, 0)
<1> DEFINE f == argfd(K, p, fd)
           i == K.file[f].ip
           R == sys_write(K, p, fd, s, dn).k
<1>1. \/ R = K \/ Poured(K, R, i)
      \/ R = Panic(K, "balloc: out of blocks").k
      \/ f # 0 /\ K.file[f].writable /\ K.file[f].type = "FD_INODE" /\ Stored(K, R, f, i)
  BY WriteIs
<1>f. KInv(K, 0, 0) /\ f # 0 => f \in Files BY DEF argfd, KInv, Fields
<1> HIDE DEF f, i, R
<1>2. ASSUME Astray(K) PROVE Astray(R)
  <2>1. ASSUME NEW W, Written(K, W, i) PROVE Astray(W) BY <2>1, <1>2 DEF Astray, Written
  <2>2. ASSUME NEW W, Astray(W), NEW y PROVE Astray([W EXCEPT !.file[f].off = y]) BY <2>2 DEF Astray
  <2>3. ASSUME NEW X PROVE Astray([K EXCEPT !.pipe[i].data = X]) BY <1>2 DEF Astray
  <2>4. Astray(Panic(K, "balloc: out of blocks").k) BY <1>2, PanicKeeps
  <2>5. Poured(K, R, i) => Astray(R) BY <2>3, Zenon DEF Poured
  <2>6. Stored(K, R, f, i) => Astray(R) BY <2>1, <2>2, Zenon DEF Stored
  <2> QED BY <2>4, <2>5, <2>6, <1>1, <1>2
<1>3. ASSUME KInv(K, 0, 0) PROVE KInv(R, 0, 0)
  <2>0. Fields(K) BY <1>3 DEF KInv
  <2>1. ASSUME f # 0, K.file[f].writable, K.file[f].type = "FD_INODE", NEW W, Written(K, W, i)
        PROVE  KInv(W, 0, 0) /\ \A y : KInv([W EXCEPT !.file[f].off = y], 0, 0)
    <3>1. f \in Files BY <2>1, <1>3, <1>f
    <3>2. i \in Inums /\ K.inode[i].type # "DIR"
      <4>1. Referred(TY(K), NL(K), RF(K), K.file, K.proc, 0) BY <1>3 DEF KInv
      <4>2. K.file[f].ip \in Inums /\ TY(K)[K.file[f].ip] # "DIR" BY <4>1, <3>1, <2>1 DEF Referred
      <4> QED BY <4>2 DEF TY, i
    <3>3. /\ Fields(W) /\ W.free = K.free /\ W.file = K.file /\ W.pipe = K.pipe /\ W.proc = K.proc
          /\ \A x \in Inums : /\ W.inode[x].type = K.inode[x].type /\ W.inode[x].nlink = K.inode[x].nlink
                              /\ W.inode[x].ref = K.inode[x].ref
                              /\ x # i => W.inode[x].data = K.inode[x].data
      <4>1. CASE W = K BY <4>1, <2>0
      <4>2. ASSUME NEW X, W = [K EXCEPT !.inode[i].data = X]
            PROVE  /\ Fields(W) /\ W.free = K.free /\ W.file = K.file /\ W.pipe = K.pipe /\ W.proc = K.proc
                   /\ \A x \in Inums : /\ W.inode[x].type = K.inode[x].type /\ W.inode[x].nlink = K.inode[x].nlink
                                       /\ W.inode[x].ref = K.inode[x].ref
                                       /\ x # i => W.inode[x].data = K.inode[x].data
        BY <4>2, <3>2, <2>0 DEF Fields
      <4> QED BY <4>1, <4>2, <2>1 DEF Written
    <3>4. SameProcs(W.proc, K.proc) BY <3>3 DEF SameProcs
    <3>5. KInv(W, 0, 0) BY <3>2, <3>3, <3>4, <1>3, DataKeeps
    <3>6. ASSUME NEW y PROVE KInv([W EXCEPT !.file[f].off = y], 0, 0)
      <4> DEFINE V == [W EXCEPT !.file[f].off = y]
      <4>1. Fields(V) /\ V.free = W.free /\ V.inode = W.inode /\ V.pipe = W.pipe /\ V.proc = W.proc
        BY <3>1, <3>3 DEF Fields
      <4>2. \A x \in Files : /\ V.file[x].ref = W.file[x].ref /\ V.file[x].type = W.file[x].type
                             /\ V.file[x].ip = W.file[x].ip /\ V.file[x].readable = W.file[x].readable
                             /\ V.file[x].writable = W.file[x].writable
        BY <3>3 DEF Fields
      <4> HIDE DEF V
      <4>3. SameProcs(V.proc, W.proc) BY <4>1 DEF SameProcs
      <4>4. KInv(V, 0, 0) BY <4>1, <4>2, <4>3, <3>5, DataKeeps
      <4> QED BY <4>4 DEF V
    <3> QED BY <3>5, <3>6
  <2>2. ASSUME NEW X PROVE KInv([K EXCEPT !.pipe[i].data = X], 0, 0)
    <3> DEFINE V == [K EXCEPT !.pipe[i].data = X]
    <3>1. Fields(V) /\ V.free = K.free /\ V.inode = K.inode /\ V.file = K.file /\ V.proc = K.proc
      BY <2>0 DEF Fields
    <3>2. \A x \in Pipes : V.pipe[x].readopen = K.pipe[x].readopen /\ V.pipe[x].writeopen = K.pipe[x].writeopen
      BY <2>0 DEF Fields
    <3> HIDE DEF V
    <3>3. SameProcs(V.proc, K.proc) BY <3>1 DEF SameProcs
    <3>4. KInv(V, 0, 0) BY <3>1, <3>2, <3>3, <1>3, DataKeeps
    <3> QED BY <3>4 DEF V
  <2>3. KInv(Panic(K, "balloc: out of blocks").k, 0, 0) BY <1>3, PanicKeeps
  <2>4. Poured(K, R, i) => KInv(R, 0, 0) BY <2>2, Zenon DEF Poured
  <2>5. /\ f # 0 /\ K.file[f].writable /\ K.file[f].type = "FD_INODE" /\ Stored(K, R, f, i)
        => KInv(R, 0, 0)
    BY <2>1, Zenon DEF Stored
  <2> QED BY <2>3, <2>4, <2>5, <1>1, <1>3
<1> QED BY <1>2, <1>3 DEF R
-----------------------------------------------------------------------------
(* Processes.                                                              *)

LEMMA KillCall ==
  ASSUME NEW K, NEW c
  PROVE  /\ Astray(K) => Astray(kill(K, c).k)
         /\ KInv(K, 0, 0) => KInv(kill(K, c).k, 0, 0)
<1> DEFINE K1 == [K EXCEPT !.proc[c].killed = TRUE]
<1>1. kill(K, c).k = K \/ (c \in Procs /\ kill(K, c).k = K1) BY DEF kill, Fail, Ret
<1>2. Astray(K) => Astray(K1) BY DEF Astray
<1>3. ASSUME KInv(K, 0, 0), c \in Procs PROVE KInv(K1, 0, 0)
  <2>0. Fields(K) BY <1>3 DEF KInv
  <2>1. Fields(K1) /\ K1.free = K.free /\ K1.inode = K.inode /\ K1.pipe = K.pipe /\ K1.file = K.file
    BY <2>0 DEF Fields
  <2>2. SameProcs(K1.proc, K.proc) /\ \A q \in Procs : K1.proc[q].ofile = K.proc[q].ofile
    BY <2>0, <1>3 DEF Fields, SameProcs
  <2> HIDE DEF K1
  <2> QED BY <2>1, <2>2, <1>3, DataKeeps
<1> HIDE DEF K1
<1> QED BY <1>1, <1>2, <1>3

\* The pages of p, and those of the others.
Others(P, p) == {x \in Procs \X Nat : x[1] # p /\ x[2] \in 1..P[x[1]].sz}

LEMMA PagesSplit ==
  ASSUME NEW P, NEW p \in Procs, P[p].sz \in Nat
  PROVE  /\ IsFiniteSet(PagesOf(P)) <=> IsFiniteSet(Others(P, p))
         /\ IsFiniteSet(Others(P, p)) =>
              /\ Cardinality(PagesOf(P)) = Cardinality(Others(P, p)) + P[p].sz
              /\ Cardinality(Others(P, p)) \in Nat
<1> DEFINE M == {p} \X (1..P[p].sz)
<1>1. PagesOf(P) = Others(P, p) \cup M BY DEF PagesOf, Others
<1>2. Others(P, p) \cap M = {} BY DEF Others
<1>3. IsFiniteSet(M) /\ Cardinality(M) = P[p].sz
  <2>1. IsFiniteSet({p}) /\ Cardinality({p}) = 1 BY FS_Singleton
  <2>2. IsFiniteSet(1..P[p].sz) /\ Cardinality(1..P[p].sz) = P[p].sz
    <3>1. 1 \in Int /\ P[p].sz \in Int OBVIOUS
    <3>2. IsFiniteSet(1..P[p].sz)
          /\ Cardinality(1..P[p].sz) = IF 1 > P[p].sz THEN 0 ELSE P[p].sz - 1 + 1
      BY <3>1, FS_Interval
    <3> QED BY <3>2
  <2>3. IsFiniteSet(M) /\ Cardinality(M) = Cardinality({p}) * Cardinality(1..P[p].sz)
    BY <2>1, <2>2, FS_Product
  <2> QED BY <2>1, <2>2, <2>3
<1>4. Others(P, p) \in SUBSET PagesOf(P) BY DEF PagesOf, Others
<1>5. IsFiniteSet(PagesOf(P)) => IsFiniteSet(Others(P, p)) BY <1>4, FS_Subset
<1>6. ASSUME IsFiniteSet(Others(P, p))
      PROVE  /\ IsFiniteSet(PagesOf(P)) /\ Cardinality(PagesOf(P)) = Cardinality(Others(P, p)) + P[p].sz
             /\ Cardinality(Others(P, p)) \in Nat
  <2> HIDE DEF M
  <2>1. /\ IsFiniteSet(Others(P, p) \cup M)
        /\ Cardinality(Others(P, p) \cup M) = Cardinality(Others(P, p)) + Cardinality(M) - Cardinality(Others(P, p) \cap M)
    BY <1>3, <1>6, FS_Union
  <2>2. Cardinality(Others(P, p) \cap M) = 0 BY <1>2, FS_EmptySet, Zenon
  <2>3. Cardinality(Others(P, p)) \in Nat BY <1>6, FS_CardinalityType
  <2>4. Cardinality(Others(P, p) \cup M) = Cardinality(Others(P, p)) + P[p].sz BY <2>1, <2>2, <2>3, <1>3
  <2>5. IsFiniteSet(PagesOf(P)) BY <2>1, <1>1, Zenon
  <2>6. Cardinality(PagesOf(P)) = Cardinality(Others(P, p)) + P[p].sz BY <2>4, <1>1, Zenon
  <2> QED BY <2>3, <2>5, <2>6
<1> QED BY <1>5, <1>6

\* One process gets or gives back n pages.
LEMMA PaidMoves ==
  ASSUME NEW P, NEW P2, NEW m, Paid(P, m), NEW p \in Procs, P[p].sz \in Nat, P2[p].sz \in Nat,
         \A q \in Procs \ {p} : P2[q].sz = P[q].sz /\ P2[q].state = P[q].state,
         P2[p].state = "UNUSED" => P2[p].sz = 0
  PROVE  Paid(P2, m - (P2[p].sz - P[p].sz))
<1>1. Others(P2, p) = Others(P, p) BY DEF Others
<1>2. IsFiniteSet(PagesOf(P)) /\ m \in Int /\ m + Cardinality(PagesOf(P)) = MEMORY BY DEF Paid
<1>3. IsFiniteSet(Others(P, p)) BY <1>2, PagesSplit
<1>4. Cardinality(PagesOf(P)) = Cardinality(Others(P, p)) + P[p].sz /\ Cardinality(Others(P, p)) \in Nat
  BY <1>3, PagesSplit
<1>5. IsFiniteSet(Others(P2, p)) BY <1>1, <1>3, Zenon
<1>6. /\ IsFiniteSet(PagesOf(P2))
      /\ Cardinality(PagesOf(P2)) = Cardinality(Others(P2, p)) + P2[p].sz
  BY <1>5, PagesSplit
<1>7. Cardinality(Others(P2, p)) = Cardinality(Others(P, p)) BY <1>1, Zenon
<1>8. (m - (P2[p].sz - P[p].sz)) + Cardinality(PagesOf(P2)) = MEMORY
  BY <1>2, <1>4, <1>6, <1>7, KernelAssumption
<1>9. \A q \in Procs : P2[q].state = "UNUSED" => P2[q].sz = 0 BY DEF Paid
<1> QED BY <1>2, <1>6, <1>8, <1>9 DEF Paid

\* The live processes keep their directories and descriptors.
LEMMA ProcsChange ==
  ASSUME NEW K, NEW K2, NEW h, NEW g, KInv(K, h, g), Fields(K2), K2.inode = K.inode,
         K2.file = K.file, K2.pipe = K.pipe, Paid(K2.proc, K2.free),
         \A q \in Procs : K2.proc[q].state = "LIVE" <=> K.proc[q].state = "LIVE",
         \A q \in Procs : K.proc[q].state = "LIVE" =>
           K2.proc[q].cwd = K.proc[q].cwd /\ K2.proc[q].ofile = K.proc[q].ofile
  PROVE  KInv(K2, h, g)
<1>1. /\ TY(K2) = TY(K) /\ NL(K2) = NL(K) /\ RF(K2) = RF(K) /\ NM(K2) = NM(K) /\ TG(K2) = TG(K)
      /\ Dirs(K2)
  BY SameInodes DEF KInv
<1>2. /\ \A i \in Inums : CwdOf(K2.proc, i) = CwdOf(K.proc, i)
      /\ \A f \in Files : FdsOf(K2.proc, f) = FdsOf(K.proc, f)
  BY DEF CwdOf, FdsOf
<1>3. Referred(TY(K2), NL(K2), RF(K2), K2.file, K2.proc, h)
  <2>1. Referred(TY(K), NL(K), RF(K), K.file, K.proc, h) BY DEF KInv
  <2> QED BY <2>1, <1>1, <1>2 DEF Referred
<1>4. Counted(K2.file, K2.proc, g)
  <2>1. Counted(K.file, K.proc, g) BY DEF KInv
  <2> QED BY <2>1, <1>2 DEF Counted
<1> QED BY <1>1, <1>3, <1>4 DEF KInv

LEMMA SbrkCall ==
  ASSUME NEW K, NEW p \in Procs, NEW n
  PROVE  /\ Astray(K) => Astray(sys_sbrk(K, p, n).k)
         /\ KInv(K, 0, 0) /\ K.proc[p].state = "LIVE" /\ n \in Int /\ K.proc[p].sz + n > 0
              => KInv(sys_sbrk(K, p, n).k, 0, 0)
<1> DEFINE K1 == [K EXCEPT !.proc[p].sz = @ + n, !.free = @ - n]
<1>1. sys_sbrk(K, p, n).k = K \/ sys_sbrk(K, p, n).k = K1 BY DEF sys_sbrk, Fail, Ret
<1>2. Astray(K) => Astray(K1) BY DEF Astray
<1>3. ASSUME KInv(K, 0, 0), K.proc[p].state = "LIVE", n \in Int, K.proc[p].sz + n > 0 PROVE KInv(K1, 0, 0)
  <2>0. Fields(K) BY <1>3 DEF KInv
  <2>1. K.proc[p].sz \in Nat BY <2>0 DEF Fields
  <2>2. /\ DOMAIN K1 = DOMAIN K /\ K1.inode = K.inode /\ K1.file = K.file /\ K1.pipe = K.pipe
        /\ K1.free = K.free - n /\ K1.proc = [K.proc EXCEPT ![p].sz = @ + n]
    BY <2>0 DEF Fields
  <2> HIDE DEF K1
  <2>3. /\ DOMAIN K1.proc = Procs /\ \A q \in Procs \ {p} : K1.proc[q] = K.proc[q]
        /\ K1.proc[p].state = "LIVE" /\ K1.proc[p].cwd = K.proc[p].cwd
        /\ K1.proc[p].ofile = K.proc[p].ofile /\ K1.proc[p].sz = K.proc[p].sz + n
        /\ DOMAIN K1.proc[p] = DOMAIN K.proc[p]
    BY <2>0, <2>2, <1>3 DEF Fields
  <2>4. K1.proc[p].sz \in Nat BY <2>1, <2>3, <1>3
  <2>5. Fields(K1)
    <3>1. \A q \in Procs : /\ DOMAIN K1.proc[q] = {"state", "parent", "killed", "cwd", "sz", "ofile"}
                           /\ K1.proc[q].ofile \in [Fds -> Files \cup {0}] /\ K1.proc[q].sz \in Nat
      BY <2>0, <2>3, <2>4 DEF Fields
    <3> QED BY <3>1, <2>0, <2>2, <2>3 DEF Fields
  <2>6. Paid(K1.proc, K1.free)
    <3>1. Paid(K.proc, K.free) BY <1>3 DEF KInv
    <3>2. Paid(K1.proc, K.free - (K1.proc[p].sz - K.proc[p].sz))
      BY <3>1, <2>1, <2>3, <2>4, PaidMoves
    <3>3. K.free \in Int BY <3>1 DEF Paid
    <3>4. K.free - (K1.proc[p].sz - K.proc[p].sz) = K1.free BY <3>3, <2>1, <2>2, <2>3, <1>3
    <3> QED BY <3>2, <3>4
  <2>7. \A q \in Procs : K1.proc[q].state = "LIVE" <=> K.proc[q].state = "LIVE" BY <2>3, <1>3
  <2>8. \A q \in Procs : K1.proc[q].cwd = K.proc[q].cwd /\ K1.proc[q].ofile = K.proc[q].ofile BY <2>3
  <2> QED BY <2>2, <2>5, <2>6, <2>7, <2>8, <1>3, ProcsChange
<1> HIDE DEF K1
<1> QED BY <1>1, <1>2, <1>3

LEMMA ReapKeeps ==
  ASSUME NEW K, NEW c \in Procs
  PROVE  /\ Astray(K) => Astray(reap(K, c))
         /\ KInv(K, 0, 0) /\ K.proc[c].state = "ZOMBIE" => KInv(reap(K, c), 0, 0)
<1> DEFINE K1 == reap(K, c)
<1>1. Astray(K) => Astray(K1) BY DEF Astray, reap
<1>2. ASSUME KInv(K, 0, 0), K.proc[c].state = "ZOMBIE" PROVE KInv(K1, 0, 0)
  <2>0. Fields(K) BY <1>2 DEF KInv
  <2>1. K.proc[c].sz \in Nat BY <2>0 DEF Fields
  <2>2. /\ DOMAIN K1 = DOMAIN K /\ K1.inode = K.inode /\ K1.file = K.file /\ K1.pipe = K.pipe
        /\ K1.free = K.free + K.proc[c].sz /\ K1.proc = [K.proc EXCEPT ![c] = NoProc]
    BY <2>0 DEF Fields, reap
  <2> HIDE DEF K1
  <2>3. /\ DOMAIN K1.proc = Procs /\ (\A q \in Procs \ {c} : K1.proc[q] = K.proc[q]) /\ K1.proc[c] = NoProc
    BY <2>0, <2>2 DEF Fields
  <2>4. /\ K1.proc[c].state = "UNUSED" /\ K1.proc[c].sz = 0
        /\ K1.proc[c].ofile \in [Fds -> Files \cup {0}]
        /\ DOMAIN K1.proc[c] = {"state", "parent", "killed", "cwd", "sz", "ofile"}
    BY <2>3 DEF NoProc
  <2>5. Fields(K1)
    <3>1. \A q \in Procs : /\ DOMAIN K1.proc[q] = {"state", "parent", "killed", "cwd", "sz", "ofile"}
                           /\ K1.proc[q].ofile \in [Fds -> Files \cup {0}] /\ K1.proc[q].sz \in Nat
      BY <2>0, <2>3, <2>4 DEF Fields
    <3> QED BY <3>1, <2>0, <2>2, <2>3 DEF Fields
  <2>6. Paid(K1.proc, K1.free)
    <3>1. Paid(K.proc, K.free) BY <1>2 DEF KInv
    <3>2. Paid(K1.proc, K.free - (K1.proc[c].sz - K.proc[c].sz))
      BY <3>1, <2>1, <2>3, <2>4, PaidMoves
    <3>3. K.free \in Int BY <3>1 DEF Paid
    <3>4. K.free - (K1.proc[c].sz - K.proc[c].sz) = K1.free BY <3>3, <2>1, <2>2, <2>4
    <3> QED BY <3>2, <3>4
  <2> QED BY <2>2, <2>3, <2>4, <2>5, <2>6, <1>2, ProcsChange
<1> QED BY <1>1, <1>2

LEMMA WaitCall ==
  ASSUME NEW K, NEW p
  PROVE  /\ Astray(K) => Astray(wait(K, p).k)
         /\ KInv(K, 0, 0) => KInv(wait(K, p).k, 0, 0)
<1> DEFINE kids == {c \in Procs : K.proc[c].state # "UNUSED" /\ K.proc[c].parent = p}
           S == {c \in kids : K.proc[c].state = "ZOMBIE"}
           z == First(kids, LAMBDA c : K.proc[c].state = "ZOMBIE")
<1>1. wait(K, p).k = K \/ (z # 0 /\ wait(K, p).k = reap(K, z)) BY DEF wait, Fail, Ret
<1>2. z # 0 => z \in S
  <2>1. S \in SUBSET Nat BY KernelSizes
  <2>2. CASE S # {}
    <3>1. Min(S) \in S BY <2>1, <2>2, FirstFound
    <3>2. z = Min(S) BY <2>2 DEF First
    <3> QED BY <3>1, <3>2
  <2>3. CASE S = {} BY <2>3 DEF First
  <2> QED BY <2>2, <2>3
<1>3. z # 0 => z \in Procs /\ K.proc[z].state = "ZOMBIE" BY <1>2
<1> HIDE DEF z
<1> QED BY <1>1, <1>3, ReapKeeps

FreeSlot(K) == First(Procs, LAMBDA q : K.proc[q].state = "UNUSED")

LEMMA ChildFound ==
  ASSUME NEW K, FreeSlot(K) # 0
  PROVE  FreeSlot(K) \in Procs /\ K.proc[FreeSlot(K)].state = "UNUSED"
<1> DEFINE S == {q \in Procs : K.proc[q].state = "UNUSED"}
<1>1. S \in SUBSET Nat BY KernelSizes
<1>2. CASE S # {}
  <2>1. Min(S) \in S BY <1>1, <1>2, FirstFound
  <2>2. FreeSlot(K) = Min(S) BY <1>2 DEF FreeSlot, First
  <2> QED BY <2>1, <2>2
<1>3. CASE S = {} BY <1>3 DEF FreeSlot, First
<1> QED BY <1>2, <1>3

\* The descriptors of p that lead to f.
Held(P, p, f) == {fd \in Fds : P[p].ofile[fd] = f}

\* What fork() changes.
Forked(K, K2, p, c) ==
  /\ K2.pipe = K.pipe /\ K2.free = K.free - K.proc[p].sz
  /\ \A x \in Inums : /\ K2.inode[x].type = K.inode[x].type /\ K2.inode[x].data = K.inode[x].data
                      /\ K2.inode[x].nlink = K.inode[x].nlink
                      /\ K2.inode[x].ref = K.inode[x].ref + (IF x = K.proc[p].cwd THEN 1 ELSE 0)
  /\ \A f \in Files : /\ K2.file[f].type = K.file[f].type /\ K2.file[f].ip = K.file[f].ip
                      /\ K2.file[f].readable = K.file[f].readable /\ K2.file[f].writable = K.file[f].writable
                      /\ K2.file[f].ref = K.file[f].ref + Cardinality(Held(K.proc, p, f))
  /\ \A q \in Procs \ {c} : K2.proc[q] = K.proc[q]
  /\ K2.proc[c].state = "LIVE" /\ K2.proc[c].cwd = K.proc[p].cwd /\ K2.proc[c].sz = K.proc[p].sz
  /\ K2.proc[c].ofile = K.proc[p].ofile

LEMMA ForkKeeps ==
  ASSUME NEW K, KInv(K, 0, 0), NEW p \in Procs, K.proc[p].state = "LIVE",
         NEW c \in Procs, K.proc[c].state = "UNUSED",
         NEW K2, Fields(K2), Forked(K, K2, p, c)
  PROVE  KInv(K2, 0, 0)
<1> DEFINE P == K.proc
           P2 == K2.proc
           d == K.proc[p].cwd
<1>0. /\ Fields(K) /\ Dirs(K) /\ Linked(TY(K), NL(K), NM(K), TG(K))
      /\ Referred(TY(K), NL(K), RF(K), K.file, P, 0) /\ Counted(K.file, P, 0)
      /\ Piped(K.file, K.pipe) /\ Paid(P, K.free)
  BY DEF KInv
<1>i. \A x \in Inums : K2.inode[x].type = K.inode[x].type /\ K2.inode[x].data = K.inode[x].data BY DEF Forked
<1>1. TY(K2) = TY(K) /\ NM(K2) = NM(K) /\ TG(K2) = TG(K) BY <1>i, SameNames
<1>2. NL(K2) = NL(K) BY DEF NL, Forked
<1>3. Dirs(K2) BY <1>0, <1>i DEF Dirs
<1>f. \A f \in Files : /\ K2.file[f].type = K.file[f].type /\ K2.file[f].ip = K.file[f].ip
                       /\ K2.file[f].readable = K.file[f].readable /\ K2.file[f].writable = K.file[f].writable
  BY DEF Forked
<1>r. \A f \in Files : K2.file[f].ref = K.file[f].ref + Cardinality(Held(K.proc, p, f)) BY DEF Forked
<1>p. /\ \A q \in Procs \ {c} : K2.proc[q] = K.proc[q]
      /\ K2.proc[c].state = "LIVE" /\ K2.proc[c].cwd = K.proc[p].cwd /\ K2.proc[c].sz = K.proc[p].sz
      /\ K2.proc[c].ofile = K.proc[p].ofile
  BY DEF Forked
<1>4. d \in Inums /\ TY(K)[d] # "NONE" BY <1>0 DEF Referred
<1>5. RF(K2) \in [Inums -> Int] /\ \A x \in Inums : RF(K2)[x] = RF(K)[x] + (IF x = d THEN 1 ELSE 0)
  <2>1. RF(K) \in [Inums -> Int] BY <1>0 DEF Referred
  <2>2. \A x \in Inums : RF(K2)[x] = RF(K)[x] + (IF x = d THEN 1 ELSE 0) BY DEF RF, Forked
  <2>3. RF(K2) = [x \in Inums |-> RF(K2)[x]] BY DEF RF
  <2>4. \A x \in Inums : RF(K2)[x] \in Int BY <2>1, <2>2
  <2> QED BY <2>2, <2>3, <2>4
<1>6. Referred(TY(K), NL(K), RF(K2), K2.file, P2, 0)
  <2>1. \A i \in Inums : OpenOf(K2.file, i) = OpenOf(K.file, i) BY <1>f DEF OpenOf
  <2>2. ASSUME NEW i \in Inums
        PROVE  Cardinality(CwdOf(P2, i)) = Cardinality(CwdOf(P, i)) + (IF i = d THEN 1 ELSE 0)
    <3>0. IsFiniteSet(CwdOf(P, i)) /\ Cardinality(CwdOf(P, i)) \in Nat BY FiniteRefs
    <3>1. CASE i = d
      <4>1. CwdOf(P2, i) = CwdOf(P, i) \cup {c} BY <3>1, <1>p DEF CwdOf
      <4>2. c \notin CwdOf(P, i) BY DEF CwdOf
      <4>3. Cardinality(CwdOf(P, i) \cup {c}) = Cardinality(CwdOf(P, i)) + 1 BY <4>2, <3>0, FS_AddElement
      <4>4. Cardinality(CwdOf(P2, i)) = Cardinality(CwdOf(P, i)) + 1 BY <4>1, <4>3, Zenon
      <4> QED BY <4>4, <3>1
    <3>2. CASE i # d
      <4>1. CwdOf(P2, i) = CwdOf(P, i) BY <3>2, <1>p DEF CwdOf
      <4> QED BY <4>1, <3>0, <3>2
    <3> QED BY <3>1, <3>2
  <2>3. ASSUME NEW i \in Inums, TY(K)[i] # "NONE"
        PROVE  /\ RF(K2)[i] = Cardinality(OpenOf(K2.file, i)) + Cardinality(CwdOf(P2, i)) + Hand(0, i)
               /\ NL(K)[i] = 0 => RF(K2)[i] > 0
    <3>1. RF(K)[i] = Cardinality(OpenOf(K.file, i)) + Cardinality(CwdOf(P, i)) + Hand(0, i)
      BY <2>3, <1>0 DEF Referred
    <3>2. NL(K)[i] = 0 => RF(K)[i] > 0 BY <2>3, <1>0 DEF Referred
    <3>3. Cardinality(OpenOf(K.file, i)) \in Nat /\ Cardinality(CwdOf(P, i)) \in Nat BY FiniteRefs
    <3>4. Hand(0, i) = 0 BY KernelSizes DEF Hand
    <3>5. Cardinality(OpenOf(K2.file, i)) = Cardinality(OpenOf(K.file, i)) BY <2>1
    <3> HIDE DEF P, P2, d
    <3> QED BY <3>1, <3>2, <3>3, <3>4, <3>5, <2>2, <1>5
  <2>4. \A q \in Procs : P2[q].state = "LIVE" => P2[q].cwd \in Inums /\ TY(K)[P2[q].cwd] # "NONE"
    BY <1>0, <1>4, <1>p DEF Referred
  <2> QED BY <2>3, <2>4, <1>0, <1>5, <1>f DEF Referred
<1>7. Counted(K2.file, P2, 0)
  <2>1. ASSUME NEW f \in Files
        PROVE  Cardinality(FdsOf(P2, f)) = Cardinality(FdsOf(P, f)) + Cardinality(Held(P, p, f))
    <3> DEFINE H == {c} \X Held(P, p, f)
    <3>0. IsFiniteSet(FdsOf(P, f)) /\ Cardinality(FdsOf(P, f)) \in Nat BY FiniteRefs
    <3>1. IsFiniteSet(Held(P, p, f))
      <4>1. Held(P, p, f) \in SUBSET Fds BY DEF Held
      <4> QED BY <4>1, KernelFinite, FS_Subset
    <3>2. IsFiniteSet(H) /\ Cardinality(H) = Cardinality(Held(P, p, f))
      <4>1. IsFiniteSet({c}) /\ Cardinality({c}) = 1 BY FS_Singleton
      <4>2. IsFiniteSet(H) /\ Cardinality(H) = Cardinality({c}) * Cardinality(Held(P, p, f))
        BY <4>1, <3>1, FS_Product
      <4>3. Cardinality(Held(P, p, f)) \in Nat BY <3>1, FS_CardinalityType
      <4> QED BY <4>1, <4>2, <4>3
    <3>3. FdsOf(P2, f) = FdsOf(P, f) \cup H BY <1>p DEF FdsOf, Held
    <3>4. FdsOf(P, f) \cap H = {} BY DEF FdsOf
    <3> HIDE DEF H
    <3>5. Cardinality(FdsOf(P, f) \cup H) = Cardinality(FdsOf(P, f)) + Cardinality(H) - Cardinality(FdsOf(P, f) \cap H)
      BY <3>0, <3>2, FS_Union
    <3>6. Cardinality(FdsOf(P, f) \cap H) = 0 BY <3>4, FS_EmptySet, Zenon
    <3>7. Cardinality(H) \in Nat BY <3>2, FS_CardinalityType
    <3>8. Cardinality(FdsOf(P, f) \cup H) = Cardinality(FdsOf(P, f)) + Cardinality(Held(P, p, f))
      BY <3>0, <3>2, <3>5, <3>6, <3>7
    <3> QED BY <3>3, <3>8, Zenon
  <2>2. ASSUME NEW f \in Files PROVE /\ K2.file[f].ref = Cardinality(FdsOf(P2, f)) + Hand(0, f)
                                     /\ K2.file[f].ref = 0 => K2.file[f].type = "FD_NONE"
    <3>1. K.file[f].ref = Cardinality(FdsOf(P, f)) + Hand(0, f) /\ (K.file[f].ref = 0 => K.file[f].type = "FD_NONE")
      BY <1>0 DEF Counted
    <3>2. Cardinality(FdsOf(P, f)) \in Nat BY FiniteRefs
    <3>3. Hand(0, f) = 0 BY KernelSizes DEF Hand
    <3>4. Cardinality(Held(P, p, f)) \in Nat
      <4>1. Held(P, p, f) \in SUBSET Fds BY DEF Held
      <4>2. IsFiniteSet(Held(P, p, f)) BY <4>1, KernelFinite, FS_Subset
      <4> QED BY <4>2, FS_CardinalityType
    <3>5. K2.file[f].ref = K.file[f].ref + Cardinality(Held(P, p, f)) /\ K2.file[f].type = K.file[f].type BY <1>f, <1>r
    <3> HIDE DEF P, P2
    <3> QED BY <3>1, <3>2, <3>3, <3>4, <3>5, <2>1
  <2> QED BY <2>2 DEF Counted
<1>8. Piped(K2.file, K2.pipe)
  <2>1. K2.pipe = K.pipe BY DEF Forked
  <2> QED BY <2>1, <1>0, <1>f DEF Piped
<1>9. Paid(P2, K2.free)
  <2>1. P[c].sz = 0 BY <1>0 DEF Paid
  <2>2. P[p].sz \in Nat /\ P2[c].sz = P[p].sz BY <1>0, <1>p DEF Fields
  <2>a. \A q \in Procs \ {c} : P2[q].sz = P[q].sz /\ P2[q].state = P[q].state BY <1>p
  <2>b. P2[c].state # "UNUSED" /\ P[c].sz \in Nat /\ P2[c].sz \in Nat BY <1>p, <2>1, <2>2
  <2>3. Paid(P2, K.free - (P2[c].sz - P[c].sz))
    <3>1. Paid(P, K.free) BY <1>0
    <3> HIDE DEF P, P2
    <3> QED BY <3>1, <2>a, <2>b, PaidMoves
  <2>4. K.free - (P2[c].sz - P[c].sz) = K2.free BY <2>1, <2>2 DEF Forked
  <2> QED BY <2>3, <2>4
<1> QED BY <1>0, <1>1, <1>2, <1>3, <1>6, <1>7, <1>8, <1>9 DEF KInv

LEMMA ForkCall ==
  ASSUME NEW K, NEW p \in Procs
  PROVE  /\ Astray(K) => Astray(fork(K, p).k)
         /\ KInv(K, 0, 0) /\ K.proc[p].state = "LIVE" => KInv(fork(K, p).k, 0, 0)
<1> DEFINE c == FreeSlot(K)
           F == [f \in Files |-> [K.file[f] EXCEPT !.ref = @ + Cardinality(Held(K.proc, p, f))]]
           dp == [K EXCEPT !.file = F, !.free = @ - K.proc[p].sz]
           d == K.proc[p].cwd
           child == [K.proc[p] EXCEPT !.parent = p, !.killed = FALSE]
           K1 == [iget(dp, d) EXCEPT !.proc[c] = child]
<1>1. fork(K, p).k = K \/ (c # 0 /\ fork(K, p).k = K1) BY DEF fork, Fail, Ret, Held, FreeSlot
<1>c. c # 0 => c \in Procs /\ K.proc[c].state = "UNUSED" BY ChildFound
<1> HIDE DEF c
<1>2. Astray(K) => Astray(K1)
  <2>1. Astray(K) => Astray(dp) BY DEF Astray
  <2> HIDE DEF dp
  <2>2. Astray(dp) => Astray(iget(dp, d)) BY DEF Astray, iget
  <2>3. Astray(iget(dp, d)) => Astray(K1) BY DEF Astray
  <2> QED BY <2>1, <2>2, <2>3
<1>3. ASSUME KInv(K, 0, 0), K.proc[p].state = "LIVE", c # 0 PROVE KInv(K1, 0, 0)
  <2>0. Fields(K) BY <1>3 DEF KInv
  <2>c. c \in Procs /\ K.proc[c].state = "UNUSED" /\ c # p BY <1>3, <1>c
  <2>1. /\ DOMAIN dp = DOMAIN K /\ dp.inode = K.inode /\ dp.pipe = K.pipe /\ dp.proc = K.proc
        /\ dp.free = K.free - K.proc[p].sz /\ dp.file = F
    BY <2>0 DEF Fields
  <2>f. \A f \in Files : /\ F[f].type = K.file[f].type /\ F[f].ip = K.file[f].ip
                         /\ F[f].readable = K.file[f].readable /\ F[f].writable = K.file[f].writable
                         /\ F[f].ref = K.file[f].ref + Cardinality(Held(K.proc, p, f))
                         /\ DOMAIN F[f] = DOMAIN K.file[f]
    BY <2>0 DEF Fields
  <2>d. DOMAIN F = Files OBVIOUS
  <2> HIDE DEF dp, F
  <2>2. /\ DOMAIN K1 = DOMAIN K /\ K1.inode = [K.inode EXCEPT ![d].ref = @ + 1] /\ K1.pipe = K.pipe
        /\ K1.free = K.free - K.proc[p].sz /\ K1.file = F /\ K1.proc = [K.proc EXCEPT ![c] = child]
    BY <2>0, <2>1 DEF Fields, iget
  <2> HIDE DEF K1
  <2>3. d \in Inums BY <1>3 DEF KInv, Referred
  <2>4. /\ DOMAIN K1.inode = Inums
        /\ \A x \in Inums : /\ K1.inode[x].type = K.inode[x].type /\ K1.inode[x].data = K.inode[x].data
                            /\ K1.inode[x].nlink = K.inode[x].nlink
                            /\ x # d => K1.inode[x].ref = K.inode[x].ref
                            /\ DOMAIN K1.inode[x] = DOMAIN K.inode[x]
        /\ K1.inode[d].ref = K.inode[d].ref + 1
    BY <2>0, <2>2, <2>3 DEF Fields
  <2>5. ASSUME NEW x \in Inums PROVE K1.inode[x].ref = K.inode[x].ref + (IF x = d THEN 1 ELSE 0)
    <3>1. RF(K) \in [Inums -> Int] BY <1>3 DEF KInv, Referred
    <3>2. RF(K)[x] \in Int BY <3>1
    <3>3. K.inode[x].ref \in Int BY <3>2 DEF RF
    <3> QED BY <3>3, <2>4
  <2>6. /\ DOMAIN child = {"state", "parent", "killed", "cwd", "sz", "ofile"}
        /\ child.state = "LIVE" /\ child.cwd = d /\ child.sz = K.proc[p].sz /\ child.ofile = K.proc[p].ofile
    BY <2>0, <1>3 DEF Fields
  <2> HIDE DEF child
  <2>7. /\ DOMAIN K1.proc = Procs /\ (\A q \in Procs \ {c} : K1.proc[q] = K.proc[q]) /\ K1.proc[c] = child
    BY <2>0, <2>2, <2>c DEF Fields
  <2>8. Fields(K1)
    <3>1. \A q \in Procs : /\ DOMAIN K1.proc[q] = {"state", "parent", "killed", "cwd", "sz", "ofile"}
                           /\ K1.proc[q].ofile \in [Fds -> Files \cup {0}] /\ K1.proc[q].sz \in Nat
      BY <2>0, <2>6, <2>7 DEF Fields
    <3>2. \A f \in Files : /\ DOMAIN K1.file[f] = {"ref", "type", "ip", "off", "readable", "writable"}
                           /\ K1.file[f].type \in {"FD_NONE", "FD_PIPE", "FD_INODE"}
                           /\ K1.file[f].readable \in BOOLEAN /\ K1.file[f].writable \in BOOLEAN
      BY <2>0, <2>2, <2>f DEF Fields
    <3>3. DOMAIN K1.file = Files BY <2>2, <2>d
    <3> QED BY <3>1, <3>2, <3>3, <2>0, <2>2, <2>4, <2>7 DEF Fields
  <2>9. K1.proc[c].state = "LIVE" /\ K1.proc[c].cwd = K.proc[p].cwd /\ K1.proc[c].sz = K.proc[p].sz
        /\ K1.proc[c].ofile = K.proc[p].ofile
    BY <2>6, <2>7
  <2>10. \A f \in Files : /\ K1.file[f].type = K.file[f].type /\ K1.file[f].ip = K.file[f].ip
                          /\ K1.file[f].readable = K.file[f].readable /\ K1.file[f].writable = K.file[f].writable
                          /\ K1.file[f].ref = K.file[f].ref + Cardinality(Held(K.proc, p, f))
    BY <2>2, <2>f
  <2>11. Forked(K, K1, p, c)
    BY <2>2, <2>4, <2>5, <2>7, <2>9, <2>10 DEF Forked
  <2> QED BY <2>8, <2>11, <2>c, <1>3, ForkKeeps
<1> HIDE DEF K1
<1> QED BY <1>1, <1>2, <1>3

\* The end of exit(): p, which has left its directory, becomes a zombie.
Left(left, p) ==
  [left EXCEPT !.proc = [q \in Procs |->
     IF q = p THEN [left.proc[p] EXCEPT !.state = "ZOMBIE", !.cwd = 0]
     ELSE IF left.proc[q].parent = p
     THEN [left.proc[q] EXCEPT !.parent = INIT] ELSE left.proc[q]]]

\* The states of exit()'s loop over the descriptors exist.
LEMMA ShutExists ==
  ASSUME NEW K, NEW p
  PROVE  \E sh : /\ sh = [n \in 0..NOFILE |-> IF n = 0 THEN K ELSE sys_close(sh[n - 1], p, n - 1).k]
                 /\ exit(K, p) = Left(iput(sh[NOFILE], K.proc[p].cwd), p)
<1> DEFINE N == NOFILE
           Walks(g, m) == g = [n \in 0..m |-> IF n = 0 THEN K ELSE sys_close(g[n - 1], p, n - 1).k]
           End(sh) == Left(iput(sh[NOFILE], K.proc[p].cwd), p)
<1>1. N \in Nat BY KernelAssumption
<1>2. exit(K, p) = End(CHOOSE sh : Walks(sh, N)) BY DEF exit, Left
<1> HIDE DEF N, End
<1>3. \E sh : Walks(sh, N)
  <2> DEFINE Bad == {m \in 0..N : ~\E g : Walks(g, m)}
  <2>0. N \in 0..N BY <1>1
  <2>1. SUFFICES ASSUME Bad # {} PROVE FALSE
    <3>1. ASSUME Bad = {} PROVE \E sh : Walks(sh, N)
      <4>1. N \notin Bad BY <3>1
      <4> HIDE DEF Walks
      <4> QED BY <4>1, <2>0
    <3> QED BY <3>1
  <2>2. PICK m \in Bad : \A x \in Bad : m <= x
    <3>1. Bad \in SUBSET Nat BY <1>1
    <3> QED BY <3>1, <2>1, LeastExists
  <2>3. m \in 0..N /\ ~\E g : Walks(g, m) BY <2>2
  <2>4. m # 0
    <3>1. Walks([n \in 0..0 |-> K], 0)
      <4> DEFINE g == [n \in 0..0 |-> K]
      <4>1. \A n \in 0..0 : g[n] = IF n = 0 THEN K ELSE sys_close(g[n - 1], p, n - 1).k
        OBVIOUS
      <4> QED BY <4>1
    <3> QED BY <3>1, <2>3
  <2>5. PICK g : Walks(g, m - 1)
    <3>1. m - 1 \in 0..N /\ ~(m <= m - 1) BY <2>3, <2>4, <1>1
    <3>2. m - 1 \notin Bad BY <3>1, <2>2
    <3> QED BY <3>1, <3>2
  <2> DEFINE h == [n \in 0..m |-> IF n = m THEN sys_close(g[m - 1], p, m - 1).k ELSE g[n]]
  <2>6. ASSUME NEW n \in 0..m
        PROVE  h[n] = IF n = 0 THEN K ELSE sys_close(h[n - 1], p, n - 1).k
    <3>0. m \in Nat BY <2>3, <1>1
    <3>1. CASE n = m
      <4>1. h[m - 1] = g[m - 1] BY <3>0, <2>4
      <4> QED BY <3>1, <4>1, <3>0, <2>4
    <3>2. CASE n # m
      <4>1. n \in 0..(m - 1) BY <3>0, <3>2
      <4>2. g[n] = IF n = 0 THEN K ELSE sys_close(g[n - 1], p, n - 1).k BY <4>1, <2>5
      <4>3. h[n] = g[n] BY <3>2
      <4>4. n # 0 => h[n - 1] = g[n - 1] BY <4>1, <3>0
      <4> QED BY <4>2, <4>3, <4>4
    <3> QED BY <3>1, <3>2
  <2>7. Walks(h, m)
    <3>1. h = [n \in 0..m |-> h[n]] OBVIOUS
    <3> HIDE DEF h
    <3> QED BY <3>1, <2>6
  <2> QED BY <2>3, <2>7
<1>4. PICK sh : sh = CHOOSE g : Walks(g, N) OBVIOUS
<1>5. Walks(sh, N) BY <1>3, <1>4, Zenon
<1>6. exit(K, p) = End(sh) BY <1>2, <1>4
<1> QED BY <1>5, <1>6 DEF N, End

LEMMA CloseStrays ==
  ASSUME NEW K, Astray(K), NEW p, NEW fd
  PROVE  Astray(sys_close(K, p, fd).k)
<1> DEFINE f == argfd(K, p, fd)
           C == [K EXCEPT !.proc[p].ofile[fd] = 0]
           D == [C EXCEPT !.file[f] = NoFile]
<1>1. sys_close(K, p, fd).k = K \/ sys_close(K, p, fd).k = fileclose(C, f)
  BY DEF sys_close, Fail, Ret
<1> HIDE DEF f
<1>2. Astray(C) BY DEF Astray
<1> HIDE DEF C
<1>3. Astray(D) BY <1>2 DEF Astray
<1>4. \/ fileclose(C, f) = [C EXCEPT !.panic = "fileclose"]
      \/ fileclose(C, f) = [C EXCEPT !.file[f].ref = @ - 1]
      \/ fileclose(C, f) = pipeclose(D, C.file[f].ip, C.file[f].writable)
      \/ fileclose(C, f) = iput(D, C.file[f].ip)
      \/ fileclose(C, f) = D
  BY DEF fileclose
<1> HIDE DEF D
<1>5. Astray([C EXCEPT !.panic = "fileclose"]) /\ Astray([C EXCEPT !.file[f].ref = @ - 1])
  BY <1>2 DEF Astray
<1>6. ASSUME NEW i, NEW w PROVE Astray(pipeclose(D, i, w))
  <2>1. \E X : pipeclose(D, i, w) = [D EXCEPT !.pipe[i] = X] BY DEF pipeclose
  <2> QED BY <2>1, <1>3 DEF Astray
<1>7. ASSUME NEW i PROVE Astray(iput(D, i))
  <2>1. \/ iput(D, i) = [D EXCEPT !.inode[i] = NoInode]
        \/ iput(D, i) = [D EXCEPT !.inode[i].ref = @ - 1]
    BY DEF iput
  <2> QED BY <2>1, <1>3 DEF Astray
<1> QED BY <1>1, <1>3, <1>4, <1>5, <1>6, <1>7

\* p, with no descriptor left, becomes a zombie; its directory is in hand.
LEMMA ZombieKeeps ==
  ASSUME NEW K, KInv(K, 0, 0), NEW p \in Procs, K.proc[p].state = "LIVE",
         \A x \in Fds : K.proc[p].ofile[x] = 0,
         NEW K2, Fields(K2), K2.inode = K.inode, K2.file = K.file, K2.pipe = K.pipe, K2.free = K.free,
         K2.proc[p].state = "ZOMBIE", K2.proc[p].sz = K.proc[p].sz,
         \A q \in Procs \ {p} : /\ K2.proc[q].state = K.proc[q].state /\ K2.proc[q].sz = K.proc[q].sz
                                /\ K2.proc[q].cwd = K.proc[q].cwd /\ K2.proc[q].ofile = K.proc[q].ofile
  PROVE  KInv(K2, K.proc[p].cwd, 0)
<1> DEFINE d == K.proc[p].cwd
           P == K.proc
           P2 == K2.proc
<1>0. Referred(TY(K), NL(K), RF(K), K.file, P, 0) /\ Counted(K.file, P, 0) /\ Paid(P, K.free)
  BY DEF KInv
<1>1. /\ TY(K2) = TY(K) /\ NL(K2) = NL(K) /\ RF(K2) = RF(K) /\ NM(K2) = NM(K) /\ TG(K2) = TG(K)
      /\ Dirs(K2)
  BY SameInodes DEF KInv
<1>2. d \in Inums /\ TY(K)[d] # "NONE" BY <1>0 DEF Referred
<1>3. Counted(K2.file, P2, 0)
  <2>1. \A f \in Files : FdsOf(P2, f) = FdsOf(P, f) BY KernelSizes DEF FdsOf
  <2> QED BY <2>1, <1>0 DEF Counted
<1>4. Paid(P2, K2.free)
  <2>1. PagesOf(P2) = PagesOf(P)
    <3>1. \A q \in Procs : P2[q].sz = P[q].sz OBVIOUS
    <3> QED BY <3>1 DEF PagesOf
  <2>2. \A q \in Procs : P2[q].state = "UNUSED" => P2[q].sz = 0 BY <1>0 DEF Paid
  <2> QED BY <2>1, <2>2, <1>0 DEF Paid
<1>5. ASSUME NEW j \in Inums
      PROVE  Cardinality(CwdOf(P2, j)) + Hand(d, j) = Cardinality(CwdOf(P, j))
  <2>0. IsFiniteSet(CwdOf(P, j)) /\ Cardinality(CwdOf(P, j)) \in Nat BY FiniteRefs
  <2>1. CASE j = d
    <3>1. CwdOf(P2, j) = CwdOf(P, j) \ {p} BY <2>1 DEF CwdOf
    <3>2. p \in CwdOf(P, j) BY <2>1 DEF CwdOf
    <3>3. Cardinality(CwdOf(P, j) \ {p}) = Cardinality(CwdOf(P, j)) - 1 BY <3>2, <2>0, FS_RemoveElement
    <3>4. Cardinality(CwdOf(P2, j)) = Cardinality(CwdOf(P, j)) - 1 BY <3>1, <3>3, Zenon
    <3>5. Hand(d, j) = 1 BY <2>1 DEF Hand
    <3> QED BY <3>4, <3>5, <2>0
  <2>2. CASE j # d
    <3>1. CwdOf(P2, j) = CwdOf(P, j) BY <2>2 DEF CwdOf
    <3>2. Hand(d, j) = 0 BY <2>2 DEF Hand
    <3> QED BY <3>1, <3>2, <2>0
  <2> QED BY <2>1, <2>2
<1>6. Referred(TY(K), NL(K), RF(K), K.file, P2, d)
  <2>1. ASSUME NEW j \in Inums, TY(K)[j] # "NONE"
        PROVE  RF(K)[j] = Cardinality(OpenOf(K.file, j)) + Cardinality(CwdOf(P2, j)) + Hand(d, j)
    <3>1. RF(K)[j] = Cardinality(OpenOf(K.file, j)) + Cardinality(CwdOf(P, j)) + Hand(0, j)
      BY <2>1, <1>0 DEF Referred
    <3>2. /\ Cardinality(OpenOf(K.file, j)) \in Nat /\ Cardinality(CwdOf(P, j)) \in Nat
          /\ Cardinality(CwdOf(P2, j)) \in Nat
      BY FiniteRefs
    <3>3. Hand(0, j) = 0 /\ Hand(d, j) \in Nat BY KernelSizes DEF Hand
    <3> HIDE DEF d, P, P2
    <3> QED BY <3>1, <3>2, <3>3, <1>5
  <2>2. \A q \in Procs : P2[q].state = "LIVE" => P2[q].cwd \in Inums /\ TY(K)[P2[q].cwd] # "NONE"
    BY <1>0 DEF Referred
  <2> QED BY <2>1, <2>2, <1>0, <1>2 DEF Referred
<1>7. KInv(K2, d, 0) BY <1>1, <1>3, <1>4, <1>6 DEF KInv
<1> QED BY <1>7

\* exit() after its loop.
LEMMA LeaveKeeps ==
  ASSUME NEW S, KInv(S, 0, 0), NEW p \in Procs, S.proc[p].state = "LIVE",
         \A x \in Fds : S.proc[p].ofile[x] = 0
  PROVE  KInv(Left(iput(S, S.proc[p].cwd), p), 0, 0)
<1> DEFINE d == S.proc[p].cwd
           left == iput(S, d)
           Q(L) == [q \in Procs |->
                      IF q = p THEN [L.proc[p] EXCEPT !.state = "ZOMBIE", !.cwd = 0]
                      ELSE IF L.proc[q].parent = p
                      THEN [L.proc[q] EXCEPT !.parent = INIT] ELSE L.proc[q]]
           S2 == [S EXCEPT !.proc = Q(S)]
           K2 == [left EXCEPT !.proc = Q(left)]
<1>0. Fields(S) BY DEF KInv
<1>1. d \in Inums BY DEF KInv, Referred
<1>2. /\ DOMAIN left = DOMAIN S /\ left.file = S.file /\ left.pipe = S.pipe
      /\ left.free = S.free /\ left.proc = S.proc
  BY <1>0 DEF iput, Fields
<1>3. Q(left) = Q(S) BY <1>2
<1>d. \A q \in Procs : DOMAIN S.proc[q] = {"state", "parent", "killed", "cwd", "sz", "ofile"} BY <1>0 DEF Fields
<1>p. Q(S)[p] = [S.proc[p] EXCEPT !.state = "ZOMBIE", !.cwd = 0] OBVIOUS
<1>o. \A q \in Procs \ {p} : Q(S)[q] = [S.proc[q] EXCEPT !.parent = INIT] \/ Q(S)[q] = S.proc[q] OBVIOUS
<1>r. DOMAIN Q(S) = Procs OBVIOUS
<1>l. Left(left, p) = K2 BY DEF Left
<1> HIDE DEF Q, left
<1>q. /\ DOMAIN Q(S) = Procs /\ Q(S)[p].state = "ZOMBIE" /\ Q(S)[p].sz = S.proc[p].sz
      /\ \A q \in Procs : Q(S)[q].sz = S.proc[q].sz /\ Q(S)[q].ofile = S.proc[q].ofile
                          /\ DOMAIN Q(S)[q] = DOMAIN S.proc[q]
      /\ \A q \in Procs \ {p} : Q(S)[q].state = S.proc[q].state /\ Q(S)[q].cwd = S.proc[q].cwd
  <2>1. Q(S)[p].state = "ZOMBIE" /\ Q(S)[p].sz = S.proc[p].sz /\ Q(S)[p].ofile = S.proc[p].ofile
        /\ DOMAIN Q(S)[p] = DOMAIN S.proc[p]
    BY <1>p, <1>d
  <2>2. ASSUME NEW q \in Procs \ {p}
        PROVE  /\ Q(S)[q].state = S.proc[q].state /\ Q(S)[q].cwd = S.proc[q].cwd
               /\ Q(S)[q].sz = S.proc[q].sz /\ Q(S)[q].ofile = S.proc[q].ofile
               /\ DOMAIN Q(S)[q] = DOMAIN S.proc[q]
    BY <1>o, <1>d
  <2> QED BY <2>1, <2>2, <1>r
<1>4. /\ S2.inode = S.inode /\ S2.file = S.file /\ S2.pipe = S.pipe /\ S2.free = S.free
      /\ S2.proc = Q(S) /\ DOMAIN S2 = DOMAIN S
  BY <1>0 DEF Fields
<1>5. /\ K2.inode = left.inode /\ K2.file = S.file /\ K2.pipe = S.pipe /\ K2.free = S.free
      /\ K2.proc = Q(S) /\ DOMAIN K2 = DOMAIN S
  BY <1>0, <1>2, <1>3 DEF Fields
<1> HIDE DEF S2, K2
<1>i. left.inode = iput(S, d).inode BY DEF left
<1>6. Fields(S2) BY <1>0, <1>4, <1>q DEF Fields
<1>7. KInv(S2, d, 0) BY <1>4, <1>6, <1>q, ZombieKeeps
<1>8. KInv(iput(S2, d), 0, 0) /\ Rest(iput(S2, d), S2) BY <1>1, <1>7, IputKeeps
<1>9. iput(S2, d).inode = left.inode BY <1>0, <1>4, <1>6, <1>i, IputOf
<1>10. /\ K2.inode = iput(S2, d).inode /\ K2.file = iput(S2, d).file /\ K2.pipe = iput(S2, d).pipe
       /\ K2.free = iput(S2, d).free /\ K2.proc = iput(S2, d).proc
  BY <1>4, <1>5, <1>8, <1>9 DEF Rest
<1>11. DOMAIN K2 = DOMAIN iput(S2, d) BY <1>0, <1>5, <1>8 DEF KInv, Fields
<1>12. KInv(K2, 0, 0) BY <1>8, <1>10, <1>11, SameParts
<1> QED BY <1>l, <1>12 DEF left

LEMMA ExitCall ==
  ASSUME NEW K, NEW p \in Procs
  PROVE  /\ Astray(K) => Astray(exit(K, p))
         /\ KInv(K, 0, 0) /\ K.proc[p].state = "LIVE" => KInv(exit(K, p), 0, 0)
<1>n. NOFILE \in Nat BY KernelAssumption
<1>1. PICK sh : /\ sh = [n \in 0..NOFILE |-> IF n = 0 THEN K ELSE sys_close(sh[n - 1], p, n - 1).k]
                /\ exit(K, p) = Left(iput(sh[NOFILE], K.proc[p].cwd), p)
  BY ShutExists, Zenon
<1>0. 0 \in 0..NOFILE BY <1>n
<1>a. sh[0] = K BY <1>0, <1>1
<1>b. \A n \in 0..NOFILE : n # 0 => sh[n] = sys_close(sh[n - 1], p, n - 1).k BY <1>1
<1>2. ASSUME Astray(K) PROVE Astray(exit(K, p))
  <2> DEFINE Bad == {n \in 0..NOFILE : ~Astray(sh[n])}
  <2>1. Bad = {}
    <3>1. SUFFICES ASSUME Bad # {} PROVE FALSE OBVIOUS
    <3>2. PICK m \in Bad : \A x \in Bad : m <= x
      <4>1. Bad \in SUBSET Nat BY <1>n
      <4> QED BY <4>1, <3>1, LeastExists
    <3>3. m \in 0..NOFILE /\ ~Astray(sh[m]) BY <3>2
    <3>4. m # 0 BY <3>3, <1>2, <1>a
    <3>5. m - 1 \in 0..NOFILE /\ ~(m <= m - 1) BY <3>3, <3>4, <1>n
    <3>6. Astray(sh[m - 1]) BY <3>2, <3>5
    <3> QED BY <3>3, <3>4, <3>6, <1>b, CloseStrays
  <2>2. Astray(sh[NOFILE]) BY <2>1, <1>n
  <2> DEFINE d == K.proc[p].cwd
             left == iput(sh[NOFILE], d)
  <2>3. Astray(left)
    <3>1. \/ left = [sh[NOFILE] EXCEPT !.inode[d] = NoInode]
          \/ left = [sh[NOFILE] EXCEPT !.inode[d].ref = @ - 1]
      BY DEF iput
    <3> QED BY <3>1, <2>2 DEF Astray
  <2> HIDE DEF left
  <2>4. \E X : exit(K, p) = [left EXCEPT !.proc = X] BY <1>1 DEF left, Left
  <2> QED BY <2>3, <2>4 DEF Astray
<1>3. ASSUME KInv(K, 0, 0), K.proc[p].state = "LIVE" PROVE KInv(exit(K, p), 0, 0)
  <2> DEFINE Ok(n) == /\ KInv(sh[n], 0, 0) /\ sh[n].proc[p].state = "LIVE"
                      /\ sh[n].proc[p].cwd = K.proc[p].cwd
                      /\ \A x \in Fds : x < n => sh[n].proc[p].ofile[x] = 0
             Bad == {n \in 0..NOFILE : ~Ok(n)}
  <2>1. Ok(0) BY <1>3, <1>a, KernelSizes
  <2>2. ASSUME NEW m \in 0..NOFILE, m # 0, Ok(m - 1) PROVE Ok(m)
    <3> DEFINE T == sh[m - 1]
               T2 == sys_close(T, p, m - 1).k
    <3>1. sh[m] = T2 BY <2>2, <1>b
    <3>2. KInv(T, 0, 0) /\ T.proc[p].state = "LIVE" /\ T.proc[p].cwd = K.proc[p].cwd
          /\ \A x \in Fds : x < m - 1 => T.proc[p].ofile[x] = 0
      BY <2>2
    <3> HIDE DEF T
    <3>3. /\ KInv(T2, 0, 0) /\ T2.proc[p].state = "LIVE" /\ T2.proc[p].cwd = T.proc[p].cwd
          /\ \A x \in Fds : T2.proc[p].ofile[x] = IF x = m - 1 THEN 0 ELSE T.proc[p].ofile[x]
      BY <3>2, CloseKeeps
    <3> HIDE DEF T2
    <3>4. \A x \in Fds : x < m => x = m - 1 \/ x < m - 1 BY <1>n, KernelSizes
    <3> QED BY <3>1, <3>2, <3>3, <3>4
  <2> HIDE DEF Ok
  <2>3. Bad = {}
    <3>1. SUFFICES ASSUME Bad # {} PROVE FALSE OBVIOUS
    <3>2. PICK m \in Bad : \A x \in Bad : m <= x
      <4>1. Bad \in SUBSET Nat BY <1>n
      <4> QED BY <4>1, <3>1, LeastExists
    <3>3. m \in 0..NOFILE /\ ~Ok(m) BY <3>2
    <3>4. m # 0 BY <3>3, <2>1
    <3>5. m - 1 \in 0..NOFILE /\ ~(m <= m - 1) BY <3>3, <3>4, <1>n
    <3>6. Ok(m - 1) BY <3>2, <3>5
    <3> QED BY <3>3, <3>4, <3>6, <2>2
  <2>4. Ok(NOFILE) BY <2>3, <1>n
  <2> DEFINE S == sh[NOFILE]
  <2>5. /\ KInv(S, 0, 0) /\ S.proc[p].state = "LIVE" /\ S.proc[p].cwd = K.proc[p].cwd
        /\ \A x \in Fds : S.proc[p].ofile[x] = 0
    <3>1. \A x \in Fds : x < NOFILE BY <1>n DEF Fds
    <3> QED BY <3>1, <2>4 DEF Ok
  <2> HIDE DEF S
  <2>6. exit(K, p) = Left(iput(S, S.proc[p].cwd), p)
    <3>1. exit(K, p) = Left(iput(S, K.proc[p].cwd), p) BY <1>1 DEF S
    <3> QED BY <3>1, <2>5
  <2> QED BY <2>5, <2>6, LeaveKeeps
<1> QED BY <1>2, <1>3
-----------------------------------------------------------------------------
(* Once a name has been made in a removed directory, that stays so.        *)

LEMMA PutStrays ==
  ASSUME NEW K, Astray(K), NEW i
  PROVE  Astray(iput(K, i)) /\ Astray(iget(K, i))
<1>1. \/ iput(K, i) = [K EXCEPT !.inode[i] = NoInode]
      \/ iput(K, i) = [K EXCEPT !.inode[i].ref = @ - 1]
  BY DEF iput
<1>2. Astray(iput(K, i)) BY <1>1 DEF Astray
<1>3. Astray(iget(K, i)) BY DEF Astray, iget
<1> QED BY <1>2, <1>3

LEMMA DupStrays ==
  ASSUME NEW K, Astray(K), NEW p, NEW fd
  PROVE  Astray(sys_dup(K, p, fd).k)
<1> DEFINE f == argfd(K, p, fd)
           new == fdalloc(K, p)
           K1 == filedup(K, f)
           K2 == [K1 EXCEPT !.proc[p].ofile[new] = f]
<1>1. sys_dup(K, p, fd).k = K \/ sys_dup(K, p, fd).k = K2 BY DEF sys_dup, Fail, Ret
<1> HIDE DEF f, new
<1>2. Astray(K1) BY DEF Astray, filedup
<1> HIDE DEF K1
<1>3. Astray(K2) BY <1>2 DEF Astray
<1> QED BY <1>1, <1>3

LEMMA PipeStrays ==
  ASSUME NEW K, Astray(K), NEW p
  PROVE  Astray(sys_pipe(K, p).k)
<1> DEFINE i == First(Pipes, LAMBDA x : K.pipe[x] = NoPipe)
           rf == filealloc(K)
           end(w) == [ref |-> 1, type |-> "FD_PIPE", ip |-> i, off |-> 0,
                      readable |-> ~w, writable |-> w]
           k1 == [K EXCEPT !.file[rf] = end(FALSE)]
           wf == filealloc(k1)
           fd0 == fdalloc(K, p)
           k2 == [k1 EXCEPT !.file[wf] = end(TRUE), !.proc[p].ofile[fd0] = rf,
                            !.pipe[i] = [NoPipe EXCEPT !.readopen = TRUE, !.writeopen = TRUE]]
           fd1 == fdalloc(k2, p)
           k3 == [k2 EXCEPT !.proc[p].ofile[fd1] = wf]
<1>1. sys_pipe(K, p).k = K \/ sys_pipe(K, p).k = k3 BY DEF sys_pipe, Fail, Ret
<1> HIDE DEF i, rf, end, fd0, fd1
<1>2. Astray(k1) BY DEF Astray
<1> HIDE DEF k1, wf
<1>3. Astray(k2) BY <1>2 DEF Astray
<1> HIDE DEF k2
<1>4. Astray(k3) BY <1>3 DEF Astray
<1> HIDE DEF k3
<1> QED BY <1>1, <1>4

LEMMA CreateStrays ==
  ASSUME NEW K, Astray(K), NEW p, NEW path, NEW type
  PROVE  Astray(create(K, p, path, type).k)
<1>1. ASSUME NEW why PROVE Astray(Panic(K, why).k) BY PanicKeeps
<1>2. ASSUME NEW d, NEW name, NEW new PROVE Astray(newInode(K, d, name, type, new).k)
  <2> DEFINE M == [K EXCEPT !.inode[new] =
                     [type |-> type, nlink |-> 1, ref |-> 1,
                      data |-> IF type = "DIR" THEN <<<<".", new>>, <<"..", d>>>> ELSE <<>>],
                            !.inode[d].nlink = IF type = "DIR" THEN @ + 1 ELSE @,
                            !.strayed = @ \/ K.inode[d].nlink = 0]
             R == dirlink(M, d, name, new)
             c == newInode(K, d, name, type, new)
             m == Making(K, d, name, type, new)
  <2>1. \/ m = Panic(K, "ialloc: no inodes") \/ m = Panic(K, "create: dirlink") \/ m = Ret(R.k, new)
    BY DEF Making
  <2>a. c = m \/ c = Panic(K, "dirlink") \/ Stopped(c, K) BY NewInodeIs
  <2>2. Astray(M) BY DEF Astray
  <2> HIDE DEF M
  <2>3. Astray(R.k) BY <2>2, DirlinkStrays
  <2> HIDE DEF R
  <2>4. Ret(R.k, new).k = R.k BY DEF Ret
  <2> HIDE DEF c, m
  <2>5. Astray(m.k) BY <2>1, <2>3, <2>4, <1>1
  <2>6. Astray(c.k) BY <2>a, <2>5, <1>1, StoppedKeeps
  <2> QED BY <2>6 DEF c
<1>3. ASSUME NEW d, NEW name PROVE Astray(createIn(K, d, name, type).k)
  <2> DEFINE e == dirlookup(K, d, name)
             i == K.inode[d].data[e][2]
             c == createIn(K, d, name, type)
  <2>1. \/ c = Ret(K, 0) \/ Stopped(c, K)
        \/ c = newInode(K, d, name, type, ialloc(K))
        \/ c = Panic(K, "ilock: no type")
        \/ c = Ret(iget(K, i), i)
    BY CreateInIs
  <2> HIDE DEF e, i, c
  <2>3. Stopped(c, K) => Astray(c.k) BY StoppedKeeps
  <2>4. c = Ret(K, 0) => Astray(c.k) BY DEF Ret
  <2>5. c = Ret(iget(K, i), i) => Astray(c.k) BY PutStrays DEF Ret
  <2>2. Astray(c.k) BY <2>1, <2>3, <2>4, <2>5, <1>1, <1>2, Zenon
  <2> QED BY <2>2 DEF c
<1>4. \/ create(K, p, path, type) = Panic(K, "ilock: no type")
      \/ create(K, p, path, type) = createIn(K, nameiparent(K, p, path), LastName(path), type)
      \/ Stopped(create(K, p, path, type), K)
  BY CreateIs
<1> QED BY <1>1, <1>3, <1>4, StoppedKeeps

LEMMA MknodStrays ==
  ASSUME NEW K, Astray(K), NEW p, NEW path, NEW type
  PROVE  Astray(sys_mknod(K, p, path, type).k)
<1> DEFINE c == create(K, p, path, type)
<1>1. sys_mknod(K, p, path, type).k = c.k \/ sys_mknod(K, p, path, type).k = iput(c.k, c.r)
  BY DEF sys_mknod, Fail, Ret
<1>2. Astray(c.k) BY CreateStrays
<1> HIDE DEF c
<1> QED BY <1>1, <1>2, PutStrays

LEMMA OpenStrays ==
  ASSUME NEW K, Astray(K), NEW p, NEW path, NEW flags
  PROVE  Astray(sys_open(K, p, path, flags).k)
<1> DEFINE type == IF "O_CHECKED" \in flags THEN "CHECKED" ELSE "FILE"
           c == create(K, p, path, type)
           i == namei(K, p, path)
           o == openFound(K, i, flags)
           R == sys_open(K, p, path, flags)
<1>1. \/ R = openInode(c.k, p, c.r, flags)
      \/ R = Panic(K, "ilock: no type")
      \/ R = openInode(o.k, p, o.r, flags)
      \/ Stopped(R, K)
  <2>1. CASE "O_CREATE" \in flags
    <3>1. R = openInode(c.k, p, c.r, flags) BY <2>1 DEF sys_open
    <3> QED BY <3>1
  <2>2. CASE "O_CREATE" \notin flags BY <2>2, OpenIs
  <2> QED BY <2>1, <2>2
<1>2. Astray(c.k) BY CreateStrays
<1>3. o.k = K \/ o.k = iget(K, i) BY DEF openFound, Ret
<1> HIDE DEF c, i, o, R
<1>4. Astray(o.k) BY <1>3, PutStrays
<1>5. Astray(Panic(K, "ilock: no type").k) BY PanicKeeps
<1>a. Stopped(R, K) => Astray(R.k) BY StoppedKeeps
<1>6. Astray(R.k) BY <1>1, <1>2, <1>4, <1>5, <1>a, OpenInodeStrays
<1> QED BY <1>6 DEF R

LEMMA UnlinkStrays ==
  ASSUME NEW K, Astray(K), NEW p, NEW path
  PROVE  Astray(sys_unlink(K, p, path).k)
<1>1. ASSUME NEW why PROVE Astray(Panic(K, why).k) BY PanicKeeps
<1>2. ASSUME NEW d, NEW e PROVE Astray(unlinkAt(K, d, e).k)
  <2> DEFINE i == K.inode[d].data[e][2]
             E == [K EXCEPT !.inode[d].data[e] = <<"", 0>>,
                            !.inode[d].nlink = IF IsDir(K, i) THEN @ - 1 ELSE @]
             G == [iget(E, i) EXCEPT !.inode[i].nlink = @ - 1]
             R == unlinkAt(K, d, e)
             N == Unlinking(K, d, e)
  <2>1. N.k = K \/ N = Panic(K, "unlink: nlink < 1") \/ N.k = iput(G, i)
    BY DEF Unlinking, Fail, Ret
  <2>a. R = N \/ Stopped(R, K) BY UnlinkAtIs
  <2>2. Astray(E) BY DEF Astray
  <2> HIDE DEF E, i
  <2>3. Astray(iget(E, i)) BY <2>2, PutStrays
  <2>4. Astray(G) BY <2>3 DEF Astray
  <2> HIDE DEF G, R, N
  <2>5. Astray(N.k) BY <2>1, <2>4, <1>1, PutStrays
  <2>6. Astray(R.k) BY <2>a, <2>5, StoppedKeeps
  <2> QED BY <2>6 DEF R
<1> DEFINE d == nameiparent(K, p, path)
           e == dirlookup(K, d, LastName(path))
           R == sys_unlink(K, p, path)
<1>3. R.k = K \/ Stopped(R, K) \/ R = Panic(K, "ilock: no type") \/ R = unlinkAt(K, d, e)
  BY UnlinkWalk
<1> HIDE DEF d, e, R
<1>4. Astray(R.k) BY <1>1, <1>2, <1>3, StoppedKeeps
<1> QED BY <1>4 DEF R

LEMMA ChdirStrays ==
  ASSUME NEW K, Astray(K), NEW p, NEW path
  PROVE  Astray(sys_chdir(K, p, path).k)
<1> DEFINE i == namei(K, p, path)
           d == K.proc[p].cwd
           P == iput(iget(K, i), d)
           Q == [P EXCEPT !.proc[p].cwd = i]
           R == sys_chdir(K, p, path)
<1>1. R.k = K \/ Stopped(R, K) \/ R = Panic(K, "ilock: no type") \/ R.k = Moved(K, p, i) BY ChdirIs
<1>q. Moved(K, p, i) = Q BY DEF Moved
<1> HIDE DEF i, d, R
<1>2. Astray(P) BY PutStrays
<1> HIDE DEF P
<1>3. Astray(Q) BY <1>2 DEF Astray
<1> HIDE DEF Q
<1>4. Astray(Panic(K, "ilock: no type").k) BY PanicKeeps
<1>6. Stopped(R, K) => Astray(R.k) BY StoppedKeeps
<1>5. Astray(R.k) BY <1>1, <1>q, <1>3, <1>4, <1>6, Zenon
<1> QED BY <1>5 DEF R

LEMMA LinkCallStrays ==
  ASSUME NEW K, Astray(K), NEW p, NEW old, NEW new
  PROVE  Astray(sys_link(K, p, old, new).k)
<1> DEFINE i == namei(K, p, old)
           d == nameiparent(K, p, new)
           R == sys_link(K, p, old, new)
           L == linkTo(K, i, d, LastName(new))
           N == Linking(K, i, d, LastName(new))
<1>1. R.k = K \/ Stopped(R, K) \/ R = Panic(K, "ilock: no type") \/ R = L BY LinkCallIs
<1>2. L = N \/ L = Panic(K, "dirlink") \/ Stopped(L, K) BY LinkIs
<1>3. Astray(N.k) BY LinkStrays
<1> HIDE DEF R, L, N
<1>5. ASSUME NEW why PROVE Astray(Panic(K, why).k) BY PanicKeeps
<1>6. (Stopped(R, K) => Astray(R.k)) /\ (Stopped(L, K) => Astray(L.k)) BY StoppedKeeps
<1>4. Astray(R.k) BY <1>1, <1>2, <1>3, <1>5, <1>6
<1> QED BY <1>4 DEF R
-----------------------------------------------------------------------------
(* Every step of every process.                                            *)

LEMMA PathTyping ==
  ASSUME NEW path \in Seq(STRING)
  PROVE  path \in Seq(Strings)
<1>1. Len(path) \in Nat /\ path = [i \in 1..Len(path) |-> path[i]] OBVIOUS
<1>2. ASSUME NEW i \in 1..Len(path) PROVE path[i] \in Strings
  <2>1. path[i] \in STRING BY ElementOfSeq, Zenon
  <2> QED BY <2>1, Literals, Zenon
<1> QED BY <1>1, <1>2, IsASeq

Calls == {"mkdir", "chdir", "unlink", "link", "open", "close", "write",
          "pipe", "wait", "kill", "sbrk", "read", "mknod", "dup"}

\* What a step of p does to the kernel K.
Did(K, p, M) ==
  \/ \E path \in Seq(Strings) :
       \/ \E type \in {"DIR", "DEV"} : M = sys_mknod(K, p, path, type).k
       \/ M = sys_chdir(K, p, path).k \/ M = sys_unlink(K, p, path).k \/ M = sys_exec(K, p, path).k
       \/ \E new \in Seq(Strings) : M = sys_link(K, p, path, new).k
       \/ \E flags : M = sys_open(K, p, path, flags).k
  \/ \E fd : \/ M = sys_dup(K, p, fd).k \/ M = sys_close(K, p, fd).k \/ M = kill(K, fd).k
             \/ \E n : M = sys_read(K, p, fd, n).k
             \/ \E s, n : M = sys_write(K, p, fd, s, n).k
  \/ \E n \in Int : K.proc[p].sz + n > 0 /\ M = sys_sbrk(K, p, n).k
  \/ M = sys_pipe(K, p).k \/ M = wait(K, p).k \/ M = fork(K, p).k \/ M = exit(K, p)

LEMMA CallDid ==
  ASSUME NEW p \in Procs, Compiles(p), Head(code[p]).op \in Calls
  PROVE  Did(k, p, Result(p).k)
<1> DEFINE c == Head(code[p])
           fd == reg[p][c.a]
<1>0. /\ c.op \in {"mkdir", "mknod", "chdir", "unlink", "link", "open"} => c.a \in Seq(Strings)
      /\ c.op = "link" => c.b \in Seq(Strings)
      /\ c.op = "sbrk" => c.a \in Int /\ k.proc[p].sz + c.a > 0
  BY PathTyping DEF Compiles
<1>1. CASE c.op = "mkdir"
  <2>1. Result(p) = sys_mknod(k, p, c.a, "DIR") BY <1>1 DEF Result, Write, Read
  <2> HIDE DEF c, fd
  <2> QED BY <2>1, <1>0, <1>1 DEF Did
<1>2. CASE c.op = "mknod"
  <2>1. Result(p) = sys_mknod(k, p, c.a, "DEV") BY <1>2 DEF Result, Write, Read
  <2> HIDE DEF c, fd
  <2> QED BY <2>1, <1>0, <1>2 DEF Did
<1>3. CASE c.op = "dup"
  <2>1. Result(p) = sys_dup(k, p, fd) BY <1>3 DEF Result, Write, Read
  <2> HIDE DEF c, fd
  <2> QED BY <2>1, <1>0, <1>3 DEF Did
<1>4. CASE c.op = "chdir"
  <2>1. Result(p) = sys_chdir(k, p, c.a) BY <1>4 DEF Result, Write, Read
  <2> HIDE DEF c, fd
  <2> QED BY <2>1, <1>0, <1>4 DEF Did
<1>5. CASE c.op = "unlink"
  <2>1. Result(p) = sys_unlink(k, p, c.a) BY <1>5 DEF Result, Write, Read
  <2> HIDE DEF c, fd
  <2> QED BY <2>1, <1>0, <1>5 DEF Did
<1>6. CASE c.op = "link"
  <2>1. Result(p) = sys_link(k, p, c.a, c.b) BY <1>6 DEF Result, Write, Read
  <2> HIDE DEF c, fd
  <2> QED BY <2>1, <1>0, <1>6 DEF Did
<1>7. CASE c.op = "open"
  <2>1. Result(p) = sys_open(k, p, c.a, c.b) BY <1>7 DEF Result, Write, Read
  <2> HIDE DEF c, fd
  <2> QED BY <2>1, <1>0, <1>7 DEF Did
<1>8. CASE c.op = "close"
  <2>1. Result(p) = sys_close(k, p, fd) BY <1>8 DEF Result, Write, Read
  <2> HIDE DEF c, fd
  <2> QED BY <2>1, <1>0, <1>8 DEF Did
<1>9. CASE c.op = "write"
  <2>1. Result(p) = sys_write(k, p, fd, c.b, done[p]) BY <1>9 DEF Result, Write, Read
  <2> HIDE DEF c, fd
  <2> QED BY <2>1, <1>0, <1>9 DEF Did
<1>10. CASE c.op = "pipe"
  <2>1. Result(p) = sys_pipe(k, p) BY <1>10 DEF Result, Write, Read
  <2> HIDE DEF c, fd
  <2> QED BY <2>1, <1>0, <1>10 DEF Did
<1>11. CASE c.op = "wait"
  <2>1. Result(p) = wait(k, p) BY <1>11 DEF Result, Write, Read
  <2> HIDE DEF c, fd
  <2> QED BY <2>1, <1>0, <1>11 DEF Did
<1>12. CASE c.op = "kill"
  <2>1. Result(p) = kill(k, fd) BY <1>12 DEF Result, Write, Read
  <2> HIDE DEF c, fd
  <2> QED BY <2>1, <1>0, <1>12 DEF Did
<1>13. CASE c.op = "sbrk"
  <2>1. Result(p) = sys_sbrk(k, p, c.a) BY <1>13 DEF Result, Write, Read
  <2> HIDE DEF c, fd
  <2> QED BY <2>1, <1>0, <1>13 DEF Did
<1>14. CASE c.op = "read"
  <2>1. Result(p) = sys_read(k, p, fd, c.b[1]) BY <1>14 DEF Result, Write, Read
  <2> HIDE DEF c, fd
  <2> QED BY <2>1, <1>0, <1>14 DEF Did
<1> QED BY <1>1, <1>2, <1>3, <1>4, <1>5, <1>6, <1>7, <1>8, <1>9, <1>10, <1>11, <1>12, <1>13, <1>14 DEF Calls

LEMMA StepDid ==
  ASSUME Next
  PROVE  \/ k' = k
         \/ /\ k.panic = ""
            /\ \E p \in Procs : \/ k.proc[p].state = "LIVE" /\ Did(k, p, k')
                                \/ k.proc[p].state = "ZOMBIE" /\ k' = reap(k, p)
<1> DEFINE Goal == \/ k' = k
                   \/ /\ k.panic = ""
                      /\ \E p \in Procs : \/ k.proc[p].state = "LIVE" /\ Did(k, p, k')
                                          \/ k.proc[p].state = "ZOMBIE" /\ k' = reap(k, p)
<1>1. ASSUME NEW p \in Procs, call(p) PROVE Goal
  <2>1. k.panic = "" /\ k.proc[p].state = "LIVE" /\ Compiles(p) /\ Head(code[p]).op \in Calls
    BY <1>1 DEF call, At, Runs, Calls
  <2>2. k' = Result(p).k BY <1>1 DEF call, Return
  <2> QED BY <2>1, <2>2, CallDid
<1>2. ASSUME NEW p \in Procs PROVE Did(k, p, Write(p).k) /\ Did(k, p, Read(p).k)
  BY DEF Did, Write, Read
<1>3. ASSUME NEW p \in Procs, fill(p) \/ reads(p) \/ copies(p) PROVE Goal
  <2>1. k.panic = "" /\ k.proc[p].state = "LIVE" BY <1>3 DEF fill, reads, copies, At, Runs
  <2>2. k' = Write(p).k \/ k' = Read(p).k BY <1>3 DEF fill, reads, copies, Return
  <2> QED BY <2>1, <2>2, <1>2
<1>4. ASSUME NEW p \in Procs, forks(p) PROVE Goal
  <2>1. k.panic = "" /\ k.proc[p].state = "LIVE" /\ k' = fork(k, p).k BY <1>4 DEF forks, At, Runs
  <2> QED BY <2>1 DEF Did
<1>5. ASSUME NEW p \in Procs, waits(p) PROVE Goal
  <2>1. k.panic = "" /\ k.proc[p].state = "LIVE" BY <1>5 DEF waits, At, Runs
  <2>2. k' = k \/ k' = wait(k, p).k BY <1>5 DEF waits, Return
  <2> QED BY <2>1, <2>2 DEF Did
<1>6. ASSUME NEW p \in Procs, exits(p) PROVE Goal
  <2>1. k.panic = "" /\ k.proc[p].state = "LIVE" /\ k' = exit(k, p) BY <1>6 DEF exits, Ends
  <2> QED BY <2>1 DEF Did
<1>7. ASSUME NEW p \in Procs, reaps(p) PROVE Goal BY <1>7 DEF reaps
<1>8. ASSUME NEW p \in Procs, chooses(p) PROVE Goal BY <1>8 DEF chooses
<1>9. ASSUME NEW p \in Procs, branches(p) PROVE Goal
  <2> DEFINE c == Head(code[p])
  <2>1. k.panic = "" /\ k.proc[p].state = "LIVE" /\ Compiles(p) BY <1>9 DEF branches, At, Runs
  <2>2. k' = k \/ (c.op = "exec" /\ k' = sys_exec(k, p, c.a).k) BY <1>9 DEF branches, Ret
  <2>3. c.op = "exec" => c.a \in Seq(Strings) BY <2>1, PathTyping DEF Compiles
  <2> HIDE DEF c
  <2> QED BY <2>1, <2>2, <2>3 DEF Did
<1> QED BY <1>1, <1>3, <1>4, <1>5, <1>6, <1>7, <1>8, <1>9 DEF Next

LEMMA DidStrays ==
  ASSUME NEW K, Astray(K), NEW p \in Procs, NEW M, Did(K, p, M)
  PROVE  Astray(M)
BY MknodStrays, DupStrays, ChdirStrays, UnlinkStrays, LinkCallStrays, OpenStrays, CloseStrays, WriteCall,
   PipeStrays, WaitCall, KillCall, SbrkCall, ReadCall, ExecCall, ForkCall, ExitCall DEF Did

LEMMA DidGood ==
  ASSUME NEW K, KInv(K, 0, 0), NEW p \in Procs, K.proc[p].state = "LIVE", NEW M, Did(K, p, M)
  PROVE  Good(M, 0)
<1>0. "DIR" \in Kinds \ {"NONE"} /\ "DEV" \in Kinds \ {"NONE"} BY DEF Kinds
<1>1. ASSUME NEW path \in Seq(Strings), NEW type \in {"DIR", "DEV"}, M = sys_mknod(K, p, path, type).k
      PROVE  Good(M, 0)
  BY <1>0, <1>1, MknodCall
<1>2. ASSUME NEW path \in Seq(Strings), M = sys_chdir(K, p, path).k \/ M = sys_unlink(K, p, path).k
                                          \/ M = sys_exec(K, p, path).k
      PROVE  Good(M, 0)
  BY <1>2, ChdirCall, UnlinkCall, ExecCall DEF Good
<1>3. ASSUME NEW path \in Seq(Strings), NEW new \in Seq(Strings), M = sys_link(K, p, path, new).k
      PROVE  Good(M, 0)
  BY <1>3, LinkCall
<1>4. ASSUME NEW path \in Seq(Strings), NEW flags, M = sys_open(K, p, path, flags).k
      PROVE  Good(M, 0)
  BY <1>4, OpenCall
<1>5. ASSUME NEW fd, M = sys_dup(K, p, fd).k \/ M = sys_close(K, p, fd).k \/ M = kill(K, fd).k
      PROVE  Good(M, 0)
  <2>1. KInv(sys_close(K, p, fd).k, 0, 0) BY CloseKeeps
  <2> QED BY <2>1, <1>5, DupCall, KillCall DEF Good
<1>6. ASSUME NEW fd, NEW s, NEW n, M = sys_read(K, p, fd, n).k \/ M = sys_write(K, p, fd, s, n).k
      PROVE  Good(M, 0)
  BY <1>6, ReadCall, WriteCall DEF Good
<1>7. ASSUME NEW n \in Int, K.proc[p].sz + n > 0, M = sys_sbrk(K, p, n).k PROVE Good(M, 0)
  BY <1>7, SbrkCall DEF Good
<1>8. ASSUME M = sys_pipe(K, p).k \/ M = wait(K, p).k \/ M = fork(K, p).k \/ M = exit(K, p)
      PROVE  Good(M, 0)
  BY <1>8, PipeCall, WaitCall, ForkCall, ExitCall DEF Good
<1> QED BY <1>1, <1>2, <1>3, <1>4, <1>5, <1>6, <1>7, <1>8 DEF Did

LEMMA StepGood ==
  ASSUME Good(k, 0), [Next]_vars
  PROVE  Good(k, 0)'
<1>0. SUFFICES Good(k', 0) BY DEF Good, Astray, KInv
<1>1. CASE k' = k BY <1>1
<1>2. ASSUME NEW p \in Procs, k.proc[p].state = "LIVE", Did(k, p, k') PROVE Good(k', 0)
  BY <1>2, DidStrays, DidGood DEF Good
<1>3. ASSUME NEW p \in Procs, k.proc[p].state = "ZOMBIE", k' = reap(k, p) PROVE Good(k', 0)
  BY <1>3, ReapKeeps DEF Good
<1>4. CASE UNCHANGED vars BY <1>1, <1>4 DEF vars
<1> QED BY <1>1, <1>2, <1>3, <1>4, StepDid
-----------------------------------------------------------------------------
(* The disk at boot.                                                       *)

LEMMA BootDir ==
  ASSUME NEW disk \in Seq(STRING), Len(disk) < NINODES
  PROVE  LET D == Boot(disk).inode[ROOTINO].data
         IN  /\ D \in Seq(Dirents) /\ Len(D) = Len(disk) + 2
             /\ D[1] = <<".", 1>> /\ D[2] = <<"..", 1>>
             /\ \A j \in 3..(Len(disk) + 2) : D[j] = <<disk[j - 2], j - 1>>
<1> DEFINE n == Len(disk)
           A == <<<<".", 1>>, <<"..", 1>>>>
           F == [j \in DOMAIN disk |-> <<disk[j], j + 1>>]
<1>1. n \in Nat /\ DOMAIN disk = 1..n /\ n < NINODES OBVIOUS
<1>2. Boot(disk).inode[ROOTINO].data = A \o F BY KernelSizes DEF Boot
<1>3. F = [j \in 1..n |-> F[j]] BY <1>1
<1>4. ASSUME NEW j \in 1..n PROVE F[j] = <<disk[j], j + 1>> /\ F[j] \in Dirents
  <2>1. disk[j] \in STRING BY ElementOfSeq, Zenon
  <2>2. disk[j] \in Strings BY <2>1, Literals, Zenon
  <2>3. j + 1 \in Inums BY <1>1, KernelAssumption DEF Inums
  <2>4. F[j] = <<disk[j], j + 1>> BY <1>1
  <2> QED BY <2>2, <2>3, <2>4 DEF Dirents
<1> HIDE DEF F
<1>5. F \in Seq(Dirents) /\ Len(F) = n
  <2>1. [j \in 1..n |-> F[j]] \in Seq(Dirents) /\ Len([j \in 1..n |-> F[j]]) = n BY <1>1, <1>4, IsASeq
  <2> QED BY <2>1, <1>3, Zenon
<1>6. A \in Seq(Dirents) /\ Len(A) = 2 /\ A[1] = <<".", 1>> /\ A[2] = <<"..", 1>>
  <2>1. 1 \in Inums \cup {0} BY KernelSizes DEF ROOTINO
  <2>2. <<".", 1>> \in Dirents /\ <<"..", 1>> \in Dirents BY <2>1, Literals DEF Dirents
  <2> QED BY <2>2
<1> HIDE DEF A
<1> DEFINE D == A \o F
<1>c. /\ D \in Seq(Dirents) /\ Len(D) = Len(A) + Len(F)
      /\ \A i \in 1..(Len(A) + Len(F)) : D[i] = IF i <= Len(A) THEN A[i] ELSE F[i - Len(A)]
  <2>1. A \in Seq(Dirents) /\ F \in Seq(Dirents) BY <1>5, <1>6
  <2> QED BY <2>1, ConcatProperties, Zenon
<1> HIDE DEF D, n
<1>7. D \in Seq(Dirents) /\ Len(D) = n + 2 BY <1>1, <1>5, <1>6, <1>c
<1>8. D[1] = <<".", 1>> /\ D[2] = <<"..", 1>>
  BY <1>1, <1>5, <1>6, <1>c
<1>9. ASSUME NEW j \in 3..(n + 2) PROVE D[j] = <<disk[j - 2], j - 1>>
  <2>1. D[j] = F[j - 2] BY <1>1, <1>5, <1>6, <1>c
  <2>2. j - 2 \in 1..n /\ (j - 2) + 1 = j - 1 BY <1>1
  <2> QED BY <2>1, <2>2, <1>4
<1>10. Boot(disk).inode[ROOTINO].data = D BY <1>2 DEF D
<1> QED BY <1>7, <1>8, <1>9, <1>10 DEF n

LEMMA BootFields ==
  ASSUME NEW disk \in Seq(STRING), Len(disk) < NINODES
  PROVE  LET B == Boot(disk)
         IN  /\ Fields(B) /\ B.free = MEMORY - 1 /\ B.strayed = FALSE
             /\ \A i \in Inums :
                  /\ B.inode[i].type = IF i = 1 THEN "DIR" ELSE IF i <= Len(disk) + 1 THEN "FILE" ELSE "NONE"
                  /\ B.inode[i].nlink = IF i <= Len(disk) + 1 THEN 1 ELSE 0
                  /\ B.inode[i].ref = IF i = 1 THEN 1 ELSE 0
             /\ \A f \in Files : B.file[f].type = "FD_NONE" /\ B.file[f].ref = 0
             /\ \A x \in Pipes : B.pipe[x].readopen = FALSE /\ B.pipe[x].writeopen = FALSE
             /\ \A p \in Procs : /\ B.proc[p].state = IF p = 1 THEN "LIVE" ELSE "UNUSED"
                                 /\ B.proc[p].sz = IF p = 1 THEN 1 ELSE 0
                                 /\ \A fd \in Fds : B.proc[p].ofile[fd] = 0
             /\ B.proc[1].cwd = 1
<1> DEFINE B == Boot(disk)
           n == Len(disk)
<1>n. n \in Nat OBVIOUS
<1>1. /\ DOMAIN B = {"inode", "file", "pipe", "proc", "free", "strayed", "panic"}
      /\ DOMAIN B.inode = Inums /\ DOMAIN B.file = Files /\ DOMAIN B.pipe = Pipes /\ DOMAIN B.proc = Procs
      /\ B.free = MEMORY - 1 /\ B.strayed = FALSE
      /\ \A f \in Files : B.file[f] = NoFile
      /\ \A x \in Pipes : B.pipe[x] = NoPipe
      /\ \A p \in Procs : B.proc[p] = IF p = 1 THEN [NoProc EXCEPT !.state = "LIVE", !.cwd = 1, !.sz = 1] ELSE NoProc
  BY DEF Boot
<1>2. ASSUME NEW i \in Inums
      PROVE  /\ DOMAIN B.inode[i] = {"type", "nlink", "ref", "data"}
             /\ B.inode[i].type = IF i = 1 THEN "DIR" ELSE IF i <= n + 1 THEN "FILE" ELSE "NONE"
             /\ B.inode[i].nlink = IF i <= n + 1 THEN 1 ELSE 0
             /\ B.inode[i].ref = IF i = 1 THEN 1 ELSE 0
  <2> DEFINE X == [type |-> "DIR", nlink |-> 1, ref |-> 1,
                   data |-> <<<<".", 1>>, <<"..", 1>>>> \o [j \in DOMAIN disk |-> <<disk[j], j + 1>>]]
             Z == [type |-> "FILE", nlink |-> 1, ref |-> 0, data |-> <<"!">>]
  <2>1. B.inode[i] = IF i = 1 THEN X ELSE IF i <= n + 1 THEN Z ELSE NoInode BY DEF Boot, ROOTINO
  <2>2. DOMAIN X = {"type", "nlink", "ref", "data"} /\ X.type = "DIR" /\ X.nlink = 1 /\ X.ref = 1 OBVIOUS
  <2>3. DOMAIN Z = {"type", "nlink", "ref", "data"} /\ Z.type = "FILE" /\ Z.nlink = 1 /\ Z.ref = 0 OBVIOUS
  <2>4. /\ DOMAIN NoInode = {"type", "nlink", "ref", "data"} /\ NoInode.type = "NONE"
        /\ NoInode.nlink = 0 /\ NoInode.ref = 0
    BY DEF NoInode
  <2> HIDE DEF B, X, Z
  <2>5. CASE i = 1 BY <2>1, <2>2, <2>5, <1>n
  <2>6. CASE i # 1 /\ i <= n + 1 BY <2>1, <2>3, <2>6
  <2>7. CASE i # 1 /\ ~(i <= n + 1) BY <2>1, <2>4, <2>7
  <2> QED BY <2>5, <2>6, <2>7
<1>b. SUFFICES
      /\ Fields(B) /\ B.free = MEMORY - 1 /\ B.strayed = FALSE
      /\ \A f \in Files : B.file[f].type = "FD_NONE" /\ B.file[f].ref = 0
      /\ \A x \in Pipes : B.pipe[x].readopen = FALSE /\ B.pipe[x].writeopen = FALSE
      /\ \A p \in Procs : /\ B.proc[p].state = IF p = 1 THEN "LIVE" ELSE "UNUSED"
                          /\ B.proc[p].sz = IF p = 1 THEN 1 ELSE 0
                          /\ \A fd \in Fds : B.proc[p].ofile[fd] = 0
      /\ B.proc[1].cwd = 1
  BY <1>2
<1> HIDE DEF B, n
<1>3. \A f \in Files : /\ DOMAIN B.file[f] = {"ref", "type", "ip", "off", "readable", "writable"}
                       /\ B.file[f].type = "FD_NONE" /\ B.file[f].ref = 0
                       /\ B.file[f].readable = FALSE /\ B.file[f].writable = FALSE
  BY <1>1 DEF NoFile
<1>4. \A x \in Pipes : /\ DOMAIN B.pipe[x] = {"data", "readopen", "writeopen"}
                       /\ B.pipe[x].readopen = FALSE /\ B.pipe[x].writeopen = FALSE
  BY <1>1 DEF NoPipe
<1>5. ASSUME NEW p \in Procs
      PROVE  /\ DOMAIN B.proc[p] = {"state", "parent", "killed", "cwd", "sz", "ofile"}
             /\ B.proc[p].state = IF p = 1 THEN "LIVE" ELSE "UNUSED"
             /\ B.proc[p].sz = IF p = 1 THEN 1 ELSE 0
             /\ B.proc[p].ofile = [fd \in Fds |-> 0]
             /\ p = 1 => B.proc[p].cwd = 1
  <2>1. CASE p = 1
    <3>1. B.proc[p] = [NoProc EXCEPT !.state = "LIVE", !.cwd = 1, !.sz = 1] BY <2>1, <1>1
    <3> QED BY <3>1, <2>1 DEF NoProc
  <2>2. CASE p # 1
    <3>1. B.proc[p] = NoProc BY <2>2, <1>1
    <3> QED BY <3>1, <2>2 DEF NoProc
  <2> QED BY <2>1, <2>2
<1>6. \A p \in Procs : /\ B.proc[p].ofile \in [Fds -> Files \cup {0}] /\ B.proc[p].sz \in Nat
                       /\ \A fd \in Fds : B.proc[p].ofile[fd] = 0
  BY <1>5
<1>7. Fields(B) BY <1>1, <1>2, <1>3, <1>4, <1>5, <1>6 DEF Fields
<1> QED BY <1>1, <1>3, <1>4, <1>5, <1>6, <1>7, KernelSizes

LEMMA BootGood ==
  ASSUME NEW disk \in Seq(STRING), Len(disk) < NINODES
  PROVE  KInv(Boot(disk), 0, 0)
<1> DEFINE B == Boot(disk)
           n == Len(disk)
           D == B.inode[ROOTINO].data
           N == NM(B)
           T == TG(B)
           Y == TY(B)
           P == B.proc
<1>n. n \in Nat /\ n < NINODES OBVIOUS
<1>1. /\ D \in Seq(Dirents) /\ Len(D) = n + 2
      /\ D[1] = <<".", 1>> /\ D[2] = <<"..", 1>>
      /\ \A j \in 3..(n + 2) : D[j] = <<disk[j - 2], j - 1>>
  BY BootDir
<1>2. /\ Fields(B) /\ B.free = MEMORY - 1
      /\ \A i \in Inums :
           /\ B.inode[i].type = IF i = 1 THEN "DIR" ELSE IF i <= n + 1 THEN "FILE" ELSE "NONE"
           /\ B.inode[i].nlink = IF i <= n + 1 THEN 1 ELSE 0
           /\ B.inode[i].ref = IF i = 1 THEN 1 ELSE 0
      /\ \A f \in Files : B.file[f].type = "FD_NONE" /\ B.file[f].ref = 0
      /\ \A x \in Pipes : B.pipe[x].readopen = FALSE /\ B.pipe[x].writeopen = FALSE
      /\ \A p \in Procs : /\ P[p].state = IF p = 1 THEN "LIVE" ELSE "UNUSED"
                          /\ P[p].sz = IF p = 1 THEN 1 ELSE 0
                          /\ \A fd \in Fds : P[p].ofile[fd] = 0
      /\ P[1].cwd = 1
  BY BootFields
<1>s. SUFFICES KInv(B, 0, 0) OBVIOUS
<1> HIDE DEF B, n
<1>3. 1 \in Inums /\ Inums \subseteq Nat /\ ROOTINO = 1 BY KernelSizes DEF ROOTINO
<1>4. Dirs(B)
  <2>1. ASSUME NEW d \in Inums, B.inode[d].type = "DIR" PROVE d = ROOTINO BY <2>1, <1>2, <1>3
  <2>2. D[1][1] = "." /\ D[1][2] # 0 /\ D[2][1] = ".." /\ D[2][2] # 0 /\ Len(D) >= 2
    BY <1>1, <1>n
  <2> QED BY <2>1, <2>2, <1>1 DEF Dirs
<1>5. N = {1} \X (3..(n + 2))
  <2>1. ASSUME NEW e \in N PROVE e \in {1} \X (3..(n + 2))
    <3>1. e \in Inums \X Nat /\ B.inode[e[1]].type = "DIR" /\ e[2] \in 3..Len(B.inode[e[1]].data)
      BY DEF NM
    <3>2. e[1] = 1 BY <3>1, <1>2
    <3>3. e[2] \in 3..(n + 2) BY <3>1, <3>2, <1>1, <1>3
    <3> QED BY <3>1, <3>2, <3>3
  <2>2. ASSUME NEW e \in {1} \X (3..(n + 2)) PROVE e \in N
    <3>1. e \in Inums \X Nat /\ e[1] = 1 /\ e[2] \in 3..(n + 2) BY <1>3, <1>n
    <3>2. D[e[2]][2] = e[2] - 1 BY <3>1, <1>1
    <3>3. D[e[2]][2] # 0 BY <3>1, <3>2, <1>n
    <3>4. B.inode[e[1]].type = "DIR" BY <3>1, <1>2, <1>3
    <3>5. B.inode[e[1]].data = D BY <3>1, <1>3
    <3> HIDE DEF D
    <3> QED BY <3>1, <3>3, <3>4, <3>5, <1>1 DEF NM
  <2> QED BY <2>1, <2>2
<1>6. T \in [N -> Inums] /\ \A e \in N : T[e] = e[2] - 1 /\ e[1] = 1 /\ e[2] \in 3..(n + 2)
  <2>1. ASSUME NEW e \in N
        PROVE  TG(B)[e] = e[2] - 1 /\ e[1] = 1 /\ e[2] \in 3..(n + 2) /\ TG(B)[e] \in Inums
    <3>1. e[1] = 1 /\ e[2] \in 3..(n + 2) BY <1>5
    <3>2. TG(B)[e] = D[e[2]][2] BY <3>1, <1>3 DEF TG
    <3>3. TG(B)[e] = e[2] - 1 BY <3>1, <3>2, <1>1
    <3>4. e[2] - 1 \in Inums BY <3>1, <1>n, KernelAssumption DEF Inums
    <3> QED BY <3>1, <3>3, <3>4
  <2>2. T = [e \in N |-> T[e]] BY DEF TG
  <2> HIDE DEF T, N
  <2>3. \A e \in N : T[e] \in Inums BY <2>1 DEF T, N
  <2> QED BY <2>1, <2>2, <2>3 DEF T, N
<1>7. /\ Y \in [Inums -> Kinds] /\ NL(B) \in [Inums -> Int] /\ RF(B) \in [Inums -> Int]
      /\ \A i \in Inums : /\ Y[i] = IF i = 1 THEN "DIR" ELSE IF i <= n + 1 THEN "FILE" ELSE "NONE"
                          /\ NL(B)[i] = IF i <= n + 1 THEN 1 ELSE 0
                          /\ RF(B)[i] = IF i = 1 THEN 1 ELSE 0
  <2>1. /\ \A i \in Inums : B.inode[i].type \in Kinds /\ B.inode[i].nlink \in Int /\ B.inode[i].ref \in Int
    BY <1>2 DEF Kinds
  <2> QED BY <2>1, <1>2 DEF TY, NL, RF
<1>8. IsFiniteSet(N)
  <2>1. IsFiniteSet({1}) BY FS_Singleton
  <2>2. IsFiniteSet(3..(n + 2))
    <3>1. 3 \in Int /\ n + 2 \in Int BY <1>n
    <3> QED BY <3>1, FS_Interval
  <2>3. IsFiniteSet({1} \X (3..(n + 2))) BY <2>1, <2>2, FS_Product
  <2> QED BY <2>3, <1>5, Zenon
<1>t. \A e \in N : Y[e[1]] = "DIR" /\ Y[T[e]] = "FILE"
  <2>1. ASSUME NEW e \in N PROVE Y[e[1]] = "DIR" /\ Y[T[e]] = "FILE"
    <3>1. e[1] = 1 /\ T[e] = e[2] - 1 /\ e[2] \in 3..(n + 2) /\ T[e] \in Inums BY <1>6
    <3>2. T[e] # 1 /\ T[e] <= n + 1 BY <3>1, <1>n
    <3> HIDE DEF T, Y, N
    <3> QED BY <3>1, <3>2, <1>3, <1>7
  <2> QED BY <2>1
<1> HIDE DEF N, T, Y, D
<1>9. Linked(Y, NL(B), N, T)
  <2>1. N \subseteq Inums \X Nat
    <3>1. \A e \in {1} \X (3..(n + 2)) : e \in Inums \X Nat BY <1>3, <1>n
    <3> QED BY <3>1, <1>5, Zenon
  <2>2. ASSUME NEW i \in Inums, Y[i] # "NONE"
        PROVE  NL(B)[i] = Cardinality(To(N, T, i)) + Cardinality(Sub(Y, N, T, i)) + Root(i)
    <3>1. i <= n + 1 /\ i \in Nat BY <2>2, <1>3, <1>7, <1>n
    <3>2. NL(B)[i] = 1 BY <3>1, <1>7
    <3>3. Sub(Y, N, T, i) = {} BY <1>t DEF Sub
    <3>4. Cardinality(Sub(Y, N, T, i)) = 0 BY <3>3, FS_EmptySet, Zenon
    <3>5. CASE i = 1
      <4>1. To(N, T, i) = {}
        <5>1. ASSUME NEW e \in N PROVE T[e] # i BY <3>5, <1>6
        <5> QED BY <5>1 DEF To
      <4>2. Cardinality(To(N, T, i)) = 0 BY <4>1, FS_EmptySet, Zenon
      <4>3. Root(i) = 1 BY <3>5, <1>3 DEF Root
      <4> QED BY <4>2, <4>3, <3>2, <3>4
    <3>6. CASE i # 1
      <4> DEFINE e0 == <<1, i + 1>>
      <4>1. e0 \in N
        <5>1. e0 \in {1} \X (3..(n + 2))  BY <3>1, <3>6, <1>3, <1>n, KernelAssumption DEF Inums
        <5> QED BY <5>1, <1>5, Zenon
      <4>2. T[e0] = i BY <4>1, <3>1, <1>6
      <4>3. To(N, T, i) = {e0}
        <5>1. ASSUME NEW e \in N, T[e] = i PROVE e = e0
          <6>1. e \in {1} \X (3..(n + 2)) BY <1>5, Zenon
          <6>2. e[1] = 1 /\ e[2] = i + 1 BY <5>1, <1>6, <3>1
          <6> QED BY <6>1, <6>2
        <5> HIDE DEF e0
        <5> QED BY <5>1, <4>1, <4>2 DEF To
      <4>4. Cardinality(To(N, T, i)) = 1
        <5>1. Cardinality({e0}) = 1 BY FS_Singleton
        <5> QED BY <5>1, <4>3, Zenon
      <4>5. Root(i) = 0 BY <3>6, <1>3 DEF Root
      <4> QED BY <4>4, <4>5, <3>2, <3>4
    <3> QED BY <3>5, <3>6
  <2>3. ASSUME NEW i \in Inums \ {ROOTINO}, NEW e \in N PROVE e[1] # i BY <1>3, <1>6
  <2>4. Y[ROOTINO] = "DIR" BY <1>3, <1>7
  <2>5. \A e \in N : Y[e[1]] = "DIR" /\ Y[T[e]] # "NONE" BY <1>t
  <2> QED BY <2>1, <2>2, <2>3, <2>4, <2>5, <1>6, <1>7, <1>8 DEF Linked
<1>10. Referred(Y, NL(B), RF(B), B.file, P, 0)
  <2>1. ASSUME NEW i \in Inums, Y[i] # "NONE"
        PROVE  /\ RF(B)[i] = Cardinality(OpenOf(B.file, i)) + Cardinality(CwdOf(P, i)) + Hand(0, i)
               /\ NL(B)[i] # 0
    <3>1. OpenOf(B.file, i) = {} BY <1>2 DEF OpenOf
    <3>2. Cardinality(OpenOf(B.file, i)) = 0 BY <3>1, FS_EmptySet, Zenon
    <3>3. Hand(0, i) = 0 BY KernelSizes DEF Hand
    <3>4. Cardinality(CwdOf(P, i)) = IF i = 1 THEN 1 ELSE 0
      <4>1. CASE i = 1
        <5>a. /\ 1 \in Procs /\ P[1].state = "LIVE" /\ P[1].cwd = i
              /\ \A p \in Procs : P[p].state = "LIVE" => p = 1
          <6>1. 1 \in Procs BY KernelSizes
          <6>2. P[1].cwd = 1 /\ \A p \in Procs : P[p].state = IF p = 1 THEN "LIVE" ELSE "UNUSED" BY <1>2
          <6> HIDE DEF P
          <6> QED BY <6>1, <6>2, <4>1
        <5> HIDE DEF P
        <5>1. CwdOf(P, i) = {1} BY <5>a DEF CwdOf
        <5>2. Cardinality({1}) = 1 BY FS_Singleton
        <5>3. Cardinality(CwdOf(P, i)) = 1 BY <5>1, <5>2, Zenon
        <5> QED BY <5>3, <4>1
      <4>2. CASE i # 1
        <5>1. CwdOf(P, i) = {} BY <4>2, <1>2 DEF CwdOf
        <5>2. Cardinality(CwdOf(P, i)) = 0 BY <5>1, FS_EmptySet, Zenon
        <5> QED BY <5>2, <4>2
      <4> QED BY <4>1, <4>2
    <3>5. i <= n + 1 /\ NL(B)[i] = 1 BY <2>1, <1>3, <1>7, <1>n
    <3> QED BY <3>2, <3>3, <3>4, <3>5, <1>7
  <2>2. \A f \in Files : B.file[f].type # "FD_INODE" BY <1>2
  <2>3. \A p \in Procs : P[p].state = "LIVE" => P[p].cwd \in Inums /\ Y[P[p].cwd] # "NONE"
    BY <1>2, <1>3, <1>7
  <2> QED BY <2>1, <2>2, <2>3, <1>7 DEF Referred
<1>11. Counted(B.file, P, 0)
  <2>1. ASSUME NEW f \in Files PROVE B.file[f].ref = Cardinality(FdsOf(P, f)) + Hand(0, f)
    <3>a. 0 \notin Files /\ \A p \in Procs : \A fd \in Fds : P[p].ofile[fd] = 0 BY <1>2, KernelSizes
    <3>r. B.file[f].ref = 0 BY <1>2
    <3> HIDE DEF P
    <3>1. FdsOf(P, f) = {} BY <3>a DEF FdsOf
    <3>2. Cardinality(FdsOf(P, f)) = 0 BY <3>1, FS_EmptySet, Zenon
    <3>3. Hand(0, f) = 0 BY KernelSizes DEF Hand
    <3> QED BY <3>2, <3>3, <3>r
  <2> QED BY <2>1, <1>2 DEF Counted
<1>12. Piped(B.file, B.pipe) BY <1>2 DEF Piped
<1>13. Paid(P, B.free)
  <2>1. PagesOf(P) = {<<1, 1>>}
    <3>1. ASSUME NEW x \in Procs \X Nat, x[2] \in 1..P[x[1]].sz PROVE x = <<1, 1>>
      <4>1. x[1] = 1 BY <3>1, <1>2
      <4>2. x[2] = 1 BY <3>1, <4>1, <1>2
      <4> QED BY <4>1, <4>2
    <3>2. <<1, 1>> \in Procs \X Nat /\ 1 \in 1..P[1].sz BY <1>2, KernelSizes
    <3> QED BY <3>1, <3>2 DEF PagesOf
  <2>2. IsFiniteSet({<<1, 1>>}) /\ Cardinality({<<1, 1>>}) = 1 BY FS_Singleton
  <2>3. IsFiniteSet(PagesOf(P)) /\ Cardinality(PagesOf(P)) = 1 BY <2>1, <2>2, Zenon
  <2> QED BY <2>3, <1>2, KernelAssumption DEF Paid
<1>14. Linked(TY(B), NL(B), NM(B), TG(B)) /\ Referred(TY(B), NL(B), RF(B), B.file, B.proc, 0)
  BY <1>9, <1>10 DEF N, T, Y
<1> QED BY <1>2, <1>4, <1>11, <1>12, <1>13, <1>14 DEF KInv
-----------------------------------------------------------------------------
(* The invariant implies the property, and the theorems.                   *)

LEMMA NamesAre ==
  ASSUME KInv(k, 0, 0)
  PROVE  /\ Names = NM(k) /\ \A e \in NM(k) : Target(e) = TG(k)[e] /\ TG(k)[e] \in Inums
         /\ \A i \in Inums : NamesOf(i) = To(NM(k), TG(k), i) /\ Subdirs(i) = Sub(TY(k), NM(k), TG(k), i)
<1>0. Dirs(k) /\ TG(k) \in [NM(k) -> Inums] BY DEF KInv, Linked
<1>1. Names = NM(k)
  <2>1. ASSUME NEW e \in Names PROVE e \in NM(k)
    <3>1. PICK d \in Inums : IsDir(k, d) /\ e \in {d} \X {j \in 3..Len(k.inode[d].data) : k.inode[d].data[j][2] # 0}
      BY DEF Names
    <3>2. e[1] = d /\ e[2] \in 3..Len(k.inode[d].data) /\ k.inode[d].data[e[2]][2] # 0 /\ e = <<e[1], e[2]>>
      BY <3>1
    <3>3. k.inode[d].type = "DIR" BY <3>1 DEF IsDir
    <3>4. Len(k.inode[d].data) \in Nat BY <3>3, <1>0 DEF Dirs
    <3>5. e \in Inums \X Nat BY <3>2, <3>4
    <3> QED BY <3>2, <3>3, <3>5 DEF NM
  <2>2. ASSUME NEW e \in NM(k) PROVE e \in Names
    <3>1. e \in Inums \X Nat /\ k.inode[e[1]].type = "DIR" /\ e[2] \in 3..Len(k.inode[e[1]].data)
          /\ k.inode[e[1]].data[e[2]][2] # 0
      BY DEF NM
    <3>2. e[1] \in Inums /\ IsDir(k, e[1]) BY <3>1, KernelSizes DEF IsDir
    <3>3. e \in {e[1]} \X {j \in 3..Len(k.inode[e[1]].data) : k.inode[e[1]].data[j][2] # 0} BY <3>1
    <3> QED BY <3>2, <3>3 DEF Names
  <2> QED BY <2>1, <2>2
<1>2. \A e \in NM(k) : Target(e) = TG(k)[e] /\ TG(k)[e] \in Inums BY <1>0 DEF Target, TG
<1>3. ASSUME NEW i \in Inums
      PROVE  NamesOf(i) = To(NM(k), TG(k), i) /\ Subdirs(i) = Sub(TY(k), NM(k), TG(k), i)
  <2>1. NamesOf(i) = {e \in NM(k) : Target(e) = i} BY <1>1, Zenon DEF NamesOf
  <2>2. Subdirs(i) = {e \in NM(k) : e[1] = i /\ IsDir(k, Target(e))} BY <1>1, Zenon DEF Subdirs
  <2>3. \A e \in NM(k) : IsDir(k, Target(e)) <=> TY(k)[TG(k)[e]] = "DIR"
    BY <1>2, KernelSizes DEF IsDir, TY
  <2>4. {e \in NM(k) : Target(e) = i} = To(NM(k), TG(k), i) BY <1>2 DEF To
  <2>5. {e \in NM(k) : e[1] = i /\ IsDir(k, Target(e))} = Sub(TY(k), NM(k), TG(k), i) BY <2>3 DEF Sub
  <2> QED BY <2>1, <2>2, <2>4, <2>5, Zenon
<1> QED BY <1>1, <1>2, <1>3

LEMMA RefsAre ==
  /\ \A i : Open(i, "FD_INODE") = OpenOf(k.file, i)
  /\ \A i : {p \in Live : k.proc[p].cwd = i} = CwdOf(k.proc, i)
  /\ \A f : {x \in Live \X Fds : k.proc[x[1]].ofile[x[2]] = f} = FdsOf(k.proc, f)
<1>1. \A i : Open(i, "FD_INODE") = OpenOf(k.file, i) BY DEF Open, OpenOf
<1>2. \A i : {p \in Live : k.proc[p].cwd = i} = CwdOf(k.proc, i) BY DEF Live, CwdOf
<1>3. \A f : {x \in Live \X Fds : k.proc[x[1]].ofile[x[2]] = f} = FdsOf(k.proc, f) BY DEF Live, FdsOf
<1> QED BY <1>1, <1>2, <1>3

LEMMA PagesAre ==
  ASSUME KInv(k, 0, 0)
  PROVE  UNION {{p} \X (1..k.proc[p].sz) : p \in Procs} = PagesOf(k.proc)
<1> DEFINE U == UNION {{p} \X (1..k.proc[p].sz) : p \in Procs}
<1>0. \A p \in Procs : k.proc[p].sz \in Nat BY DEF KInv, Fields
<1>1. ASSUME NEW x \in U PROVE x \in PagesOf(k.proc)
  <2>1. PICK p \in Procs : x \in {p} \X (1..k.proc[p].sz) OBVIOUS
  <2>2. x[1] = p /\ x[2] \in 1..k.proc[p].sz /\ x = <<x[1], x[2]>> BY <2>1
  <2>3. x \in Procs \X Nat BY <2>2, <1>0
  <2> QED BY <2>2, <2>3 DEF PagesOf
<1>2. ASSUME NEW x \in PagesOf(k.proc) PROVE x \in U
  <2>1. x \in Procs \X Nat /\ x[2] \in 1..k.proc[x[1]].sz BY DEF PagesOf
  <2>2. x \in {x[1]} \X (1..k.proc[x[1]].sz) /\ x[1] \in Procs BY <2>1
  <2> QED BY <2>2
<1> QED BY <1>1, <1>2

\* What a count of names, subdirectories and references says of an inode.
LEMMA InodeAnchored ==
  ASSUME KInv(k, 0, 0), NEW i \in Inums, k.inode[i].type # "NONE"
  PROVE  /\ k.inode[i].nlink = Cardinality(NamesOf(i)) + Cardinality(Subdirs(i)) + (IF i = ROOTINO THEN 1 ELSE 0)
         /\ k.inode[i].ref = Cardinality(Open(i, "FD_INODE")) + Cardinality({p \in Live : k.proc[p].cwd = i})
         /\ Cardinality(NamesOf(i)) + (IF i = ROOTINO THEN 1 ELSE 0) + k.inode[i].ref > 0
<1> DEFINE N == NM(k)
           T == TG(k)
           Y == TY(k)
           n == Cardinality(To(N, T, i))
           s == Cardinality(Sub(Y, N, T, i))
           o == Cardinality(OpenOf(k.file, i))
           c == Cardinality(CwdOf(k.proc, i))
<1>1. Linked(Y, NL(k), N, T) /\ Referred(Y, NL(k), RF(k), k.file, k.proc, 0) BY DEF KInv
<1>2. Y[i] = k.inode[i].type /\ NL(k)[i] = k.inode[i].nlink /\ RF(k)[i] = k.inode[i].ref BY DEF TY, NL, RF
<1>3. k.inode[i].nlink = n + s + Root(i) BY <1>1, <1>2 DEF Linked
<1>4. k.inode[i].ref = o + c + Hand(0, i) /\ (k.inode[i].nlink = 0 => k.inode[i].ref > 0) BY <1>1, <1>2 DEF Referred
<1>5. Hand(0, i) = 0 BY KernelSizes DEF Hand
<1>6. IsFiniteSet(N) BY <1>1 DEF Linked
<1>7. n \in Nat /\ s \in Nat /\ (n = 0 <=> To(N, T, i) = {}) /\ (s = 0 <=> Sub(Y, N, T, i) = {}) BY <1>6, FiniteTo
<1>8. o \in Nat /\ c \in Nat BY FiniteRefs
<1>9. i # ROOTINO /\ n = 0 => s = 0
  <2>1. i # ROOTINO /\ To(N, T, i) = {} => \A e \in N : e[1] # i BY <1>1 DEF Linked
  <2>2. (\A e \in N : e[1] # i) => Sub(Y, N, T, i) = {} BY DEF Sub
  <2> HIDE DEF N, T, Y
  <2> QED BY <2>1, <2>2, <1>7
<1>10. Cardinality(NamesOf(i)) = n /\ Cardinality(Subdirs(i)) = s BY NamesAre, Zenon
<1>11. Cardinality(Open(i, "FD_INODE")) = o /\ Cardinality({p \in Live : k.proc[p].cwd = i}) = c
  BY RefsAre, Zenon
<1>12. Root(i) = IF i = ROOTINO THEN 1 ELSE 0 BY DEF Root
<1> HIDE DEF n, s, o, c
<1>13. n + Root(i) + k.inode[i].ref > 0
  <2>1. CASE i = ROOTINO BY <2>1, <1>4, <1>5, <1>7, <1>8, <1>12
  <2>2. CASE i # ROOTINO /\ n = 0 BY <2>2, <1>3, <1>4, <1>5, <1>8, <1>9, <1>12
  <2>3. CASE i # ROOTINO /\ n # 0 BY <2>3, <1>4, <1>5, <1>7, <1>8, <1>12
  <2> QED BY <2>1, <2>2, <2>3
<1> QED BY <1>3, <1>4, <1>5, <1>8, <1>10, <1>11, <1>12, <1>13

LEMMA GoodConsistent ==
  ASSUME Good(k, 0)
  PROVE  Consistent
<1>1. CASE Astray(k) BY <1>1 DEF Astray, Consistent
<1>2. CASE KInv(k, 0, 0)
  <2>1. \A i \in Inums : k.inode[i].type = "NONE" => NamesOf(i) = {}
    <3>1. ASSUME NEW i \in Inums, k.inode[i].type = "NONE" PROVE NamesOf(i) = {}
      <4>1. Linked(TY(k), NL(k), NM(k), TG(k)) BY <1>2 DEF KInv
      <4>2. \A e \in NM(k) : TY(k)[TG(k)[e]] # "NONE" BY <4>1 DEF Linked
      <4>3. TY(k)[i] = "NONE" BY <3>1 DEF TY
      <4>4. To(NM(k), TG(k), i) = {} BY <4>2, <4>3 DEF To
      <4> QED BY <4>4, <1>2, NamesAre
    <3> QED BY <3>1
  <2>2. ASSUME NEW f \in Files
        PROVE  k.file[f].ref = Cardinality({x \in Live \X Fds : k.proc[x[1]].ofile[x[2]] = f})
    <3>1. k.file[f].ref = Cardinality(FdsOf(k.proc, f)) + Hand(0, f) BY <1>2 DEF KInv, Counted
    <3>2. Cardinality(FdsOf(k.proc, f)) \in Nat BY FiniteRefs
    <3>3. Hand(0, f) = 0 BY KernelSizes DEF Hand
    <3>4. k.file[f].ref = Cardinality(FdsOf(k.proc, f)) BY <3>1, <3>2, <3>3
    <3> QED BY <3>4, RefsAre, Zenon
  <2>3. ASSUME NEW i \in Pipes
        PROVE  /\ k.pipe[i].writeopen = \E f \in Open(i, "FD_PIPE") : k.file[f].writable
               /\ k.pipe[i].readopen = \E f \in Open(i, "FD_PIPE") : k.file[f].readable
    <3>1. k.pipe[i].writeopen \in BOOLEAN /\ k.pipe[i].readopen \in BOOLEAN BY <1>2 DEF KInv, Fields
    <3>2. /\ k.pipe[i].writeopen <=> \E f \in Files : k.file[f].type = "FD_PIPE" /\ k.file[f].ip = i /\ k.file[f].writable
          /\ k.pipe[i].readopen <=> \E f \in Files : k.file[f].type = "FD_PIPE" /\ k.file[f].ip = i /\ k.file[f].readable
      BY <1>2 DEF KInv, Piped
    <3>3. /\ k.pipe[i].writeopen <=> \E f \in Open(i, "FD_PIPE") : k.file[f].writable
          /\ k.pipe[i].readopen <=> \E f \in Open(i, "FD_PIPE") : k.file[f].readable
      BY <3>2 DEF Open
    <3> QED BY <3>1, <3>3
  <2>4. k.free + Cardinality(UNION {{p} \X (1..k.proc[p].sz) : p \in Procs}) = MEMORY
    <3>1. k.free + Cardinality(PagesOf(k.proc)) = MEMORY BY <1>2 DEF KInv, Paid
    <3> QED BY <3>1, <1>2, PagesAre, Zenon
  <2>5. \A i \in Inums : k.inode[i].type # "NONE" =>
          /\ k.inode[i].nlink = Cardinality(NamesOf(i)) + Cardinality(Subdirs(i)) + (IF i = ROOTINO THEN 1 ELSE 0)
          /\ k.inode[i].ref = Cardinality(Open(i, "FD_INODE")) + Cardinality({p \in Live : k.proc[p].cwd = i})
          /\ Cardinality(NamesOf(i)) + (IF i = ROOTINO THEN 1 ELSE 0) + k.inode[i].ref > 0
    BY <1>2, InodeAnchored
  <2> QED BY <2>1, <2>2, <2>3, <2>4, <2>5 DEF Consistent
<1> QED BY <1>1, <1>2 DEF Good

\* Whatever the program and the files on the disk, as long as there is an inode
\* for each: the counts of links, of references to inodes and open files and of
\* pages are right between any two system calls of its processes, unless a name
\* has been made in a removed directory.
THEOREM KernelInvariant ==
  ASSUME NEW CONSTANT name, NEW CONSTANT prog, NEW CONSTANT disk \in Seq(STRING), Len(disk) < NINODES
  PROVE  Session(name, prog, disk) => []Good(k, 0)
<1>1. Start(name, prog, disk) => Good(k, 0)
  <2>1. Start(name, prog, disk) => k = Boot(disk) BY DEF Start
  <2> QED BY <2>1, BootGood DEF Good
<1>2. Good(k, 0) /\ [Next]_vars => Good(k, 0)' BY StepGood
<1> QED BY <1>1, <1>2, PTL DEF Session

\* So Consistent holds of every session, for every number of processes, files,
\* inodes, pipes and pages.
THEOREM KernelIsConsistent ==
  ASSUME NEW CONSTANT name, NEW CONSTANT prog, NEW CONSTANT disk \in Seq(STRING), Len(disk) < NINODES
  PROVE  Session(name, prog, disk) => []Consistent
<1>1. Good(k, 0) => Consistent BY GoodConsistent
<1> QED BY <1>1, KernelInvariant, PTL
-----------------------------------------------------------------------------
(* Panics.                                                                 *)

\* "." leads to the directory itself, ".." to where its name is.
Tree(K) ==
  \A d \in Inums : K.inode[d].type = "DIR" =>
    /\ K.inode[d].data[1][2] = d
    /\ d = ROOTINO => K.inode[d].data[2][2] = ROOTINO
    /\ \A e \in To(NM(K), TG(K), d) : K.inode[d].data[2][2] = e[1]

Calm(K) == K.panic = ""

\* The reasons to panic: something has run out, or a process is in a removed
\* directory.
Full(K) == \A i \in Inums : K.inode[i].type # "NONE"
Orphan(K) == \E p \in Procs : K.proc[p].state = "LIVE" /\ K.inode[K.proc[p].cwd].nlink = 0
Blamed(K) ==
  \/ Calm(K)
  \/ K.panic = "ialloc: no inodes" /\ Full(K)
  \/ K.panic = "ilock: no type" /\ Orphan(K)
  \/ K.panic = "iget: no inodes" /\ Crammed(K)
  \/ K.panic = "balloc: out of blocks" /\ Drained(K)
  \/ K.panic = "dirlink" /\ Stuffed(K)
Safe(K) == Astray(K) \/ (Tree(K) /\ Blamed(K))

\* What a step from K to M does that makes no directory and no panic.
Shape(K) ==
  /\ "inode" \in DOMAIN K /\ "panic" \in DOMAIN K /\ DOMAIN K.inode = Inums
  /\ \A i \in Inums : DOMAIN K.inode[i] = {"type", "nlink", "ref", "data"}
Quiet(K, M) ==
  /\ Shape(M) /\ M.panic = K.panic
  /\ \A d \in Inums : M.inode[d].type = "DIR" =>
       /\ K.inode[d].type = "DIR"
       /\ M.inode[d].data[1] = K.inode[d].data[1] /\ M.inode[d].data[2] = K.inode[d].data[2]
       /\ To(NM(M), TG(M), d) \subseteq To(NM(K), TG(K), d)

LEMMA FieldsShape ==
  ASSUME NEW K, Fields(K)
  PROVE  Shape(K)
BY DEF Fields, Shape

LEMMA QuietSafe ==
  ASSUME NEW K, NEW M, Tree(K), Calm(K), Quiet(K, M)
  PROVE  Safe(M) /\ Tree(M) /\ Calm(M)
<1>1. ASSUME NEW d \in Inums, M.inode[d].type = "DIR"
      PROVE  /\ M.inode[d].data[1][2] = d
             /\ d = ROOTINO => M.inode[d].data[2][2] = ROOTINO
             /\ \A e \in To(NM(M), TG(M), d) : M.inode[d].data[2][2] = e[1]
  <2>1. /\ K.inode[d].type = "DIR"
        /\ M.inode[d].data[1] = K.inode[d].data[1] /\ M.inode[d].data[2] = K.inode[d].data[2]
        /\ To(NM(M), TG(M), d) \subseteq To(NM(K), TG(K), d)
    BY <1>1 DEF Quiet
  <2>2. /\ K.inode[d].data[1][2] = d
        /\ d = ROOTINO => K.inode[d].data[2][2] = ROOTINO
        /\ \A e \in To(NM(K), TG(K), d) : K.inode[d].data[2][2] = e[1]
    BY <2>1 DEF Tree
  <2> QED BY <2>1, <2>2
<1>2. Tree(M) BY <1>1 DEF Tree
<1>3. Calm(M)
  <2>1. M.panic = K.panic BY DEF Quiet
  <2> QED BY <2>1, Zenon DEF Calm
<1> QED BY <1>2, <1>3 DEF Safe, Blamed

LEMMA QuietThen ==
  ASSUME NEW K, NEW L, NEW M, Quiet(K, L), Quiet(L, M)
  PROVE  Quiet(K, M)
<1>1. ASSUME NEW d \in Inums, M.inode[d].type = "DIR"
      PROVE  /\ K.inode[d].type = "DIR"
             /\ M.inode[d].data[1] = K.inode[d].data[1] /\ M.inode[d].data[2] = K.inode[d].data[2]
             /\ To(NM(M), TG(M), d) \subseteq To(NM(K), TG(K), d)
  <2>1. /\ L.inode[d].type = "DIR"
        /\ M.inode[d].data[1] = L.inode[d].data[1] /\ M.inode[d].data[2] = L.inode[d].data[2]
        /\ To(NM(M), TG(M), d) \subseteq To(NM(L), TG(L), d)
    BY <1>1 DEF Quiet
  <2>2. /\ K.inode[d].type = "DIR"
        /\ L.inode[d].data[1] = K.inode[d].data[1] /\ L.inode[d].data[2] = K.inode[d].data[2]
        /\ To(NM(L), TG(L), d) \subseteq To(NM(K), TG(K), d)
    BY <2>1 DEF Quiet
  <2> QED BY <2>1, <2>2
<1>2. Shape(M) /\ M.panic = K.panic BY DEF Quiet
<1> QED BY <1>1, <1>2 DEF Quiet

\* Directories stay as they are, or go.
LEMMA QuietDirs ==
  ASSUME NEW K, NEW M, Shape(M), M.panic = K.panic,
         \A i \in Inums : M.inode[i].type = "DIR" =>
           K.inode[i].type = "DIR" /\ M.inode[i].data = K.inode[i].data
  PROVE  Quiet(K, M)
<1>1. ASSUME NEW e \in NM(M) PROVE e \in NM(K) /\ TG(K)[e] = TG(M)[e]
  <2>1. e \in Inums \X Nat /\ M.inode[e[1]].type = "DIR" BY DEF NM
  <2>2. K.inode[e[1]].type = "DIR" /\ M.inode[e[1]].data = K.inode[e[1]].data BY <2>1
  <2>3. e \in NM(K) BY <2>2 DEF NM
  <2> QED BY <2>2, <2>3 DEF TG
<1>2. \A d \in Inums : To(NM(M), TG(M), d) \subseteq To(NM(K), TG(K), d) BY <1>1 DEF To
<1> QED BY <1>2 DEF Quiet

LEMMA QuietSame ==
  ASSUME NEW K, NEW M, Shape(K), M.inode = K.inode, M.panic = K.panic,
         "inode" \in DOMAIN M, "panic" \in DOMAIN M
  PROVE  Quiet(K, M)
<1>1. Shape(M) BY DEF Shape
<1> QED BY <1>1, QuietDirs

LEMMA QuietPut ==
  ASSUME NEW K, Shape(K), NEW i
  PROVE  Quiet(K, iget(K, i)) /\ Quiet(K, iput(K, i))
<1>1. Quiet(K, iget(K, i))
  <2> DEFINE M == iget(K, i)
  <2>1. /\ DOMAIN M = DOMAIN K /\ M.panic = K.panic /\ M.inode = [K.inode EXCEPT ![i].ref = @ + 1]
    BY DEF Shape, iget
  <2> HIDE DEF M
  <2>2. /\ DOMAIN M.inode = Inums
        /\ \A x \in Inums : /\ DOMAIN M.inode[x] = {"type", "nlink", "ref", "data"}
                            /\ M.inode[x].type = K.inode[x].type /\ M.inode[x].data = K.inode[x].data
    BY <2>1 DEF Shape
  <2>3. Shape(M) BY <2>1, <2>2 DEF Shape
  <2>4. Quiet(K, M) BY <2>1, <2>2, <2>3, QuietDirs
  <2> QED BY <2>4 DEF M
<1>2. CASE K.inode[i].ref = 1 /\ K.inode[i].nlink = 0
  <2> DEFINE M == iput(K, i)
  <2>1. /\ DOMAIN M = DOMAIN K /\ M.panic = K.panic /\ M.inode = [K.inode EXCEPT ![i] = NoInode]
    BY <1>2 DEF Shape, iput
  <2> HIDE DEF M
  <2>2. /\ DOMAIN M.inode = Inums
        /\ \A x \in Inums : M.inode[x] = K.inode[x] \/ M.inode[x] = NoInode
    BY <2>1 DEF Shape
  <2>3. \A x \in Inums : /\ DOMAIN M.inode[x] = {"type", "nlink", "ref", "data"}
                         /\ M.inode[x].type = "DIR" => M.inode[x] = K.inode[x]
    BY <2>2 DEF Shape, NoInode
  <2>4. Shape(M) BY <2>1, <2>2, <2>3 DEF Shape
  <2>5. Quiet(K, M) BY <2>1, <2>3, <2>4, QuietDirs
  <2> QED BY <2>5, <1>1 DEF M
<1>3. CASE ~(K.inode[i].ref = 1 /\ K.inode[i].nlink = 0)
  <2> DEFINE M == iput(K, i)
  <2>1. /\ DOMAIN M = DOMAIN K /\ M.panic = K.panic /\ M.inode = [K.inode EXCEPT ![i].ref = @ - 1]
    BY <1>3 DEF Shape, iput
  <2> HIDE DEF M
  <2>2. /\ DOMAIN M.inode = Inums
        /\ \A x \in Inums : /\ DOMAIN M.inode[x] = {"type", "nlink", "ref", "data"}
                            /\ M.inode[x].type = K.inode[x].type /\ M.inode[x].data = K.inode[x].data
    BY <2>1 DEF Shape
  <2>3. Shape(M) BY <2>1, <2>2 DEF Shape
  <2>4. Quiet(K, M) BY <2>1, <2>2, <2>3, QuietDirs
  <2> QED BY <2>4, <1>1 DEF M
<1> QED BY <1>2, <1>3

LEMMA PanicSafe ==
  ASSUME NEW K, Fields(K), Tree(K), NEW why,
         \/ why = "ialloc: no inodes" /\ Full(K)
         \/ why = "ilock: no type" /\ Orphan(K)
         \/ why = "iget: no inodes" /\ Crammed(K)
         \/ why = "balloc: out of blocks" /\ Drained(K)
         \/ why = "dirlink" /\ Stuffed(K)
  PROVE  Safe(Panic(K, why).k)
<1> DEFINE M == [K EXCEPT !.panic = why]
<1>1. M.inode = K.inode /\ M.proc = K.proc /\ M.panic = why BY DEF Fields
<1>2. Panic(K, why).k = M BY DEF Panic, Ret
<1> HIDE DEF M
<1>3. NM(M) = NM(K) /\ TG(M) = TG(K) BY <1>1, SameInodes
<1>4. Tree(M) BY <1>1, <1>3 DEF Tree
<1>5. Full(K) => Full(M) BY <1>1 DEF Full
<1>6. Orphan(K) => Orphan(M) BY <1>1 DEF Orphan
<1>7. Crammed(K) => Crammed(M)
  <2>1. Cached(M) = Cached(K) BY <1>1 DEF Cached
  <2> QED BY <2>1 DEF Crammed
<1>8. Drained(K) => Drained(M)
  <2>1. \A x \in Inums : blocksOf(M, x) = blocksOf(K, x) BY <1>1 DEF blocksOf
  <2>2. freeBlocks(M) = freeBlocks(K)
    <3>1. UNION {{x} \X (1..blocksOf(M, x)) : x \in Inums} = UNION {{x} \X (1..blocksOf(K, x)) : x \in Inums}
      BY <2>1, Zenon
    <3> QED BY <3>1, Zenon DEF freeBlocks
  <2> QED BY <2>2 DEF Drained
<1>9. Stuffed(K) => Stuffed(M) BY <1>1 DEF Stuffed, IsDir, FullDir
<1>10. Blamed(M) BY <1>1, <1>5, <1>6, <1>7, <1>8, <1>9, Zenon DEF Blamed
<1> QED BY <1>2, <1>4, <1>10 DEF Safe

LEMMA StoppedSafe ==
  ASSUME NEW K, KInv(K, 0, 0), Tree(K), NEW R, Stopped(R, K)
  PROVE  Safe(R.k)
<1>0. Fields(K) BY DEF KInv
<1>1. CASE R = Panic(K, "iget: no inodes") /\ Crammed(K) BY <1>0, <1>1, PanicSafe
<1>2. CASE R = Panic(K, "balloc: out of blocks") /\ Drained(K) BY <1>0, <1>2, PanicSafe
<1>3. CASE R = Panic(K, "dirlink") /\ Stuffed(K) BY <1>0, <1>3, PanicSafe
<1> QED BY <1>1, <1>2, <1>3 DEF Stopped

\* Inodes that a path leads to from the root or from a directory with a name.
Anchored(K, i) ==
  /\ i \in Inums /\ K.inode[i].type # "NONE"
  /\ K.inode[i].type = "DIR" => i = ROOTINO \/ To(NM(K), TG(K), i) # {}

LEMMA FollowAnchored ==
  ASSUME NEW K, KInv(K, 0, 0), Tree(K), NEW d, Anchored(K, d), NEW name, follow(K, d, name) # 0
  PROVE  Anchored(K, follow(K, d, name))
<1> DEFINE e == dirlookup(K, d, name)
           i == K.inode[d].data[e][2]
<1>1. IsDir(K, d) /\ e # 0 /\ follow(K, d, name) = i BY DEF follow
<1>2. d \in Inums /\ K.inode[d].type = "DIR" BY <1>1 DEF IsDir, Anchored
<1>3. K.inode[d].data \in Seq(Dirents) BY <1>2 DEF KInv, Dirs
<1>4. e \in 1..Len(K.inode[d].data) /\ i \in Inums BY <1>1, <1>3, EntryFound
<1>5. Linked(TY(K), NL(K), NM(K), TG(K)) BY DEF KInv
<1>t. /\ K.inode[d].data[1][2] = d
      /\ d = ROOTINO => K.inode[d].data[2][2] = ROOTINO
      /\ \A x \in To(NM(K), TG(K), d) : K.inode[d].data[2][2] = x[1]
  BY <1>2 DEF Tree
<1>6. CASE e = 1 BY <1>1, <1>6, <1>t
<1>7. CASE e = 2 /\ d = ROOTINO BY <1>1, <1>7, <1>t
<1>8. CASE e = 2 /\ d # ROOTINO
  <2>1. PICK x \in To(NM(K), TG(K), d) : TRUE BY <1>2, <1>8 DEF Anchored
  <2>2. i = x[1] BY <2>1, <1>8, <1>t
  <2>3. x \in NM(K) BY <2>1 DEF To
  <2>4. TY(K)[x[1]] = "DIR" /\ (x[1] # ROOTINO => To(NM(K), TG(K), x[1]) # {})
    BY <2>2, <2>3, <1>4, <1>5 DEF Linked
  <2>5. K.inode[x[1]].type = "DIR" /\ x[1] \in Inums BY <2>2, <2>4, <1>4 DEF TY
  <2>6. Anchored(K, x[1]) BY <2>4, <2>5 DEF Anchored
  <2> QED BY <2>2, <2>6, <1>1
<1>9. CASE e # 1 /\ e # 2
  <2>0. Len(K.inode[d].data) \in Nat BY <1>3
  <2>1. e \in Nat /\ e \in 3..Len(K.inode[d].data) /\ i # 0 BY <2>0, <1>4, <1>9, KernelSizes
  <2>2. <<d, e>> \in NM(K) BY <2>1, <1>2 DEF NM
  <2>3. TG(K)[<<d, e>>] = i BY <2>2 DEF TG
  <2> HIDE DEF e, i
  <2>4. <<d, e>> \in To(NM(K), TG(K), i) BY <2>2, <2>3 DEF To
  <2>5. TY(K)[i] # "NONE" BY <2>2, <2>3, <1>5 DEF Linked
  <2>6. Anchored(K, i) BY <2>4, <2>5, <1>4 DEF Anchored, TY
  <2> QED BY <2>6, <1>1
<1> QED BY <1>6, <1>7, <1>8, <1>9

LEMMA CwdAnchored ==
  ASSUME NEW K, KInv(K, 0, 0), ~Orphan(K), NEW p \in Procs, K.proc[p].state = "LIVE"
  PROVE  Anchored(K, K.proc[p].cwd)
<1> DEFINE d == K.proc[p].cwd
<1>1. d \in Inums /\ TY(K)[d] # "NONE" BY DEF KInv, Referred
<1>2. K.inode[d].nlink # 0 BY DEF Orphan
<1> HIDE DEF d
<1>3. Linked(TY(K), NL(K), NM(K), TG(K)) BY DEF KInv
<1>4. ASSUME d # ROOTINO, To(NM(K), TG(K), d) = {} PROVE FALSE
  <2>1. Sub(TY(K), NM(K), TG(K), d) = {} BY <1>1, <1>3, <1>4 DEF Linked, Sub
  <2>2. Cardinality(To(NM(K), TG(K), d)) = 0 /\ Cardinality(Sub(TY(K), NM(K), TG(K), d)) = 0
    BY <2>1, <1>4, FS_EmptySet, Zenon
  <2>3. NL(K)[d] = Cardinality(To(NM(K), TG(K), d)) + Cardinality(Sub(TY(K), NM(K), TG(K), d)) + Root(d)
    BY <1>1, <1>3 DEF Linked
  <2>4. NL(K)[d] = 0 BY <2>2, <2>3, <1>4 DEF Root
  <2> QED BY <2>4, <1>1, <1>2 DEF NL
<1>5. Anchored(K, d) BY <1>1, <1>4 DEF Anchored, TY
<1> QED BY <1>5 DEF d

\* A path leads nowhere that is freed, unless a process is in a removed directory.
LEMMA PathAnchored ==
  ASSUME NEW K, KInv(K, 0, 0), Tree(K), ~Orphan(K), NEW p \in Procs, K.proc[p].state = "LIVE",
         NEW path \in Seq(Strings)
  PROVE  /\ ~DanglingLast(K, p, path) /\ ~DanglingParent(K, p, path)
         /\ nameiparent(K, p, path) # 0 => Anchored(K, nameiparent(K, p, path))
<1> DEFINE el == skipelem(path)
           n == Len(el)
           at == namex(K, p, path)
<1>1. Dirs(K) /\ K.proc[p].cwd \in Inums BY DEF KInv, Referred
<1>2. /\ n \in Nat
      /\ \A j \in 0..n : /\ j = 0 => at[j] \in {ROOTINO, K.proc[p].cwd}
                         /\ j # 0 => at[j] = follow(K, at[j - 1], el[j])
  BY <1>1, WalkTyped
<1>3. Anchored(K, ROOTINO)
  <2>1. TY(K)[ROOTINO] = "DIR" BY DEF KInv, Linked
  <2>2. ROOTINO \in Inums BY KernelSizes
  <2> QED BY <2>1, <2>2 DEF Anchored, TY
<1>4. Anchored(K, K.proc[p].cwd) BY CwdAnchored
<1>d. DanglingLast(K, p, path) <=> \E j \in 0..n : at[j] # 0 /\ K.inode[at[j]].type = "NONE"
  BY DEF DanglingLast, Dangling, Elements
<1>q. DanglingParent(K, p, path) => \E j \in 0..(n - 1) : at[j] # 0 /\ K.inode[at[j]].type = "NONE"
  BY DEF DanglingParent, Dangling, Elements
<1>p. nameiparent(K, p, path) = LET d == IF n = 0 THEN 0 ELSE at[n - 1] IN IF IsDir(K, d) THEN d ELSE 0
  BY DEF nameiparent
<1> HIDE DEF n, at, el
<1>5. \A j \in 0..n : at[j] # 0 => Anchored(K, at[j])
  <2> DEFINE Bad == {j \in 0..n : ~(at[j] # 0 => Anchored(K, at[j]))}
  <2>1. SUFFICES ASSUME Bad # {} PROVE FALSE OBVIOUS
  <2>2. PICK m \in Bad : \A x \in Bad : m <= x
    <3>1. Bad \in SUBSET Nat BY <1>2
    <3> QED BY <3>1, <2>1, LeastExists
  <2>3. m \in 0..n /\ at[m] # 0 /\ ~Anchored(K, at[m]) BY <2>2
  <2>4. m # 0 BY <2>3, <1>2, <1>3, <1>4
  <2>5. m - 1 \in 0..n /\ ~(m <= m - 1) BY <2>3, <2>4, <1>2
  <2>6. at[m - 1] # 0 => Anchored(K, at[m - 1]) BY <2>2, <2>5
  <2>7. at[m] = follow(K, at[m - 1], el[m]) BY <2>3, <2>4, <1>2
  <2>8. at[m - 1] # 0 BY <2>3, <2>7 DEF follow, IsDir
  <2> QED BY <2>3, <2>6, <2>7, <2>8, FollowAnchored
<1>6. \A j \in 0..n : at[j] # 0 => K.inode[at[j]].type # "NONE" BY <1>5 DEF Anchored
<1>7. ~DanglingLast(K, p, path) BY <1>6, <1>d
<1>8. ~DanglingParent(K, p, path)
  <2>1. \A j \in 0..(n - 1) : j \in 0..n BY <1>2
  <2> QED BY <2>1, <1>6, <1>q
<1>9. nameiparent(K, p, path) # 0 => Anchored(K, nameiparent(K, p, path))
  <2>1. SUFFICES ASSUME nameiparent(K, p, path) # 0 PROVE Anchored(K, nameiparent(K, p, path)) OBVIOUS
  <2>2. n # 0 /\ nameiparent(K, p, path) = at[n - 1] BY <2>1, <1>p DEF IsDir
  <2>3. n - 1 \in 0..n BY <2>2, <1>2
  <2> QED BY <2>1, <2>2, <2>3, <1>5
<1> QED BY <1>7, <1>8, <1>9

-----------------------------------------------------------------------------
(* The calls that make no directory.  Of these only write() may panic.     *)

\* Inodes stay as they are.
Aside(K, M) == DOMAIN M = DOMAIN K /\ M.inode = K.inode /\ M.panic = K.panic

LEMMA AsideQuiet ==
  ASSUME NEW K, Shape(K), NEW M, Aside(K, M)
  PROVE  Quiet(K, M)
BY QuietSame DEF Aside, Shape

LEMMA AsideThen ==
  ASSUME NEW K, NEW L, NEW M, Aside(K, L), Aside(L, M)
  PROVE  Aside(K, M)
BY DEF Aside

LEMMA AsideParts ==
  ASSUME NEW K, Shape(K), NEW x, NEW y, NEW z
  PROVE  /\ Aside(K, K) /\ Aside(K, [K EXCEPT !.file[x] = y])
         /\ Aside(K, [K EXCEPT !.pipe[x] = y]) /\ Aside(K, [K EXCEPT !.proc = x])
         /\ Aside(K, [K EXCEPT !.proc[x] = y]) /\ Aside(K, [K EXCEPT !.proc[x] = y, !.free = z])
<1>0. "inode" \in DOMAIN K /\ "panic" \in DOMAIN K BY DEF Shape
<1>1. Aside(K, K) /\ Aside(K, [K EXCEPT !.file[x] = y]) BY <1>0 DEF Aside
<1>2. Aside(K, [K EXCEPT !.pipe[x] = y]) /\ Aside(K, [K EXCEPT !.proc = x]) BY <1>0 DEF Aside
<1>3. Aside(K, [K EXCEPT !.proc[x] = y]) BY <1>0 DEF Aside
<1>4. Aside(K, [K EXCEPT !.proc[x] = y, !.free = z]) BY <1>0 DEF Aside
<1> QED BY <1>1, <1>2, <1>3, <1>4

LEMMA DupQuiet ==
  ASSUME NEW K, Shape(K), NEW p, NEW fd
  PROVE  Quiet(K, sys_dup(K, p, fd).k)
<1> DEFINE f == argfd(K, p, fd)
           new == fdalloc(K, p)
           K1 == filedup(K, f)
           K2 == [K1 EXCEPT !.proc[p].ofile[new] = f]
<1>1. sys_dup(K, p, fd).k = K \/ sys_dup(K, p, fd).k = K2 BY DEF sys_dup, Fail, Ret
<1> HIDE DEF f, new
<1>2. Aside(K, K1) BY DEF Aside, Shape, filedup
<1> HIDE DEF K1
<1>3. Aside(K, K2) BY <1>2 DEF Aside, Shape
<1> HIDE DEF K2
<1>4. Quiet(K, K) BY AsideParts, AsideQuiet
<1>5. Quiet(K, K2) BY <1>3, AsideQuiet
<1> QED BY <1>1, <1>4, <1>5

LEMMA PipeQuiet ==
  ASSUME NEW K, Shape(K), NEW p
  PROVE  Quiet(K, sys_pipe(K, p).k)
<1> DEFINE i == First(Pipes, LAMBDA x : K.pipe[x] = NoPipe)
           rf == filealloc(K)
           end(w) == [ref |-> 1, type |-> "FD_PIPE", ip |-> i, off |-> 0,
                      readable |-> ~w, writable |-> w]
           k1 == [K EXCEPT !.file[rf] = end(FALSE)]
           wf == filealloc(k1)
           fd0 == fdalloc(K, p)
           k2 == [k1 EXCEPT !.file[wf] = end(TRUE), !.proc[p].ofile[fd0] = rf,
                            !.pipe[i] = [NoPipe EXCEPT !.readopen = TRUE, !.writeopen = TRUE]]
           fd1 == fdalloc(k2, p)
           k3 == [k2 EXCEPT !.proc[p].ofile[fd1] = wf]
<1>1. sys_pipe(K, p).k = K \/ sys_pipe(K, p).k = k3 BY DEF sys_pipe, Fail, Ret
<1> HIDE DEF i, rf, end, fd0, fd1
<1>2. Aside(K, k1) BY DEF Aside, Shape
<1> HIDE DEF k1, wf
<1>3. Aside(K, k2) BY <1>2 DEF Aside, Shape
<1> HIDE DEF k2
<1>4. Aside(K, k3) BY <1>3 DEF Aside, Shape
<1> HIDE DEF k3
<1>5. Quiet(K, K) /\ Quiet(K, k3) BY <1>4, AsideParts, AsideQuiet
<1> QED BY <1>1, <1>5

LEMMA ReadQuiet ==
  ASSUME NEW K, Shape(K), NEW p, NEW fd, NEW n
  PROVE  Quiet(K, sys_read(K, p, fd, n).k)
<1> DEFINE f == argfd(K, p, fd)
           i == K.file[f].ip
           got == Len(Readable(K, f, n))
           K1 == [K EXCEPT !.file[f].off = @ + got]
           K2 == [K EXCEPT !.pipe[i].data = SubSeq(@, got + 1, Len(@))]
           R == sys_read(K, p, fd, n).k
<1>1. R = K \/ R = K1 \/ R = K2
  BY DEF sys_read, Fail, Ret
<1> HIDE DEF f, i, got, R
<1>2. Aside(K, K1) BY DEF Aside, Shape
<1>3. Aside(K, K2) BY DEF Aside, Shape
<1> HIDE DEF K1, K2
<1>4. Aside(K, R) BY <1>1, <1>2, <1>3, AsideParts
<1>5. Quiet(K, R) BY <1>4, AsideQuiet
<1> QED BY <1>5 DEF R

LEMMA KillQuiet ==
  ASSUME NEW K, Shape(K), NEW c
  PROVE  Quiet(K, kill(K, c).k)
<1> DEFINE K1 == [K EXCEPT !.proc[c].killed = TRUE]
<1>1. kill(K, c).k = K \/ kill(K, c).k = K1 BY DEF kill, Fail, Ret
<1>2. Aside(K, K1) BY DEF Aside, Shape
<1> HIDE DEF K1
<1>3. Quiet(K, K) /\ Quiet(K, K1) BY <1>2, AsideParts, AsideQuiet
<1> QED BY <1>1, <1>3

LEMMA SbrkQuiet ==
  ASSUME NEW K, Shape(K), NEW p, NEW n
  PROVE  Quiet(K, sys_sbrk(K, p, n).k)
<1> DEFINE K1 == [K EXCEPT !.proc[p].sz = @ + n, !.free = @ - n]
<1>1. sys_sbrk(K, p, n).k = K \/ sys_sbrk(K, p, n).k = K1 BY DEF sys_sbrk, Fail, Ret
<1>2. Aside(K, K1) BY DEF Aside, Shape
<1> HIDE DEF K1
<1>3. Quiet(K, K) /\ Quiet(K, K1) BY <1>2, AsideParts, AsideQuiet
<1> QED BY <1>1, <1>3

LEMMA ReapQuiet ==
  ASSUME NEW K, Shape(K), NEW c
  PROVE  Quiet(K, reap(K, c))
<1>1. Aside(K, reap(K, c)) BY DEF Aside, Shape, reap
<1> QED BY <1>1, AsideQuiet

LEMMA WaitQuiet ==
  ASSUME NEW K, Shape(K), NEW p
  PROVE  Quiet(K, wait(K, p).k)
<1>1. \E z : wait(K, p).k = K \/ wait(K, p).k = reap(K, z) BY DEF wait, Fail, Ret
<1>2. Quiet(K, K) BY AsideParts, AsideQuiet
<1> QED BY <1>1, <1>2, ReapQuiet

LEMMA ForkQuiet ==
  ASSUME NEW K, Shape(K), NEW p
  PROVE  Quiet(K, fork(K, p).k)
<1> DEFINE c == FreeSlot(K)
           F == [f \in Files |-> [K.file[f] EXCEPT !.ref = @ + Cardinality(Held(K.proc, p, f))]]
           dp == [K EXCEPT !.file = F, !.free = @ - K.proc[p].sz]
           d == K.proc[p].cwd
           child == [K.proc[p] EXCEPT !.parent = p, !.killed = FALSE]
           L == iget(dp, d)
           M == [L EXCEPT !.proc[c] = child]
<1>1. fork(K, p).k = K \/ fork(K, p).k = M BY DEF fork, Fail, Ret, Held, FreeSlot
<1> HIDE DEF c, F, d, child
<1>2. Quiet(K, K) BY AsideParts, AsideQuiet
<1>3. Aside(K, dp) BY DEF Aside, Shape
<1>4. Quiet(K, dp) BY <1>3, AsideQuiet
<1> HIDE DEF dp
<1>5. Shape(dp) BY <1>4 DEF Quiet
<1>6. Quiet(dp, L) BY <1>5, QuietPut
<1> HIDE DEF L
<1>7. Quiet(K, L) /\ Shape(L) BY <1>4, <1>6, QuietThen DEF Quiet
<1>8. Quiet(L, M) BY <1>7, AsideParts, AsideQuiet
<1> HIDE DEF M
<1>9. Quiet(K, M) BY <1>7, <1>8, QuietThen
<1> QED BY <1>1, <1>2, <1>9

LEMMA OpenInodeQuiet ==
  ASSUME NEW K, Shape(K), NEW p, NEW i, NEW flags
  PROVE  Quiet(K, openInode(K, p, i, flags).k)
<1> DEFINE f == filealloc(K)
           fd == fdalloc(K, p)
           o == [ref |-> 1, type |-> "FD_INODE", ip |-> i, off |-> 0,
                 readable |-> "O_WRONLY" \notin flags,
                 writable |-> flags \cap {"O_WRONLY", "O_RDWR"} # {}]
           K1 == [K EXCEPT !.file[f] = o, !.proc[p].ofile[fd] = f]
           R == openInode(K, p, i, flags).k
<1>1. R = K \/ R = iput(K, i) \/ R = K1
  BY DEF openInode, Fail, Ret
<1> HIDE DEF f, fd, o, R
<1>2. Aside(K, K1) BY DEF Aside, Shape
<1> HIDE DEF K1
<1>3. Quiet(K, K) /\ Quiet(K, K1) BY <1>2, AsideParts, AsideQuiet
<1>4. Quiet(K, R) BY <1>1, <1>3, QuietPut
<1> QED BY <1>4 DEF R

LEMMA CloseQuiet ==
  ASSUME NEW K, KInv(K, 0, 0), NEW p \in Procs, K.proc[p].state = "LIVE", NEW fd
  PROVE  Quiet(K, sys_close(K, p, fd).k)
<1> DEFINE f == argfd(K, p, fd)
           C == [K EXCEPT !.proc[p].ofile[fd] = 0]
           D == [C EXCEPT !.file[f] = NoFile]
           R == sys_close(K, p, fd).k
<1>0. Shape(K) BY FieldsShape DEF KInv
<1>p. R.panic = K.panic /\ Shape(R)
  <2>1. KInv(R, 0, 0) /\ R.panic = K.panic BY CloseKeeps
  <2> HIDE DEF R
  <2> QED BY <2>1, FieldsShape DEF KInv
<1>1. R = K \/ R = fileclose(C, f)
  BY DEF sys_close, Fail, Ret
<1> HIDE DEF f, R
<1>2. Aside(K, C) BY <1>0 DEF Aside, Shape
<1> HIDE DEF C
<1>3. Shape(C) BY <1>0, <1>2, AsideQuiet DEF Quiet
<1>4. Aside(C, D) BY <1>3, AsideParts
<1>5. \/ fileclose(C, f) = [C EXCEPT !.panic = "fileclose"]
      \/ fileclose(C, f) = [C EXCEPT !.file[f].ref = @ - 1]
      \/ fileclose(C, f) = pipeclose(D, C.file[f].ip, C.file[f].writable)
      \/ fileclose(C, f) = iput(D, C.file[f].ip)
      \/ fileclose(C, f) = D
  BY DEF fileclose
<1> HIDE DEF D
<1>6. Quiet(K, C) /\ Quiet(C, D) /\ Shape(D) BY <1>0, <1>2, <1>3, <1>4, AsideQuiet DEF Quiet
<1>7. Quiet(K, D) BY <1>6, QuietThen
<1>8. ASSUME R = [C EXCEPT !.panic = "fileclose"] PROVE Quiet(K, R)
  <2>1. R.inode = C.inode BY <1>8, <1>3 DEF Shape
  <2>2. R.inode = K.inode BY <2>1, <1>2 DEF Aside
  <2> QED BY <2>2, <1>p, <1>0, QuietSame DEF Shape
<1>9. ASSUME R = [C EXCEPT !.file[f].ref = @ - 1] PROVE Quiet(K, R)
  <2>1. Aside(C, R) BY <1>9, <1>3 DEF Aside, Shape
  <2> QED BY <2>1, <1>3, <1>6, AsideQuiet, QuietThen
<1>10. ASSUME NEW i, NEW w, R = pipeclose(D, i, w) PROVE Quiet(K, R)
  <2>1. PICK X : R = [D EXCEPT !.pipe[i] = X] BY <1>10 DEF pipeclose
  <2>2. Aside(D, R) BY <2>1, <1>6 DEF Aside, Shape
  <2> QED BY <2>2, <1>6, <1>7, AsideQuiet, QuietThen
<1>11. ASSUME NEW i, R = iput(D, i) PROVE Quiet(K, R)
  BY <1>11, <1>6, <1>7, QuietPut, QuietThen
<1>12. Quiet(K, K) BY <1>0, AsideParts, AsideQuiet
<1>13. Quiet(K, R) BY <1>1, <1>5, <1>7, <1>8, <1>9, <1>10, <1>11, <1>12
<1> QED BY <1>13 DEF R

LEMMA WriteQuiet ==
  ASSUME NEW K, KInv(K, 0, 0), NEW p \in Procs, NEW fd, NEW s, NEW dn
  PROVE  LET R == sys_write(K, p, fd, s, dn).k
         IN  Quiet(K, R) \/ (R = Panic(K, "balloc: out of blocks").k /\ Drained(K))
<1> DEFINE f == argfd(K, p, fd)
           i == K.file[f].ip
           R == sys_write(K, p, fd, s, dn).k
<1>0. Shape(K) BY FieldsShape DEF KInv
<1>1. \/ R = K \/ Poured(K, R, i)
      \/ R = Panic(K, "balloc: out of blocks").k /\ Drained(K)
      \/ f # 0 /\ K.file[f].writable /\ K.file[f].type = "FD_INODE" /\ Stored(K, R, f, i)
  BY WriteIs
<1>f. f # 0 => f \in Files BY DEF argfd, KInv, Fields
<1> HIDE DEF f, i, R
<1>2. Quiet(K, K) BY <1>0, AsideParts, AsideQuiet
<1>3. Poured(K, R, i) => Quiet(K, R)
  <2>1. ASSUME NEW X PROVE Quiet(K, [K EXCEPT !.pipe[i].data = X])
    <3> DEFINE V == [K EXCEPT !.pipe[i].data = X]
    <3>1. Aside(K, V) BY <1>0 DEF Aside, Shape
    <3> HIDE DEF V
    <3>2. Quiet(K, V) BY <3>1, <1>0, AsideQuiet
    <3> QED BY <3>2 DEF V
  <2> QED BY <2>1, Zenon DEF Poured
<1>4. ASSUME f # 0, K.file[f].writable, K.file[f].type = "FD_INODE", NEW W, Written(K, W, i)
      PROVE  Quiet(K, W) /\ \A y : Quiet(K, [W EXCEPT !.file[f].off = y])
  <2>1. f \in Files BY <1>4, <1>f
  <2>2. i \in Inums /\ K.inode[i].type # "DIR"
    <3>1. Referred(TY(K), NL(K), RF(K), K.file, K.proc, 0) BY DEF KInv
    <3>2. K.file[f].ip \in Inums /\ TY(K)[K.file[f].ip] # "DIR" BY <3>1, <2>1, <1>4 DEF Referred
    <3> QED BY <3>2 DEF TY, i
  <2>3. Quiet(K, W)
    <3>1. ASSUME NEW X, W = [K EXCEPT !.inode[i].data = X] PROVE Quiet(K, W)
      <4>1. /\ Shape(W) /\ W.panic = K.panic
            /\ \A x \in Inums : W.inode[x].type = K.inode[x].type /\ (x # i => W.inode[x].data = K.inode[x].data)
        BY <3>1, <2>2, <1>0 DEF Shape
      <4> QED BY <4>1, <2>2, QuietDirs
    <3> QED BY <3>1, <1>2, <1>4 DEF Written
  <2>4. Shape(W) BY <2>3 DEF Quiet
  <2>5. ASSUME NEW y PROVE Quiet(K, [W EXCEPT !.file[f].off = y])
    <3> DEFINE V == [W EXCEPT !.file[f].off = y]
    <3>1. Aside(W, V) BY <2>4 DEF Aside, Shape
    <3> HIDE DEF V
    <3>2. Quiet(K, V) BY <2>3, <2>4, <3>1, AsideQuiet, QuietThen
    <3> QED BY <3>2 DEF V
  <2> QED BY <2>3, <2>5
<1>5. f # 0 /\ K.file[f].writable /\ K.file[f].type = "FD_INODE" /\ Stored(K, R, f, i) => Quiet(K, R)
  BY <1>4, Zenon DEF Stored
<1>6. Quiet(K, R) \/ (R = Panic(K, "balloc: out of blocks").k /\ Drained(K))
  BY <1>1, <1>2, <1>3, <1>5
<1> QED BY <1>6 DEF R

LEMMA ExitQuiet ==
  ASSUME NEW K, KInv(K, 0, 0), NEW p \in Procs, K.proc[p].state = "LIVE"
  PROVE  Quiet(K, exit(K, p))
<1>n. NOFILE \in Nat BY KernelAssumption
<1>1. PICK sh : /\ sh = [n \in 0..NOFILE |-> IF n = 0 THEN K ELSE sys_close(sh[n - 1], p, n - 1).k]
                /\ exit(K, p) = Left(iput(sh[NOFILE], K.proc[p].cwd), p)
  BY ShutExists, Zenon
<1>0. 0 \in 0..NOFILE BY <1>n
<1>a. sh[0] = K BY <1>0, <1>1
<1>b. \A n \in 0..NOFILE : n # 0 => sh[n] = sys_close(sh[n - 1], p, n - 1).k BY <1>1
<1> DEFINE Ok(n) == KInv(sh[n], 0, 0) /\ sh[n].proc[p].state = "LIVE" /\ Quiet(K, sh[n])
           Bad == {n \in 0..NOFILE : ~Ok(n)}
<1>2. Ok(0)
  <2>1. Quiet(K, K) BY FieldsShape, AsideParts, AsideQuiet DEF KInv
  <2> QED BY <2>1, <1>a
<1>3. ASSUME NEW m \in 0..NOFILE, m # 0, Ok(m - 1) PROVE Ok(m)
  <2> DEFINE T == sh[m - 1]
             T2 == sys_close(T, p, m - 1).k
  <2>1. sh[m] = T2 BY <1>3, <1>b
  <2>2. KInv(T, 0, 0) /\ T.proc[p].state = "LIVE" /\ Quiet(K, T) BY <1>3
  <2> HIDE DEF T
  <2>3. KInv(T2, 0, 0) /\ T2.proc[p].state = "LIVE" BY <2>2, CloseKeeps
  <2>4. Quiet(T, T2) BY <2>2, CloseQuiet
  <2> HIDE DEF T2
  <2>5. Quiet(K, T2) BY <2>2, <2>4, QuietThen
  <2> QED BY <2>1, <2>3, <2>5
<1> HIDE DEF Ok
<1>4. Bad = {}
  <2>1. SUFFICES ASSUME Bad # {} PROVE FALSE OBVIOUS
  <2>2. PICK m \in Bad : \A x \in Bad : m <= x
    <3>1. Bad \in SUBSET Nat BY <1>n
    <3> QED BY <3>1, <2>1, LeastExists
  <2>3. m \in 0..NOFILE /\ ~Ok(m) BY <2>2
  <2>4. m # 0 BY <2>3, <1>2
  <2>5. m - 1 \in 0..NOFILE /\ ~(m <= m - 1) BY <2>3, <2>4, <1>n
  <2>6. Ok(m - 1) BY <2>2, <2>5
  <2> QED BY <2>3, <2>4, <2>6, <1>3
<1> DEFINE S == sh[NOFILE]
           left == iput(S, K.proc[p].cwd)
<1>5. Quiet(K, S)
  <2>1. Ok(NOFILE) BY <1>4, <1>n
  <2> QED BY <2>1 DEF Ok
<1>6. exit(K, p) = Left(left, p) BY <1>1
<1> HIDE DEF S
<1>7. Quiet(S, left) BY <1>5, QuietPut DEF Quiet
<1> HIDE DEF left
<1>8. Quiet(K, left) /\ Shape(left) BY <1>5, <1>7, QuietThen DEF Quiet
<1>9. Aside(left, Left(left, p)) BY <1>8, AsideParts DEF Left
<1> QED BY <1>6, <1>8, <1>9, AsideQuiet, QuietThen

-----------------------------------------------------------------------------
(* The calls that follow a path.                                           *)

LEMMA GrownTree ==
  ASSUME NEW K, KInv(K, 0, 0), Tree(K), NEW d \in Inums, NEW M, NEW new, NEW type, Grown(K, M, d, new, type)
  PROVE  Tree(M)
<1>1. new \in Inums /\ K.inode[new].type = "NONE" /\ M.inode[new].type = type BY DEF Grown
<1>2. PICK j \in Nat : /\ NM(M) = NM(K) \cup {<<d, j>>} /\ TG(M)[<<d, j>>] = new
                       /\ \A e \in NM(K) : TG(M)[e] = TG(K)[e]
  BY DEF Grown
<1>3. /\ \A e \in NM(K) : TY(K)[TG(K)[e]] # "NONE"
      /\ TY(K)[ROOTINO] = "DIR"
  BY DEF KInv, Linked
<1>4. new # ROOTINO /\ \A e \in NM(K) : TG(K)[e] # new BY <1>1, <1>3 DEF TY
<1>5. ASSUME M.inode[new].type = "DIR"
      PROVE  /\ M.inode[new].data[1][2] = new
             /\ \A e \in To(NM(M), TG(M), new) : M.inode[new].data[2][2] = e[1]
  <2>1. M.inode[new].data[1][2] = new /\ M.inode[new].data[2][2] = d BY <1>1, <1>5 DEF Grown
  <2>2. ASSUME NEW e \in To(NM(M), TG(M), new) PROVE e = <<d, j>> BY <1>2, <1>4 DEF To
  <2> QED BY <2>1, <2>2
<1>6. ASSUME NEW x \in Inums, x # new, M.inode[x].type = "DIR"
      PROVE  /\ M.inode[x].data[1][2] = x
             /\ x = ROOTINO => M.inode[x].data[2][2] = ROOTINO
             /\ \A e \in To(NM(M), TG(M), x) : M.inode[x].data[2][2] = e[1]
  <2>1. K.inode[x].type = "DIR" /\ M.inode[x].data[1] = K.inode[x].data[1]
        /\ M.inode[x].data[2] = K.inode[x].data[2]
    BY <1>6 DEF Grown
  <2>2. /\ K.inode[x].data[1][2] = x
        /\ x = ROOTINO => K.inode[x].data[2][2] = ROOTINO
        /\ \A e \in To(NM(K), TG(K), x) : K.inode[x].data[2][2] = e[1]
    BY <2>1 DEF Tree
  <2>3. To(NM(M), TG(M), x) \subseteq To(NM(K), TG(K), x) BY <1>2, <1>6 DEF To
  <2> QED BY <2>1, <2>2, <2>3
<1> QED BY <1>4, <1>5, <1>6 DEF Tree

\* What create() leaves, and what its caller may go on with.
Kept(c) ==
  /\ Safe(c.k)
  /\ c.r > 0 => Astray(c.k) \/ (Shape(c.k) /\ Tree(c.k) /\ Calm(c.k))

LEMMA CreateInSafe ==
  ASSUME NEW K, KInv(K, 0, 0), Tree(K), Calm(K), NEW d \in Inums \cup {0},
         d # 0 => K.inode[d].type = "DIR" /\ (Orphan(K) \/ Anchored(K, d)),
         NEW name, d # 0 => name \in Strings, NEW type \in Kinds \ {"NONE"}
  PROVE  Kept(createIn(K, d, name, type))
<1> DEFINE e == dirlookup(K, d, name)
           i == K.inode[d].data[e][2]
           c == createIn(K, d, name, type)
<1>0. Fields(K) /\ Shape(K) BY FieldsShape DEF KInv
<1>1. \/ c = Ret(K, 0) \/ Stopped(c, K)
      \/ d # 0 /\ e = 0 /\ c = newInode(K, d, name, type, ialloc(K))
      \/ d # 0 /\ e # 0 /\ K.inode[i].type = "NONE" /\ c = Panic(K, "ilock: no type")
      \/ d # 0 /\ e # 0 /\ c = Ret(iget(K, i), i)
  BY CreateInIs
<1>s. SUFFICES Kept(c) OBVIOUS
<1> HIDE DEF c
<1>6. ASSUME Stopped(c, K) PROVE Kept(c)
  <2>1. Safe(c.k) /\ c.r = -1 BY <1>6, StoppedSafe, StoppedKeeps
  <2> QED BY <2>1 DEF Kept
<1>2. CASE c = Ret(K, 0)
  <2>1. c.r = 0 /\ c.k = K BY <1>2 DEF Ret
  <2> QED BY <2>1 DEF Kept, Safe, Blamed
<1>3. CASE d # 0 /\ e = 0 /\ c = newInode(K, d, name, type, ialloc(K))
  <2>1. /\ Created(c, K, type)
        /\ \/ Astray(c.k) \/ Stopped(c, K)
           \/ c = Panic(K, "ialloc: no inodes") /\ ialloc(K) = 0
           \/ c.r > 0 /\ Grown(K, c.k, d, ialloc(K), type)
    BY <1>3, NewInodeKeeps
  <2>2. CASE Astray(c.k) BY <2>2 DEF Kept, Safe
  <2>3. CASE c = Panic(K, "ialloc: no inodes") /\ ialloc(K) = 0
    <3>1. Full(K) BY <2>3, InodeFound DEF Full
    <3>2. Safe(c.k) BY <3>1, <2>3, <1>0, PanicSafe
    <3>3. c.r = -1 BY <2>3 DEF Panic, Ret
    <3> QED BY <3>2, <3>3 DEF Kept
  <2>4. CASE ~Astray(c.k) /\ c.r > 0 /\ Grown(K, c.k, d, ialloc(K), type)
    <3>1. Tree(c.k) BY <2>4, <1>3, GrownTree
    <3>2. Calm(c.k)
      <4>1. c.k.panic = K.panic BY <2>4 DEF Grown
      <4> QED BY <4>1, Zenon DEF Calm
    <3>3. KInv(c.k, c.r, 0) BY <2>1, <2>4 DEF Created
    <3>4. Shape(c.k) BY <3>3, FieldsShape DEF KInv
    <3> QED BY <3>1, <3>2, <3>4 DEF Kept, Safe, Blamed
  <2> QED BY <2>1, <2>2, <2>3, <2>4, <1>6
<1>4. CASE d # 0 /\ e # 0 /\ K.inode[i].type = "NONE" /\ c = Panic(K, "ilock: no type")
  <2>1. Orphan(K)
    <3>1. SUFFICES ASSUME Anchored(K, d) PROVE FALSE BY <1>4
    <3>2. IsDir(K, d) BY <1>4 DEF IsDir
    <3>3. follow(K, d, name) = i BY <3>2, <1>4 DEF follow
    <3>4. K.inode[d].data \in Seq(Dirents) BY <1>4 DEF KInv, Dirs
    <3>5. i \in Inums BY <3>4, <1>4, EntryFound
    <3>6. i # 0 BY <3>5, KernelSizes
    <3> HIDE DEF i
    <3>7. Anchored(K, i) BY <3>1, <3>3, <3>6, FollowAnchored
    <3> QED BY <3>7, <1>4 DEF Anchored
  <2>2. Safe(c.k) BY <2>1, <1>0, <1>4, PanicSafe
  <2>3. c.r = -1 BY <1>4 DEF Panic, Ret
  <2> QED BY <2>2, <2>3 DEF Kept
<1>5. CASE d # 0 /\ e # 0 /\ c = Ret(iget(K, i), i)
  <2>1. c.k = iget(K, i) BY <1>5 DEF Ret
  <2>2. Quiet(K, c.k) BY <2>1, <1>0, QuietPut
  <2>3. Safe(c.k) /\ Tree(c.k) /\ Calm(c.k) /\ Shape(c.k) BY <2>2, QuietSafe DEF Quiet
  <2> QED BY <2>3 DEF Kept
<1> QED BY <1>1, <1>2, <1>3, <1>4, <1>5, <1>6

LEMMA IlockSafe ==
  ASSUME NEW K, KInv(K, 0, 0), Tree(K), NEW p \in Procs, K.proc[p].state = "LIVE", NEW path \in Seq(Strings),
         DanglingLast(K, p, path) \/ DanglingParent(K, p, path)
  PROVE  Safe(Panic(K, "ilock: no type").k)
<1>1. Orphan(K) BY PathAnchored
<1> QED BY <1>1, PanicSafe DEF KInv

LEMMA CreateSafe ==
  ASSUME NEW K, KInv(K, 0, 0), Tree(K), Calm(K), NEW p \in Procs, K.proc[p].state = "LIVE",
         NEW path \in Seq(Strings), NEW type \in Kinds \ {"NONE"}
  PROVE  Kept(create(K, p, path, type))
<1> DEFINE C == create(K, p, path, type)
<1>1. ASSUME C = Panic(K, "ilock: no type"), DanglingParent(K, p, path) PROVE Kept(C)
  <2> DEFINE c == Panic(K, "ilock: no type")
  <2>2. Safe(c.k) BY <1>1, IlockSafe
  <2>3. c.r = -1 BY DEF Panic, Ret
  <2> HIDE DEF c, C
  <2>4. Kept(c) BY <2>2, <2>3 DEF Kept
  <2> QED BY <2>4, <1>1 DEF c
<1>3. ASSUME Stopped(C, K) PROVE Kept(C)
  <2> HIDE DEF C
  <2>1. Safe(C.k) /\ C.r = -1 BY <1>3, StoppedSafe, StoppedKeeps
  <2> QED BY <2>1 DEF Kept
<1>2. ASSUME C = createIn(K, nameiparent(K, p, path), LastName(path), type) PROVE Kept(C)
  <2> DEFINE d == nameiparent(K, p, path)
             name == LastName(path)
  <2>1. C = createIn(K, d, name, type) BY <1>2
  <2>2. d # 0 => d \in Inums /\ K.inode[d].type = "DIR" /\ name \in Strings BY PathTyped
  <2>3. d # 0 => Orphan(K) \/ Anchored(K, d) BY PathAnchored
  <2> HIDE DEF d, name, C
  <2>4. d \in Inums \cup {0} BY <2>2
  <2>5. Kept(createIn(K, d, name, type)) BY <2>2, <2>3, <2>4, CreateInSafe
  <2> QED BY <2>1, <2>5
<1> QED BY <1>1, <1>2, <1>3, CreateIs

LEMMA MknodSafe ==
  ASSUME NEW K, KInv(K, 0, 0), Tree(K), Calm(K), NEW p \in Procs, K.proc[p].state = "LIVE",
         NEW path \in Seq(Strings), NEW type \in Kinds \ {"NONE"}
  PROVE  Safe(sys_mknod(K, p, path, type).k)
<1> DEFINE c == create(K, p, path, type)
<1>1. sys_mknod(K, p, path, type).k = IF c.r <= 0 THEN c.k ELSE iput(c.k, c.r)
  BY DEF sys_mknod, Fail, Ret
<1>2. Kept(c) /\ Created(c, K, type) BY CreateSafe, CreateKeeps
<1> HIDE DEF c
<1>3. CASE c.r <= 0 BY <1>1, <1>2, <1>3 DEF Kept
<1>4. CASE ~(c.r <= 0)
  <2>1. c.r > 0 BY <1>2, <1>4 DEF Created
  <2>2. CASE Astray(c.k)
    <3>1. Astray(iput(c.k, c.r)) BY <2>2, PutStrays
    <3> QED BY <3>1, <1>1, <1>4 DEF Safe
  <2>3. CASE Shape(c.k) /\ Tree(c.k) /\ Calm(c.k)
    <3>1. Safe(iput(c.k, c.r)) BY <2>3, QuietPut, QuietSafe
    <3> QED BY <3>1, <1>1, <1>4
  <2> QED BY <2>1, <2>2, <2>3, <1>2 DEF Kept
<1> QED BY <1>3, <1>4

LEMMA OpenSafe ==
  ASSUME NEW K, KInv(K, 0, 0), Tree(K), Calm(K), NEW p \in Procs, K.proc[p].state = "LIVE",
         NEW path \in Seq(Strings), NEW flags
  PROVE  Safe(sys_open(K, p, path, flags).k)
<1>0. Shape(K) BY FieldsShape DEF KInv
<1>1. CASE "O_CREATE" \in flags
  <2> DEFINE type == IF "O_CHECKED" \in flags THEN "CHECKED" ELSE "FILE"
             c == create(K, p, path, type)
  <2>1. sys_open(K, p, path, flags) = openInode(c.k, p, c.r, flags) BY <1>1 DEF sys_open
  <2>2. type \in Kinds \ {"NONE"} BY DEF Kinds
  <2> HIDE DEF type
  <2>3. Kept(c) /\ Created(c, K, type) BY <2>2, CreateSafe, CreateKeeps
  <2> HIDE DEF c
  <2>4. CASE c.r <= 0
    <3>1. openInode(c.k, p, c.r, flags).k = c.k BY <2>4 DEF openInode, Fail, Ret
    <3> QED BY <3>1, <2>1, <2>3 DEF Kept
  <2>5. CASE ~(c.r <= 0)
    <3>1. c.r > 0 BY <2>3, <2>5 DEF Created
    <3>2. CASE Astray(c.k) BY <3>2, <2>1, OpenInodeStrays DEF Safe
    <3>3. CASE Shape(c.k) /\ Tree(c.k) /\ Calm(c.k)
      <4>1. Quiet(c.k, openInode(c.k, p, c.r, flags).k) BY <3>3, OpenInodeQuiet
      <4>2. Safe(openInode(c.k, p, c.r, flags).k) BY <4>1, <3>3, QuietSafe
      <4> QED BY <4>2, <2>1
    <3> QED BY <3>1, <3>2, <3>3, <2>3 DEF Kept
  <2> QED BY <2>4, <2>5
<1> DEFINE R == sys_open(K, p, path, flags)
           F == openFound(K, namei(K, p, path), flags)
<1>2. ASSUME R = Panic(K, "ilock: no type"), DanglingLast(K, p, path) PROVE Safe(R.k)
  <2>1. Safe(Panic(K, "ilock: no type").k) BY <1>2, IlockSafe
  <2> HIDE DEF R
  <2> QED BY <2>1, <1>2
<1>4. ASSUME Stopped(R, K) PROVE Safe(R.k)
  <2> HIDE DEF R
  <2> QED BY <1>4, StoppedSafe
<1>3. ASSUME R = openInode(F.k, p, F.r, flags) PROVE Safe(R.k)
  <2> DEFINE i == namei(K, p, path)
             o == openFound(K, i, flags)
             M == openInode(o.k, p, o.r, flags).k
  <2>1. R = openInode(o.k, p, o.r, flags) BY <1>3
  <2>2. o.k = K \/ o.k = iget(K, i) BY DEF openFound, Ret
  <2> HIDE DEF o, i, R
  <2>0. Quiet(K, K) BY <1>0, AsideParts, AsideQuiet
  <2>3. Quiet(K, o.k) BY <2>0, <2>2, <1>0, QuietPut
  <2>4. Quiet(o.k, M) BY <2>3, OpenInodeQuiet DEF Quiet
  <2> HIDE DEF M
  <2>5. Safe(M) BY <2>3, <2>4, QuietThen, QuietSafe
  <2> QED BY <2>1, <2>5 DEF M
<1>5. CASE "O_CREATE" \notin flags
  <2> HIDE DEF F, R
  <2>1. \/ R = openInode(F.k, p, F.r, flags)
        \/ R = Panic(K, "ilock: no type") /\ DanglingLast(K, p, path)
        \/ Stopped(R, K)
    BY <1>5, OpenIs DEF F, R
  <2>2. Safe(R.k) BY <2>1, <1>2, <1>3, <1>4
  <2> QED BY <2>2 DEF R
<1> QED BY <1>1, <1>5

\* A new name for a file: no directory has another.
LEMMA LinkToQuiet ==
  ASSUME NEW K, KInv(K, 0, 0), NEW i \in Inums, K.inode[i].type # "DIR",
         NEW d \in Inums \cup {0}, d # 0 => K.inode[d].type = "DIR", NEW name, d # 0 => name \in Strings
  PROVE  Quiet(K, Linking(K, i, d, name).k)
<1>0. Fields(K) /\ Dirs(K) /\ Shape(K) BY FieldsShape DEF KInv
<1> DEFINE up == [K EXCEPT !.inode[i].nlink = @ + 1]
           us == [up EXCEPT !.strayed = @ \/ K.inode[d].nlink = 0]
           L == dirlink(us, d, name, i)
<1>2. Quiet(K, Linking(K, i, d, name).k)
  <2>1. i \in Inums /\ K.inode[i].type # "DIR" OBVIOUS
  <2>2. \A x \in Inums : up.inode[x].type = K.inode[x].type /\ up.inode[x].data = K.inode[x].data
    BY <1>0, <2>1 DEF Fields
  <2>3. Fields(up) /\ up.panic = K.panic BY <1>0, <2>1 DEF Fields
  <2>4. Quiet(K, up) BY <2>2, <2>3, FieldsShape, QuietDirs
  <2>5. ASSUME NEW L1, Shape(L1) PROVE Quiet(L1, [L1 EXCEPT !.inode[i].nlink = @ - 1])
    <3> DEFINE M == [L1 EXCEPT !.inode[i].nlink = @ - 1]
    <3>1. /\ Shape(M) /\ M.panic = L1.panic
          /\ \A x \in Inums : M.inode[x].type = L1.inode[x].type /\ M.inode[x].data = L1.inode[x].data
      BY <2>1, <2>5 DEF Shape
    <3> HIDE DEF M
    <3>2. Quiet(L1, M) BY <3>1, QuietDirs
    <3> QED BY <3>2 DEF M
  <2>6. CASE d = 0
    <3>1. Linking(K, i, d, name).k = [up EXCEPT !.inode[i].nlink = @ - 1]
      BY <2>6 DEF Linking, Fail, Ret
    <3> DEFINE M == [up EXCEPT !.inode[i].nlink = @ - 1]
    <3> HIDE DEF up
    <3>2. Quiet(up, M) BY <2>4, <2>5 DEF Quiet
    <3> HIDE DEF M
    <3>3. Quiet(K, M) BY <2>4, <3>2, QuietThen
    <3> QED BY <3>1, <3>3 DEF M
  <2>7. CASE d # 0
    <3>1. us.inode = up.inode /\ us.panic = up.panic /\ DOMAIN us = DOMAIN up /\ us.file = up.file
          /\ us.pipe = up.pipe /\ us.proc = up.proc
      <4> HIDE DEF up
      <4> QED BY <2>3 DEF Fields
    <3>3. Linking(K, i, d, name).k = IF L.r < 0 THEN [L.k EXCEPT !.inode[i].nlink = @ - 1] ELSE L.k
      BY <2>7 DEF Linking, Fail, Ret
    <3> HIDE DEF us, up
    <3>2. Fields(us) BY <3>1, <2>3 DEF Fields
    <3>4. /\ TY(us) = TY(K) /\ NM(us) = NM(K) /\ TG(us) = TG(K)
      <4>1. \A x \in Inums : us.inode[x].type = K.inode[x].type /\ us.inode[x].data = K.inode[x].data BY <3>1, <2>2
      <4> QED BY <4>1, SameNames
    <3>5. Dirs(us) BY <3>1, <2>2, <1>0 DEF Dirs
    <3>6. us.inode[d].type = "DIR" /\ d \in Inums BY <3>1, <2>2, <2>7
    <3>7. Quiet(up, us) BY <3>1, <2>4, <3>2, FieldsShape, QuietSame DEF Quiet, Shape
    <3>8. Quiet(K, us) /\ Shape(us) BY <2>4, <3>7, QuietThen DEF Quiet
    <3>9. CASE dirlookup(us, d, name) # 0
      <4>1. L.k = us /\ L.r = -1 BY <3>9 DEF dirlink, Fail, Ret
      <4> DEFINE M == [us EXCEPT !.inode[i].nlink = @ - 1]
      <4>2. Linking(K, i, d, name).k = M BY <4>1, <3>3
      <4>3. Quiet(us, M) BY <3>8, <2>5
      <4> HIDE DEF M
      <4> QED BY <3>8, <4>2, <4>3, QuietThen
    <3>10. CASE dirlookup(us, d, name) = 0
      <4>1. /\ L.r = 0 /\ Fields(L.k) /\ Rest(L.k, us) /\ TY(L.k) = TY(us) /\ Heads(L.k, us)
            /\ \E j \in Nat : /\ <<d, j>> \notin NM(us) /\ NM(L.k) = NM(us) \cup {<<d, j>>}
                              /\ TG(L.k)[<<d, j>>] = i
                              /\ \A e \in NM(us) : TG(L.k)[e] = TG(us)[e]
        <5>1. name \in Strings BY <2>7
        <5> HIDE DEF L
        <5> QED BY <5>1, <3>2, <3>5, <3>6, <3>10, <2>1, DirlinkMakes DEF L
      <4> DEFINE M == L.k
      <4>2. Linking(K, i, d, name).k = M BY <4>1, <3>3
      <4> HIDE DEF L, M
      <4>3. PICK j \in Nat : /\ NM(M) = NM(us) \cup {<<d, j>>} /\ TG(M)[<<d, j>>] = i
                             /\ \A e \in NM(us) : TG(M)[e] = TG(us)[e]
        BY <4>1 DEF M
      <4>4. Shape(M) /\ M.panic = us.panic BY <4>1, FieldsShape DEF Rest, M
      <4>5. ASSUME NEW x \in Inums, M.inode[x].type = "DIR"
            PROVE  /\ us.inode[x].type = "DIR"
                   /\ M.inode[x].data[1] = us.inode[x].data[1] /\ M.inode[x].data[2] = us.inode[x].data[2]
                   /\ To(NM(M), TG(M), x) \subseteq To(NM(us), TG(us), x)
        <5>1. TY(M)[x] = TY(us)[x] /\ TY(us)[i] = TY(K)[i] BY <4>1, <3>4 DEF M
        <5>2. us.inode[x].type = "DIR" /\ us.inode[i].type # "DIR" BY <5>1, <4>5, <2>1 DEF TY
        <5>3. M.inode[x].data[1] = us.inode[x].data[1] /\ M.inode[x].data[2] = us.inode[x].data[2]
          BY <5>2, <4>1 DEF Heads, M
        <5>4. x # i BY <5>2
        <5>5. To(NM(M), TG(M), x) \subseteq To(NM(us), TG(us), x) BY <5>4, <4>3 DEF To
        <5> QED BY <5>2, <5>3, <5>5
      <4>6. Quiet(us, M) BY <4>4, <4>5 DEF Quiet
      <4> QED BY <3>8, <4>2, <4>6, QuietThen
    <3> QED BY <3>9, <3>10
  <2> QED BY <2>6, <2>7
<1> QED BY <1>2

LEMMA LinkSafe ==
  ASSUME NEW K, KInv(K, 0, 0), Tree(K), Calm(K), NEW p \in Procs, K.proc[p].state = "LIVE",
         NEW old \in Seq(Strings), NEW new \in Seq(Strings)
  PROVE  Safe(sys_link(K, p, old, new).k)
<1> DEFINE i == namei(K, p, old)
           d == nameiparent(K, p, new)
           name == LastName(new)
           R == sys_link(K, p, old, new)
           L == linkTo(K, i, d, name)
           N == Linking(K, i, d, name)
<1>1. \/ R.k = K \/ Stopped(R, K)
      \/ R = Panic(K, "ilock: no type") /\ (DanglingLast(K, p, old) \/ DanglingParent(K, p, new))
      \/ i # 0 /\ ~IsDir(K, i) /\ R = L
  BY LinkCallIs
<1>2. \/ L = N
      \/ d # 0 /\ L = Panic(K, "dirlink") /\ FullDir(K, d)
      \/ Stopped(L, K)
  BY LinkIs
<1>3. i \in Inums \cup {0} BY PathTyped
<1>4. d # 0 => d \in Inums /\ K.inode[d].type = "DIR" /\ name \in Strings BY PathTyped
<1> HIDE DEF i, d, name, R, L, N
<1>5. d \in Inums \cup {0} BY <1>4
<1>6. L = N \/ Stopped(L, K)
  <2>1. d # 0 /\ FullDir(K, d) => Stuffed(K) BY <1>4 DEF Stuffed, IsDir
  <2> QED BY <2>1, <1>2, Zenon DEF Stopped
<1>7. ASSUME i # 0, ~IsDir(K, i) PROVE Safe(N.k)
  <2>1. i \in Inums /\ K.inode[i].type # "DIR" BY <1>3, <1>7 DEF IsDir
  <2>2. Quiet(K, Linking(K, i, d, name).k) BY <2>1, <1>4, <1>5, LinkToQuiet
  <2> QED BY <2>2, QuietSafe DEF N
<1>8. (Stopped(R, K) => Safe(R.k)) /\ (Stopped(L, K) => Safe(L.k)) BY StoppedSafe
<1>9. DanglingLast(K, p, old) \/ DanglingParent(K, p, new) => Safe(Panic(K, "ilock: no type").k) BY IlockSafe
<1>10. Safe(K) BY DEF Safe, Blamed
<1>11. Safe(R.k) BY <1>1, <1>6, <1>7, <1>8, <1>9, <1>10, Zenon
<1> QED BY <1>11 DEF R

LEMMA ErasedQuiet ==
  ASSUME NEW K, KInv(K, 0, 0), NEW d \in Inums, K.inode[d].type = "DIR", NEW e \in 3..Len(K.inode[d].data),
         NEW i \in Inums, NEW M, Fields(M), M.panic = K.panic, Erased(K, M, d, e, i)
  PROVE  Quiet(K, M)
<1>0. Dirs(K) /\ Shape(M) BY FieldsShape DEF KInv
<1>1. K.inode[d].data \in Seq(Dirents) /\ Len(K.inode[d].data) \in Nat BY <1>0 DEF Dirs
<1> DEFINE de == K.inode[d].data
           blank == <<"", 0>>
           D == [de EXCEPT ![e] = blank]
<1>2. /\ D[1] = de[1] /\ D[2] = de[2] /\ Len(D) = Len(de) /\ D[e][2] = 0
      /\ \A j \in 1..Len(de) : j # e => D[j] = de[j]
  <2>1. blank \in Dirents /\ blank[2] = 0 BY Literals DEF Dirents
  <2>2. de \in Seq(Dirents) /\ Len(de) \in Nat /\ e \in 3..Len(de) BY <1>1
  <2> HIDE DEF de, blank
  <2> QED BY <2>1, <2>2
<1>3. i # d
  <2>1. SUFFICES ASSUME i = d PROVE FALSE OBVIOUS
  <2>2. <<d, e>> \in NM(K) /\ i = K.inode[d].data[e][2] /\ isdirempty(K, i) BY <2>1 DEF Erased
  <2>3. e \in DOMAIN K.inode[d].data /\ e > 2 BY <1>1
  <2>4. K.inode[d].data[e][2] = 0 BY <2>1, <2>2, <2>3 DEF isdirempty
  <2> QED BY <2>2, <2>4, KernelSizes
<1>4. /\ \A x \in Inums : M.inode[x].type = K.inode[x].type
      /\ \A x \in Inums \ {d} : M.inode[x].data = K.inode[x].data
      /\ M.inode[d].data = D
  BY <1>3 DEF Erased
<1> HIDE DEF D, blank
<1>5. ASSUME NEW x \in NM(M) PROVE x \in NM(K) /\ TG(M)[x] = TG(K)[x]
  <2>1. /\ x \in Inums \X Nat /\ M.inode[x[1]].type = "DIR" /\ x[2] \in 3..Len(M.inode[x[1]].data)
        /\ M.inode[x[1]].data[x[2]][2] # 0
    BY DEF NM
  <2>2. M.inode[x[1]].data[x[2]] = K.inode[x[1]].data[x[2]] /\ Len(M.inode[x[1]].data) = Len(K.inode[x[1]].data)
    <3>1. CASE x[1] # d BY <3>1, <2>1, <1>4
    <3>2. CASE x[1] = d
      <4>1. x[2] \in 3..Len(D) /\ D[x[2]][2] # 0 BY <3>2, <2>1, <1>4
      <4>2. x[2] # e BY <4>1, <1>2
      <4>3. x[2] \in 1..Len(D) BY <4>1, <1>1, <1>2
      <4> QED BY <4>2, <4>3, <3>2, <1>2, <1>4
    <3> QED BY <3>1, <3>2
  <2>3. K.inode[x[1]].type = "DIR" BY <2>1, <1>4
  <2>4. x \in NM(K) BY <2>1, <2>2, <2>3 DEF NM
  <2> QED BY <2>2, <2>4 DEF TG
<1>6. ASSUME NEW x \in Inums, M.inode[x].type = "DIR"
      PROVE  /\ K.inode[x].type = "DIR"
             /\ M.inode[x].data[1] = K.inode[x].data[1] /\ M.inode[x].data[2] = K.inode[x].data[2]
             /\ To(NM(M), TG(M), x) \subseteq To(NM(K), TG(K), x)
  BY <1>2, <1>4, <1>5, <1>6 DEF To
<1> QED BY <1>0, <1>6 DEF Quiet

LEMMA UnlinkSafe ==
  ASSUME NEW K, KInv(K, 0, 0), Tree(K), Calm(K), NEW p \in Procs, K.proc[p].state = "LIVE",
         NEW path \in Seq(Strings)
  PROVE  Safe(sys_unlink(K, p, path).k)
<1> DEFINE R == sys_unlink(K, p, path)
<1>1. ASSUME DanglingParent(K, p, path), R = Panic(K, "ilock: no type") PROVE Safe(R.k)
  <2>1. Safe(Panic(K, "ilock: no type").k) BY <1>1, IlockSafe
  <2> QED BY <2>1, <1>1
<1>2. CASE R.k = K BY <1>2 DEF Safe, Blamed
<1>3. ASSUME NEW d \in Inums, NEW e \in Nat, K.inode[d].type = "DIR", e \in 3..Len(K.inode[d].data),
             K.inode[d].data[e][2] \in Inums, R = Unlinking(K, d, e)
      PROVE  Safe(R.k)
  <2> DEFINE i == K.inode[d].data[e][2]
  <2>1. \/ Unlinking(K, d, e).k = K
        \/ \E M : /\ Fields(M) /\ M.panic = K.panic /\ Erased(K, M, d, e, i)
                  /\ Unlinking(K, d, e).k = iput(M, i)
    BY <1>3, UnlinkAtKeeps
  <2>2. i \in Inums BY <1>3
  <2> HIDE DEF i, R
  <2>3. ASSUME NEW M, Fields(M), M.panic = K.panic, Erased(K, M, d, e, i) PROVE Safe(iput(M, i))
    <3>1. Quiet(K, M) BY <1>3, <2>2, <2>3, ErasedQuiet
    <3>2. Quiet(M, iput(M, i)) BY <3>1, QuietPut DEF Quiet
    <3> QED BY <3>1, <3>2, QuietThen, QuietSafe
  <2>4. Safe(K) BY DEF Safe, Blamed
  <2> QED BY <2>1, <2>3, <2>4, <1>3
<1>4. ASSUME Stopped(R, K) PROVE Safe(R.k)
  <2> HIDE DEF R
  <2> QED BY <1>4, StoppedSafe
<1> QED BY <1>1, <1>2, <1>3, <1>4, UnlinkIs

LEMMA ChdirSafe ==
  ASSUME NEW K, KInv(K, 0, 0), Tree(K), Calm(K), NEW p \in Procs, K.proc[p].state = "LIVE",
         NEW path \in Seq(Strings)
  PROVE  Safe(sys_chdir(K, p, path).k)
<1> DEFINE i == namei(K, p, path)
           d == K.proc[p].cwd
           G == iget(K, i)
           P == iput(G, d)
           Q == [P EXCEPT !.proc[p].cwd = i]
           R == sys_chdir(K, p, path)
<1>1. \/ R.k = K \/ Stopped(R, K)
      \/ DanglingLast(K, p, path) /\ R = Panic(K, "ilock: no type")
      \/ R.k = Moved(K, p, i)
  BY ChdirIs
<1>q. Moved(K, p, i) = Q BY DEF Moved
<1> HIDE DEF i, d, R
<1>2. Shape(K) BY FieldsShape DEF KInv
<1>3. Quiet(K, G) BY <1>2, QuietPut
<1> HIDE DEF G
<1>4. Quiet(G, P) BY <1>3, QuietPut DEF Quiet
<1> HIDE DEF P
<1>5. Shape(P) BY <1>4 DEF Quiet
<1>6. Aside(P, Q) BY <1>5 DEF Aside, Shape
<1> HIDE DEF Q
<1>7. Quiet(K, Q) BY <1>3, <1>4, <1>5, <1>6, AsideQuiet, QuietThen
<1>8. Safe(Q) BY <1>7, QuietSafe
<1>9. Safe(K) BY DEF Safe, Blamed
<1>11. Stopped(R, K) => Safe(R.k) BY StoppedSafe
<1>12. DanglingLast(K, p, path) => Safe(Panic(K, "ilock: no type").k) BY IlockSafe
<1>10. Safe(R.k) BY <1>1, <1>q, <1>8, <1>9, <1>11, <1>12, Zenon
<1> QED BY <1>10 DEF R

LEMMA ExecSafe ==
  ASSUME NEW K, KInv(K, 0, 0), Tree(K), Calm(K), NEW p \in Procs, K.proc[p].state = "LIVE",
         NEW path \in Seq(Strings)
  PROVE  Safe(sys_exec(K, p, path).k)
<1> DEFINE R == sys_exec(K, p, path)
<1>1. \/ R.k = K \/ Stopped(R, K)
      \/ R = Panic(K, "ilock: no type") /\ DanglingLast(K, p, path)
  BY ExecIs
<1> HIDE DEF R
<1>2. Safe(K) BY DEF Safe, Blamed
<1>3. Stopped(R, K) => Safe(R.k) BY StoppedSafe
<1>4. DanglingLast(K, p, path) => Safe(Panic(K, "ilock: no type").k) BY IlockSafe
<1>5. Safe(R.k) BY <1>1, <1>2, <1>3, <1>4, Zenon
<1> QED BY <1>5 DEF R

-----------------------------------------------------------------------------
(* Every step.                                                             *)

LEMMA DidSafe ==
  ASSUME NEW K, KInv(K, 0, 0), Tree(K), Calm(K), NEW p \in Procs, K.proc[p].state = "LIVE",
         NEW M, Did(K, p, M)
  PROVE  Safe(M)
<1>0. "DIR" \in Kinds \ {"NONE"} /\ "DEV" \in Kinds \ {"NONE"} BY DEF Kinds
<1>s. Shape(K) BY FieldsShape DEF KInv
<1>1. ASSUME NEW path \in Seq(Strings), NEW type \in {"DIR", "DEV"}, M = sys_mknod(K, p, path, type).k
      PROVE  Safe(M)
  BY <1>0, <1>1, MknodSafe
<1>2. ASSUME NEW path \in Seq(Strings), M = sys_chdir(K, p, path).k \/ M = sys_unlink(K, p, path).k
                                          \/ M = sys_exec(K, p, path).k
      PROVE  Safe(M)
  BY <1>2, ChdirSafe, UnlinkSafe, ExecSafe
<1>3. ASSUME NEW path \in Seq(Strings), NEW new \in Seq(Strings), M = sys_link(K, p, path, new).k
      PROVE  Safe(M)
  BY <1>3, LinkSafe
<1>4. ASSUME NEW path \in Seq(Strings), NEW flags, M = sys_open(K, p, path, flags).k
      PROVE  Safe(M)
  BY <1>4, OpenSafe
<1>5. ASSUME NEW fd, M = sys_dup(K, p, fd).k \/ M = sys_close(K, p, fd).k \/ M = kill(K, fd).k
      PROVE  Quiet(K, M)
  BY <1>s, <1>5, DupQuiet, CloseQuiet, KillQuiet
<1>6. ASSUME NEW fd, NEW n, M = sys_read(K, p, fd, n).k PROVE Quiet(K, M)
  BY <1>s, <1>6, ReadQuiet
<1>10. ASSUME NEW fd, NEW s, NEW n, M = sys_write(K, p, fd, s, n).k PROVE Safe(M)
  <2>1. Quiet(K, M) \/ (M = Panic(K, "balloc: out of blocks").k /\ Drained(K)) BY <1>10, WriteQuiet
  <2>2. Drained(K) => Safe(Panic(K, "balloc: out of blocks").k) BY PanicSafe DEF KInv
  <2>3. Quiet(K, M) => Safe(M) BY QuietSafe
  <2> QED BY <2>1, <2>2, <2>3, Zenon
<1>7. ASSUME NEW n, M = sys_sbrk(K, p, n).k PROVE Quiet(K, M)
  BY <1>s, <1>7, SbrkQuiet
<1>8. ASSUME M = sys_pipe(K, p).k \/ M = wait(K, p).k \/ M = fork(K, p).k \/ M = exit(K, p)
      PROVE  Quiet(K, M)
  BY <1>s, <1>8, PipeQuiet, WaitQuiet, ForkQuiet, ExitQuiet
<1>9. Quiet(K, M) => Safe(M) BY QuietSafe
<1> QED BY <1>1, <1>2, <1>3, <1>4, <1>5, <1>6, <1>7, <1>8, <1>9, <1>10 DEF Did

LEMMA StepSafe ==
  ASSUME Good(k, 0), Safe(k), [Next]_vars
  PROVE  Safe(k')
<1>1. CASE k' = k BY <1>1
<1>2. ASSUME NEW p \in Procs, Calm(k), k.proc[p].state = "LIVE", Did(k, p, k') PROVE Safe(k')
  <2>1. CASE Astray(k) BY <2>1, <1>2, DidStrays DEF Safe
  <2>2. CASE ~Astray(k)
    <3>1. KInv(k, 0, 0) /\ Tree(k) BY <2>2 DEF Good, Safe
    <3> QED BY <3>1, <1>2, DidSafe
  <2> QED BY <2>1, <2>2
<1>3. ASSUME NEW p \in Procs, Calm(k), k.proc[p].state = "ZOMBIE", k' = reap(k, p) PROVE Safe(k')
  <2>1. CASE Astray(k) BY <2>1, <1>3, ReapKeeps DEF Safe
  <2>2. CASE ~Astray(k)
    <3>1. KInv(k, 0, 0) /\ Tree(k) BY <2>2 DEF Good, Safe
    <3>2. Quiet(k, reap(k, p)) BY <3>1, FieldsShape, ReapQuiet DEF KInv
    <3>3. Safe(reap(k, p)) BY <3>1, <3>2, <1>3, QuietSafe
    <3> QED BY <3>3, <1>3
  <2> QED BY <2>1, <2>2
<1>4. CASE UNCHANGED vars BY <1>1, <1>4 DEF vars
<1> QED BY <1>1, <1>2, <1>3, <1>4, StepDid, Zenon DEF Calm

LEMMA BootSafe ==
  ASSUME NEW disk \in Seq(STRING), Len(disk) < NINODES
  PROVE  Safe(Boot(disk))
<1> DEFINE B == Boot(disk)
           D == B.inode[ROOTINO].data
<1>1. D[1] = <<".", 1>> /\ D[2] = <<"..", 1>> BY BootDir
<1>2. \A i \in Inums : B.inode[i].type = "DIR" => i = ROOTINO
  <2>1. \A i \in Inums :
          B.inode[i].type = IF i = 1 THEN "DIR" ELSE IF i <= Len(disk) + 1 THEN "FILE" ELSE "NONE"
    BY BootFields
  <2> HIDE DEF B
  <2> QED BY <2>1 DEF ROOTINO
<1>3. Calm(B) BY DEF Boot, Calm
<1> HIDE DEF B
<1>4. \A e \in NM(B) : e[1] = ROOTINO BY <1>2 DEF NM
<1>5. D[1][2] = ROOTINO /\ D[2][2] = ROOTINO BY <1>1 DEF ROOTINO
<1> HIDE DEF D
<1>6. ASSUME NEW d \in Inums, B.inode[d].type = "DIR"
      PROVE  /\ B.inode[d].data[1][2] = d
             /\ d = ROOTINO => B.inode[d].data[2][2] = ROOTINO
             /\ \A e \in To(NM(B), TG(B), d) : B.inode[d].data[2][2] = e[1]
  <2>1. d = ROOTINO BY <1>2, <1>6
  <2>2. B.inode[d].data = D BY <2>1 DEF D
  <2> QED BY <2>1, <2>2, <1>4, <1>5 DEF To
<1>7. Tree(B) BY <1>6 DEF Tree
<1>8. Safe(B) BY <1>3, <1>7 DEF Safe, Blamed
<1> QED BY <1>8 DEF B

\* Whatever the program: no count goes below its least and no name is missed,
\* so unlink(), fileclose() and create() never panic; the kernel panics when the
\* inodes, the entries of the inode cache, the blocks of the disk or those of a
\* directory have run out, or when a process is in a removed directory.
THEOREM KernelPanics ==
  ASSUME NEW CONSTANT name, NEW CONSTANT prog, NEW CONSTANT disk \in Seq(STRING), Len(disk) < NINODES
  PROVE  Session(name, prog, disk) => []PanicOnlyOrphaned
<1>1. Start(name, prog, disk) => Good(k, 0) /\ Safe(k)
  <2>1. Start(name, prog, disk) => k = Boot(disk) BY DEF Start
  <2> QED BY <2>1, BootGood, BootSafe DEF Good
<1>2. Good(k, 0) /\ Safe(k) /\ [Next]_vars => Good(k, 0)' /\ Safe(k)'
  <2>1. Safe(k') => Safe(k)' BY DEF Safe, Astray, Tree, Blamed, Calm, Full, Orphan, Crammed, Drained, Stuffed, NM, TG, To
  <2> QED BY <2>1, StepGood, StepSafe
<1>3. Safe(k) => PanicOnlyOrphaned
  <2>1. Orphan(k) => \E p \in Live : k.inode[k.proc[p].cwd].nlink = 0 BY DEF Orphan, Live
  <2> QED BY <2>1, Zenon DEF Safe, Blamed, Full, Crammed, Drained, Stuffed, Astray, Calm, PanicOnlyOrphaned
<1> QED BY <1>1, <1>2, <1>3, PTL DEF Session
=============================================================================
