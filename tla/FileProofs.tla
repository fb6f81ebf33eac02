----------------------------- MODULE FileProofs -----------------------------
(***************************************************************************)
(* Proofs about what a file descriptor leads to: Pipe, Inode and           *)
(* CheckedFile, and BufCache below them.                                   *)
(*                                                                         *)
(* A pipe is sound for any number of processes, any size of the ring and   *)
(* counters that wrap at any larger multiple of it; the inode cache, the   *)
(* inodes and the blocks of files for any number of callers that the cache *)
(* has an entry for, of inodes, blocks and addresses; checked files for    *)
(* any layout and any sums; the buffer cache for any number of processes,  *)
(* buffers and blocks, with either driver.                                 *)
(***************************************************************************)
EXTENDS Pipe, Inode, CheckedFile, BufCache, Arithmetic, FiniteSetTheorems, FunctionTheorems

(* Pipes.                                                                  *)

Doings == {"unused", "user", "read", "write", "doze nread", "doze nwrite",
           "sleep nread", "sleep nwrite"}

\* The counters of the code are those of the history, since both wrap alike.
PipeTypes ==
  /\ data \in [0..(PIPESIZE - 1) -> Int]
  /\ nread \in 0..(Wrap - 1) /\ nwrite \in 0..(Wrap - 1)
  /\ got = nread /\ sent = nwrite
  /\ readopen \in BOOLEAN /\ writeopen \in BOOLEAN
  /\ ends \in [Procs -> SUBSET {"r", "w"}]
  /\ doing \in [Procs -> Doings]
  /\ left \in [Procs -> Nat]
  /\ killed \in SUBSET Procs /\ late \in SUBSET Procs
  /\ silent \in BOOLEAN

\* The ring holds the bytes from nread to nwrite.
Ring ==
  /\ Used <= PIPESIZE
  /\ \A i \in 0..(Used - 1) : data[(nread + i) % PIPESIZE] = (nread + i) % Wrap

\* An end is open as long as a process has it, and who is in a call has the
\* end that the call is about.
EndsOpen ==
  /\ readopen = (\E p \in Procs : "r" \in ends[p])
  /\ writeopen = (\E p \in Procs : "w" \in ends[p])
  /\ \A p \in Procs :
       /\ doing[p] \in {"read", "doze nread", "sleep nread"} => "r" \in ends[p]
       /\ doing[p] \in {"write", "doze nwrite", "sleep nwrite"} => "w" \in ends[p]
       /\ doing[p] = "unused" => ends[p] = {}

\* Who sleeps, or is about to, has a reason to; if it is killed, kill() came
\* too late.
Sleepers ==
  \A p \in Procs :
    /\ doing[p] \in {"doze nwrite", "sleep nwrite"} => Used = PIPESIZE /\ readopen
    /\ doing[p] \in {"doze nread", "sleep nread"} => writeopen /\ (Used = 0 \/ silent)
    /\ doing[p] \in {"doze nwrite", "sleep nwrite", "doze nread", "sleep nread"} =>
         (p \in killed => p \in late)

\* The inductive invariant.
PipeInv == PipeTypes /\ Ring /\ EndsOpen /\ Sleepers
-----------------------------------------------------------------------------
(* The arithmetic of the ring.                                             *)

LEMMA PipeSizes ==
  /\ PIPESIZE \in Nat \ {0} /\ Wrap \in Nat \ {0}
  /\ PIPESIZE < Wrap /\ Wrap % PIPESIZE = 0
BY PipeAssumption

\* nwrite is Used bytes ahead of nread; the tests for an empty and a full ring
\* say what they mean.
LEMMA UsedFacts ==
  ASSUME PipeTypes
  PROVE  /\ Used \in 0..(Wrap - 1)
         /\ nwrite = (nread + Used) % Wrap
         /\ Empty <=> Used = 0
         /\ Full <=> Used = PIPESIZE
<1> DEFINE d == nwrite - nread
<1>1. d \in Int /\ nread \in Int /\ nwrite \in Int /\ Used = d % Wrap
  BY PipeSizes DEF PipeTypes, Used
<1>2. Used \in 0..(Wrap - 1)
  BY <1>1, PipeSizes, DivMod
<1>3. nwrite = (nread + Used) % Wrap
  <2>1. (Used + nread) % Wrap = (d + nread) % Wrap
    BY <1>1, PipeSizes, ModPlus
  <2>2. nwrite % Wrap = nwrite
    BY <1>1, PipeSizes, ModNear DEF PipeTypes
  <2>3. d + nread = nwrite /\ Used + nread = nread + Used
    BY <1>1, <1>2
  <2> QED BY <2>1, <2>2, <2>3
<1>4. Empty <=> Used = 0
  <2>1. nread % Wrap = nread /\ 0 % Wrap = 0
    <3>1. nread \in 0..(Wrap - 1) /\ 0 \in Int /\ 0 \in 0..(Wrap - 1)
      BY PipeSizes DEF PipeTypes
    <3> QED BY <1>1, <3>1, PipeSizes, ModNear
  <2>2. ASSUME Used = 0 PROVE nwrite = nread
    <3>1. nread + Used = nread
      BY <1>1, <2>2
    <3> QED BY <1>3, <2>1, <3>1
  <2>3. ASSUME nwrite = nread PROVE Used = 0
    <3>1. d = 0
      BY <1>1, <2>3
    <3> QED BY <1>1, <2>1, <3>1
  <2> QED BY <2>2, <2>3 DEF Empty
<1>5. Full <=> Used = PIPESIZE
  <2>1. ASSUME Full PROVE Used = PIPESIZE
    <3>1. nwrite = (nread + PIPESIZE) % Wrap
      BY <2>1 DEF Full
    <3>2. (((nread + PIPESIZE) % Wrap) + (-nread)) % Wrap
             = ((nread + PIPESIZE) + (-nread)) % Wrap
      <4>1. nread + PIPESIZE \in Int /\ -nread \in Int
        BY <1>1, PipeSizes
      <4> QED BY <4>1, PipeSizes, ModPlus
    <3>3. (nread + PIPESIZE) + (-nread) = PIPESIZE /\ nwrite + (-nread) = d
      BY <1>1, PipeSizes
    <3>4. PIPESIZE % Wrap = PIPESIZE
      BY PipeSizes, ModNear
    <3> QED BY <1>1, <3>1, <3>2, <3>3, <3>4
  <2> QED BY <1>3, <2>1 DEF Full
<1> QED BY <1>2, <1>3, <1>4, <1>5

\* m bytes more, as many as there is room for.
LEMMA UsedAfterWrite ==
  ASSUME PipeTypes, NEW m \in Nat, Used + m <= PIPESIZE
  PROVE  /\ (nwrite + m) % Wrap \in 0..(Wrap - 1)
         /\ (((nwrite + m) % Wrap) - nread) % Wrap = Used + m
<1>1. nread \in Int /\ nwrite \in Int /\ Used \in Nat /\ Used = (nwrite - nread) % Wrap
  BY UsedFacts DEF PipeTypes, Used
<1> DEFINE w == nwrite + m
<1>0. w \in Int /\ -nread \in Int
  BY <1>1
<1>2. (nwrite + m) % Wrap \in 0..(Wrap - 1)
  BY <1>0, PipeSizes, DivMod
<1>3. (((nwrite + m) % Wrap) + (-nread)) % Wrap = ((nwrite + m) + (-nread)) % Wrap
  BY <1>0, PipeSizes, ModPlus
<1>4. (((nwrite - nread) % Wrap) + m) % Wrap = ((nwrite - nread) + m) % Wrap
  <2>1. nwrite - nread \in Int BY <1>1
  <2> QED BY <2>1, PipeSizes, ModPlus, SMTT(30)
<1>5. (nwrite + m) + (-nread) = (nwrite - nread) + m
  BY <1>1
<1>6. (Used + m) % Wrap = Used + m
  <2>1. Used + m \in Int /\ Used + m \in 0..(Wrap - 1) BY <1>1, PipeSizes
  <2> QED BY <2>1, PipeSizes, ModNear
<1>7. ((nwrite + m) % Wrap) + (-nread) = ((nwrite + m) % Wrap) - nread
  BY <1>1, <1>2
<1> QED BY <1>1, <1>2, <1>3, <1>4, <1>5, <1>6, <1>7

\* m bytes fewer, of those that are there.
LEMMA UsedAfterRead ==
  ASSUME PipeTypes, NEW m \in Nat, m <= Used
  PROVE  /\ (nread + m) % Wrap \in 0..(Wrap - 1)
         /\ (nwrite - ((nread + m) % Wrap)) % Wrap = Used - m
<1>1. /\ nread \in Int /\ nwrite \in Int /\ Used = (nwrite - nread) % Wrap
      /\ Used \in 0..(Wrap - 1)
  BY UsedFacts DEF PipeTypes, Used
<1>2. (nread + m) % Wrap \in 0..(Wrap - 1)
  <2>1. nread + m \in Int BY <1>1
  <2> QED BY <2>1, PipeSizes, DivMod
<1>3. (nwrite - ((nread + m) % Wrap)) % Wrap = (nwrite - (nread + m)) % Wrap
  <2>1. nread + m \in Int BY <1>1
  <2> QED BY <1>1, <2>1, PipeSizes, ModPlus
<1>4. (((nwrite - nread) % Wrap) + (-m)) % Wrap = ((nwrite - nread) + (-m)) % Wrap
  <2>1. nwrite - nread \in Int /\ -m \in Int BY <1>1
  <2> QED BY <2>1, PipeSizes, ModPlus
<1>5. nwrite - (nread + m) = (nwrite - nread) + (-m) /\ Used + (-m) = Used - m
  BY <1>1
<1>6. (Used - m) % Wrap = Used - m
  <2>1. Used - m \in Int /\ Used - m \in 0..(Wrap - 1) BY <1>1, PipeSizes
  <2> QED BY <2>1, PipeSizes, ModNear
<1> QED BY <1>1, <1>2, <1>3, <1>4, <1>5, <1>6

\* Put() writes the new bytes behind the old ones and over none of them.
LEMMA PutKeepsRing ==
  ASSUME PipeTypes, Ring, NEW m \in Nat, Used + m <= PIPESIZE
  PROVE  /\ Put(m) \in [0..(PIPESIZE - 1) -> Int]
         /\ \A i \in 0..(Used + m - 1) :
              Put(m)[(nread + i) % PIPESIZE] = (nread + i) % Wrap
<1>1. /\ nread \in Int /\ nwrite \in Int /\ sent = nwrite /\ Used \in Nat
      /\ nwrite = (nread + Used) % Wrap
      /\ DOMAIN data = 0..(PIPESIZE - 1)
  BY UsedFacts DEF PipeTypes
<1>2. Put(m) \in [0..(PIPESIZE - 1) -> Int]
  <2>1. ASSUME NEW j \in Int PROVE (nwrite + j) % Wrap \in Int
    <3>1. nwrite + j \in Int BY <1>1
    <3> QED BY <3>1, PipeSizes, DivMod
  <2>2. ASSUME NEW i \in 0..(PIPESIZE - 1) PROVE (i - nwrite) % PIPESIZE \in Int
    <3>1. i - nwrite \in Int BY <1>1
    <3> QED BY <3>1, PipeSizes, DivMod
  <2>3. \A i \in 0..(PIPESIZE - 1) : data[i] \in Int
    BY DEF PipeTypes
  <2> QED BY <1>1, <2>1, <2>2, <2>3 DEF Put, Byte
<1>3. ASSUME NEW i \in 0..(Used + m - 1)
      PROVE  Put(m)[(nread + i) % PIPESIZE] = (nread + i) % Wrap
  <2> DEFINE x == (nread + i) % PIPESIZE
             j == (x - nwrite) % PIPESIZE
  <2>1. x \in 0..(PIPESIZE - 1)
    <3>1. nread + i \in Int BY <1>1
    <3> QED BY <3>1, PipeSizes, DivMod
  <2>2. j = (i - Used) % PIPESIZE
    <3>2. (((nread + i) % PIPESIZE) + (-nwrite)) % PIPESIZE
             = ((nread + i) + (-nwrite)) % PIPESIZE
      <4>1. nread + i \in Int /\ -nwrite \in Int BY <1>1
      <4> QED BY <4>1, PipeSizes, ModPlus
    <3>3. x - nwrite = ((nread + i) % PIPESIZE) + (-nwrite)
      BY <1>1, <2>1
    <3>4. (((nread + Used) % Wrap) + 0) % PIPESIZE = ((nread + Used) + 0) % PIPESIZE
      <4>1. nread + Used \in Int /\ 0 \in Int BY <1>1
      <4> QED BY <4>1, PipeSizes, ModOfMultiple, ZenonT(40)
    <3>5. nwrite % PIPESIZE = (nread + Used) % PIPESIZE
      BY <1>1, <3>4
    <3>6. ((nread + i) - (nwrite % PIPESIZE)) % PIPESIZE = ((nread + i) - nwrite) % PIPESIZE
      <4>1. nread + i \in Int BY <1>1
      <4> QED BY <1>1, <4>1, PipeSizes, ModPlus
    <3>7. ((nread + i) - ((nread + Used) % PIPESIZE)) % PIPESIZE
             = ((nread + i) - (nread + Used)) % PIPESIZE
      <4>1. nread + i \in Int /\ nread + Used \in Int BY <1>1
      <4> QED BY <4>1, PipeSizes, ModPlus
    <3>8. (nread + i) - (nread + Used) = i - Used /\ (nread + i) + (-nwrite) = (nread + i) - nwrite
      BY <1>1
    <3> QED BY <3>2, <3>3, <3>5, <3>6, <3>7, <3>8
  <2>3. Put(m)[x] = IF j < m THEN (nwrite + j) % Wrap ELSE data[x]
    BY <1>1, <2>1 DEF Put, Byte
  <2>4. CASE i < Used
    <3>1. i - Used \in (-PIPESIZE)..(-1)
      BY <1>1, <2>4, PipeSizes
    <3>2. j = i - Used + PIPESIZE
      <4>1. i - Used \in Int BY <1>1
      <4> QED BY <2>2, <3>1, <4>1, PipeSizes, ModNear
    <3>3. ~(j < m)
      BY <1>1, <3>2, PipeSizes
    <3>4. i \in 0..(Used - 1)
      BY <1>1, <2>4
    <3> QED BY <2>3, <3>3, <3>4 DEF Ring
  <2>5. CASE i >= Used
    <3>1. i - Used \in 0..(PIPESIZE - 1) /\ i - Used < m
      BY <1>1, <2>5, PipeSizes
    <3>2. j = i - Used
      <4>1. i - Used \in Int BY <1>1
      <4> QED BY <2>2, <3>1, <4>1, PipeSizes, ModNear
    <3>3. (((nread + Used) % Wrap) + (i - Used)) % Wrap = ((nread + Used) + (i - Used)) % Wrap
      <4>1. nread + Used \in Int /\ i - Used \in Int BY <1>1
      <4> QED BY <4>1, PipeSizes, ModPlus
    <3>4. (nread + Used) + (i - Used) = nread + i
      BY <1>1
    <3> QED BY <1>1, <2>3, <3>1, <3>2, <3>3, <3>4
  <2> QED BY <1>1, <2>4, <2>5
<1> QED BY <1>2, <1>3

\* What is left after m bytes are taken.
LEMMA ReadKeepsRing ==
  ASSUME PipeTypes, Ring, NEW m \in Nat, m <= Used
  PROVE  \A i \in 0..(Used - m - 1) :
           data[(((nread + m) % Wrap) + i) % PIPESIZE] = (((nread + m) % Wrap) + i) % Wrap
<1>1. nread \in Int /\ Used \in Nat
  BY UsedFacts DEF PipeTypes
<1> SUFFICES ASSUME NEW i \in 0..(Used - m - 1)
             PROVE  data[(((nread + m) % Wrap) + i) % PIPESIZE]
                      = (((nread + m) % Wrap) + i) % Wrap
  OBVIOUS
<1>2. nread + m \in Int /\ i \in Int /\ (nread + m) + i = nread + (m + i)
  BY <1>1
<1>3. (((nread + m) % Wrap) + i) % PIPESIZE = ((nread + m) + i) % PIPESIZE
  BY <1>2, PipeSizes, ModOfMultiple
<1>4. (((nread + m) % Wrap) + i) % Wrap = ((nread + m) + i) % Wrap
  BY <1>2, PipeSizes, ModPlus
<1>5. m + i \in 0..(Used - 1)
  BY <1>1
<1> QED BY <1>2, <1>3, <1>4, <1>5 DEF Ring
-----------------------------------------------------------------------------
(* The steps.                                                              *)

LEMMA PipeStarts == pipealloc => PipeInv
<1> SUFFICES ASSUME pipealloc PROVE PipeInv
  OBVIOUS
<1>1. PipeTypes
  <2>1. 0 \in 0..(Wrap - 1)
    BY PipeSizes
  <2>2. killed = {} /\ late = {} /\ readopen = TRUE /\ writeopen = TRUE /\ silent = FALSE
    BY DEF pipealloc
  <2>3. data \in [0..(PIPESIZE - 1) -> Int] /\ left \in [Procs -> Nat]
    BY DEF pipealloc
  <2>4. ends \in [Procs -> SUBSET {"r", "w"}] /\ doing \in [Procs -> Doings]
    BY DEF pipealloc, Doings
  <2> QED BY <2>1, <2>2, <2>3, <2>4 DEF pipealloc, PipeTypes
<1>2. Used = 0
  BY <1>1, UsedFacts DEF pipealloc, Empty
<1>3. Ring
  BY <1>2, PipeSizes DEF Ring
<1>4. EndsOpen
  BY PipeAssumption DEF pipealloc, EndsOpen
<1>5. Sleepers
  BY DEF pipealloc, Sleepers
<1> QED BY <1>1, <1>3, <1>4, <1>5 DEF PipeInv

\* What leaves the ring alone keeps its part of the invariant.
LEMMA SameRing ==
  ASSUME UNCHANGED <<data, nread, nwrite>>
  PROVE  Used' = Used /\ (Ring => Ring')
BY DEF Used, Ring

LEMMA CallKeepsPipe ==
  ASSUME PipeInv, NEW p \in Procs, NEW n \in Nat, p \notin killed,
         call(p, "write", "w", n) \/ call(p, "read", "r", n)
  PROVE  PipeInv'
<1> USE DEF PipeInv, call, pipe
<1>1. PipeTypes'
  <2>1. CASE call(p, "write", "w", n)
    BY <2>1 DEF PipeTypes, Doings
  <2>2. CASE call(p, "read", "r", n)
    BY <2>2 DEF PipeTypes, Doings
  <2> QED BY <2>1, <2>2
<1>2. Used' = Used /\ Ring'
  BY SameRing
<1>3. EndsOpen'
  BY DEF EndsOpen, PipeTypes
<1>4. Sleepers'
  BY <1>2 DEF Sleepers, PipeTypes
<1> QED BY <1>1, <1>2, <1>3, <1>4

LEMMA ForkKeepsPipe ==
  ASSUME PipeInv, NEW p \in Procs, NEW q \in Procs, fork_pipe(p, q)
  PROVE  PipeInv'
<1> USE DEF PipeInv, fork_pipe, pipe
<1>1. PipeTypes'
  BY DEF PipeTypes, Doings
<1>2. Used' = Used /\ Ring'
  BY SameRing
<1>3. EndsOpen'
  BY DEF EndsOpen, PipeTypes
<1>4. Sleepers'
  BY <1>2 DEF Sleepers, PipeTypes
<1> QED BY <1>1, <1>2, <1>3, <1>4

LEMMA KillKeepsPipe ==
  ASSUME PipeInv, NEW p \in Procs, kill(p)
  PROVE  PipeInv'
<1> USE DEF PipeInv, kill, pipe
<1>1. PipeTypes'
  BY DEF PipeTypes, Doings
<1>2. Used' = Used /\ Ring'
  BY SameRing
<1>3. EndsOpen'
  BY DEF EndsOpen, PipeTypes, Doings
<1>4. Sleepers'
  BY <1>2 DEF Sleepers, PipeTypes, Doings, Dozing
<1> QED BY <1>1, <1>2, <1>3, <1>4

LEMMA SleepKeepsPipe ==
  ASSUME PipeInv, NEW p \in Procs, sleep_pipe(p)
  PROVE  PipeInv'
<1> USE DEF PipeInv, sleep_pipe, pipe, Dozing
<1>1. PipeTypes'
  BY DEF PipeTypes, Doings
<1>2. Used' = Used /\ Ring'
  BY SameRing
<1>3. EndsOpen'
  BY DEF EndsOpen, PipeTypes, Doings
<1>4. Sleepers'
  BY <1>2 DEF Sleepers, PipeTypes, Doings
<1> QED BY <1>1, <1>2, <1>3, <1>4

\* The last descriptor of an end wakes those who wait for the other.
LEMMA CloseKeepsPipe ==
  ASSUME PipeInv, NEW p \in Procs, NEW end \in {"r", "w"}, pipeclose(p, end)
  PROVE  PipeInv'
<1> DEFINE others == UNION {ends[q] : q \in Procs \ {p}}
<1> USE DEF PipeInv, pipeclose
<1>0. /\ "r" \in others <=> \E q \in Procs \ {p} : "r" \in ends[q]
      /\ "w" \in others <=> \E q \in Procs \ {p} : "w" \in ends[q]
  OBVIOUS
<1>1. PipeTypes'
  BY DEF PipeTypes, Doings, WakeReaders, WakeWriters, Woken
<1>2. Used' = Used /\ Ring'
  BY SameRing
<1>3. EndsOpen'
  <2>1. readopen' = (\E q \in Procs : "r" \in ends'[q])
    <3>1. (\E q \in Procs : "r" \in ends'[q]) <=> "r" \in others \/ ("r" \in ends[p] /\ end = "w")
      BY <1>0 DEF PipeTypes
    <3>2. readopen <=> "r" \in others \/ "r" \in ends[p]
      BY <1>0 DEF EndsOpen
    <3>3. readopen' \in BOOLEAN
      BY <1>1 DEF PipeTypes
    <3> QED BY <3>1, <3>2, <3>3
  <2>2. writeopen' = (\E q \in Procs : "w" \in ends'[q])
    <3>1. (\E q \in Procs : "w" \in ends'[q]) <=> "w" \in others \/ ("w" \in ends[p] /\ end = "r")
      BY <1>0 DEF PipeTypes
    <3>2. writeopen <=> "w" \in others \/ "w" \in ends[p]
      BY <1>0 DEF EndsOpen
    <3>3. writeopen' \in BOOLEAN
      BY <1>1 DEF PipeTypes
    <3> QED BY <3>1, <3>2, <3>3
  <2>3. \A q \in Procs :
          /\ doing'[q] \in {"read", "doze nread", "sleep nread"} => "r" \in ends'[q]
          /\ doing'[q] \in {"write", "doze nwrite", "sleep nwrite"} => "w" \in ends'[q]
          /\ doing'[q] = "unused" => ends'[q] = {}
    BY DEF EndsOpen, PipeTypes, WakeReaders, WakeWriters, Woken
  <2> QED BY <2>1, <2>2, <2>3 DEF EndsOpen
<1>4. Sleepers'
  BY <1>2 DEF Sleepers, PipeTypes, EndsOpen, WakeReaders, WakeWriters, Woken,
              Unlocked, Dozing
<1> QED BY <1>1, <1>2, <1>3, <1>4

\* A writer that sleeps has filled the ring; one that gives up either was
\* killed, which silent records, or has no reader that could sleep.
LEMMA WriteKeepsPipe ==
  ASSUME PipeInv, NEW p \in Procs, pipewrite(p)
  PROVE  PipeInv'
<1> DEFINE m == Least(left[p], PIPESIZE - Used)
<1>0. PipeTypes /\ Ring /\ EndsOpen /\ Sleepers
  BY DEF PipeInv
<1>1. /\ Used \in Nat /\ m \in Nat /\ left[p] \in Nat /\ Used + m <= PIPESIZE
      /\ m < left[p] => Used + m = PIPESIZE
      /\ MustWait(p) => m < left[p] /\ readopen /\ p \notin killed
  BY <1>0, UsedFacts, PipeSizes, SMTT(30) DEF Least, PipeTypes, Ring, MustWait
<1>2. /\ doing[p] = "write" /\ Unlocked /\ data' = Put(m)
      /\ sent' = (sent + m) % Wrap /\ nwrite' = (nwrite + m) % Wrap
      /\ left' = [left EXCEPT ![p] = IF MustWait(p) THEN left[p] - m ELSE 0]
      /\ \/ m = left[p] /\ doing' = [WakeReaders EXCEPT ![p] = "user"]
         \/ m < left[p] /\ ~MustWait(p) /\ doing' = [doing EXCEPT ![p] = "user"]
         \/ MustWait(p) /\ doing' = [WakeReaders EXCEPT ![p] = "doze nwrite"]
      /\ silent' = (silent \/ (m < left[p] /\ p \in killed))
      /\ UNCHANGED <<nread, readopen, writeopen, ends, killed, late, got>>
  BY DEF pipewrite, Byte
<1> HIDE DEF m
<1>3. nwrite' \in 0..(Wrap - 1) /\ Used' = Used + m
  BY <1>0, <1>1, <1>2, UsedAfterWrite DEF Used
<1>4. /\ data' \in [0..(PIPESIZE - 1) -> Int]
      /\ \A i \in 0..(Used + m - 1) : data'[(nread + i) % PIPESIZE] = (nread + i) % Wrap
  BY <1>0, <1>1, <1>2, PutKeepsRing
<1>5. PipeTypes'
  <2>1. left' \in [Procs -> Nat]
    <3>1. (IF MustWait(p) THEN left[p] - m ELSE 0) \in Nat
      BY <1>1
    <3> QED BY <1>0, <1>2, <3>1 DEF PipeTypes
  <2>2. doing' \in [Procs -> Doings]
    BY <1>0, <1>2 DEF PipeTypes, Doings, WakeReaders, Woken
  <2>3. silent' \in BOOLEAN
    BY <1>0, <1>2 DEF PipeTypes
  <2> QED BY <1>0, <1>2, <1>3, <1>4, <2>1, <2>2, <2>3 DEF PipeTypes
<1>6. Ring'
  <2>1. Used' <= PIPESIZE
    BY <1>1, <1>3
  <2>2. \A i \in 0..(Used' - 1) : data'[(nread' + i) % PIPESIZE] = (nread' + i) % Wrap
    <3>1. nread' = nread
      BY <1>2
    <3> SUFFICES ASSUME NEW i \in 0..(Used' - 1)
                 PROVE  data'[(nread' + i) % PIPESIZE] = (nread' + i) % Wrap
      OBVIOUS
    <3>2. i \in 0..(Used + m - 1)
      BY <1>1, <1>3
    <3>3. data'[(nread + i) % PIPESIZE] = (nread + i) % Wrap
      BY <1>4, <3>2
    <3> QED BY <3>1, <3>3
  <2> QED BY <2>1, <2>2 DEF Ring
<1>7. EndsOpen'
  BY <1>0, <1>2 DEF EndsOpen, PipeTypes, WakeReaders, Woken
<1>8. Sleepers'
  <2> SUFFICES ASSUME NEW q \in Procs
               PROVE  /\ doing'[q] \in {"doze nwrite", "sleep nwrite"} =>
                           Used' = PIPESIZE /\ readopen'
                      /\ doing'[q] \in {"doze nread", "sleep nread"} =>
                           writeopen' /\ (Used' = 0 \/ silent')
                      /\ doing'[q] \in {"doze nwrite", "sleep nwrite", "doze nread",
                                       "sleep nread"} =>
                           (q \in killed' => q \in late')
    BY DEF Sleepers
  <2>0. doing[q] \notin Dozing
    BY <1>2 DEF Unlocked
  <2>1. \/ q = p /\ doing'[q] = "user"
        \/ q = p /\ doing'[q] = "doze nwrite" /\ MustWait(p)
        \/ q # p /\ doing'[q] = doing[q]
        \/ q # p /\ doing[q] = "sleep nread" /\ doing'[q] = "read"
    BY <1>0, <1>2 DEF PipeTypes, WakeReaders, Woken
  <2>2. CASE q = p /\ doing'[q] = "user"
    BY <2>2
  <2>3. CASE q = p /\ doing'[q] = "doze nwrite" /\ MustWait(p)
    BY <1>1, <1>2, <1>3, <2>3
  <2>4. CASE q # p /\ doing[q] = "sleep nread" /\ doing'[q] = "read"
    BY <2>4
  <2>5. CASE q # p /\ doing'[q] = doing[q] /\ doing[q] = "sleep nwrite"
    <3>1. Used = PIPESIZE /\ readopen /\ (q \in killed => q \in late)
      BY <1>0, <2>5 DEF Sleepers
    <3>2. m = 0
      BY <1>1, <3>1, PipeSizes
    <3>3. Used' = PIPESIZE
      BY <1>1, <1>3, <3>1, <3>2
    <3> QED BY <1>2, <2>5, <3>1, <3>3
  <2>6. CASE q # p /\ doing'[q] = doing[q] /\ doing[q] = "sleep nread"
    <3>1. doing' = [doing EXCEPT ![p] = "user"] /\ m < left[p] /\ ~MustWait(p)
      BY <1>0, <1>2, <2>6 DEF PipeTypes, WakeReaders, Woken
    <3>2. "r" \in ends[q]
      BY <1>0, <2>6 DEF EndsOpen
    <3>3. readopen
      BY <1>0, <3>2 DEF EndsOpen
    <3>4. left[p] > PIPESIZE - Used
      <4>1. m < left[p] /\ Used + m = PIPESIZE
        BY <1>1, <3>1
      <4> QED BY <1>1, <4>1, PipeSizes
    <3>5. p \in killed
      BY <3>1, <3>3, <3>4 DEF MustWait
    <3>6. writeopen /\ (q \in killed => q \in late)
      BY <1>0, <2>6 DEF Sleepers
    <3> QED BY <1>2, <2>6, <3>1, <3>5, <3>6
  <2>7. CASE q # p /\ doing'[q] = doing[q] /\ doing[q] \notin {"sleep nwrite", "sleep nread"}
    BY <2>0, <2>7 DEF Dozing
  <2> QED BY <2>1, <2>2, <2>3, <2>4, <2>5, <2>6, <2>7
<1> QED BY <1>5, <1>6, <1>7, <1>8 DEF PipeInv

\* A reader sleeps only at an empty ring, and lets every writer run when it
\* has taken what was there.
LEMMA ReadKeepsPipe ==
  ASSUME PipeInv, NEW p \in Procs, piperead(p)
  PROVE  PipeInv'
<1> DEFINE m == Least(left[p], Used)
<1>0. PipeTypes /\ Ring /\ EndsOpen /\ Sleepers
  BY DEF PipeInv
<1>1. Used \in Nat /\ m \in Nat /\ m <= Used /\ (Empty <=> Used = 0)
  BY <1>0, UsedFacts, PipeSizes DEF Least, PipeTypes
<1> HIDE DEF m
<1>2. CASE /\ Empty /\ writeopen
           /\ doing' = [doing EXCEPT ![p] =
                          IF p \in killed THEN "user" ELSE "doze nread"]
           /\ left' = [left EXCEPT ![p] = IF p \in killed THEN 0 ELSE @]
           /\ UNCHANGED <<nread, got>>
  <2>1. Used' = Used /\ Ring'
    BY <1>0, <1>2, SameRing DEF piperead
  <2>2. PipeTypes'
    BY <1>0, <1>2 DEF piperead, PipeTypes, Doings
  <2>3. EndsOpen'
    BY <1>0, <1>2 DEF piperead, EndsOpen, PipeTypes
  <2>4. Sleepers'
    BY <1>0, <1>1, <1>2, <2>1 DEF piperead, Sleepers, PipeTypes
  <2> QED BY <2>1, <2>2, <2>3, <2>4 DEF PipeInv
<1>3. CASE /\ nread' = (nread + m) % Wrap /\ got' = (got + m) % Wrap
           /\ left' = [left EXCEPT ![p] = 0]
           /\ doing' = [WakeWriters EXCEPT ![p] = "user"]
  <2>1. nread' \in 0..(Wrap - 1) /\ Used' = Used - m
    BY <1>0, <1>1, <1>3, UsedAfterRead DEF piperead, Used
  <2>2. \A i \in 0..(Used - m - 1) :
          data[(nread' + i) % PIPESIZE] = (nread' + i) % Wrap
    BY <1>0, <1>1, <1>3, ReadKeepsRing
  <2>3. PipeTypes'
    <3>1. doing' \in [Procs -> Doings] /\ left' \in [Procs -> Nat]
      BY <1>0, <1>3 DEF PipeTypes, Doings, WakeWriters, Woken
    <3> QED BY <1>0, <1>3, <2>1, <3>1 DEF piperead, PipeTypes
  <2>4. Ring'
    <3>1. Used' <= PIPESIZE
      BY <1>0, <1>1, <2>1, PipeSizes DEF Ring
    <3>2. \A i \in 0..(Used' - 1) : data'[(nread' + i) % PIPESIZE] = (nread' + i) % Wrap
      BY <2>1, <2>2 DEF piperead
    <3> QED BY <3>1, <3>2 DEF Ring
  <2>5. EndsOpen'
    BY <1>0, <1>3 DEF piperead, EndsOpen, PipeTypes, WakeWriters, Woken
  <2>6. Sleepers'
    <3>1. ASSUME NEW q \in Procs
          PROVE  /\ doing'[q] \notin {"doze nwrite", "sleep nwrite", "doze nread"}
                 /\ doing'[q] = "sleep nread" => doing[q] = "sleep nread"
      BY <1>0, <1>3 DEF PipeTypes, WakeWriters, Woken, piperead, Unlocked, Dozing
    <3>2. Used = 0 => Used' = 0
      BY <1>1, <2>1
    <3> QED BY <1>0, <3>1, <3>2 DEF piperead, Sleepers
  <2> QED BY <2>3, <2>4, <2>5, <2>6 DEF PipeInv
<1> QED BY <1>2, <1>3 DEF piperead, Byte, m

LEMMA PipeNextKeeps == PipeInv /\ [PipeNext]_pipevars => PipeInv'
<1> SUFFICES ASSUME PipeInv, [PipeNext]_pipevars PROVE PipeInv'
  OBVIOUS
<1>1. CASE UNCHANGED pipevars
  BY <1>1 DEF PipeInv, PipeTypes, Ring, EndsOpen, Sleepers, Used, pipevars, pipe
<1>2. ASSUME NEW p \in Procs, Run(p) PROVE PipeInv'
  BY <1>2, WriteKeepsPipe, ReadKeepsPipe, SleepKeepsPipe DEF Run
<1>3. ASSUME NEW p \in Procs, Close(p) PROVE PipeInv'
  BY <1>3, CloseKeepsPipe DEF Close
<1>4. ASSUME NEW p \in Procs, kill(p) PROVE PipeInv'
  BY <1>4, KillKeepsPipe
<1>5. ASSUME NEW p \in Procs, NEW q \in Procs, fork_pipe(p, q) PROVE PipeInv'
  BY <1>5, ForkKeepsPipe
<1>6. ASSUME NEW p \in Procs, p \notin killed, NEW n \in Calls,
             call(p, "write", "w", n) \/ call(p, "read", "r", n)
      PROVE  PipeInv'
  <2>1. n \in Nat
    BY PipeAssumption
  <2> QED BY <1>6, <2>1, CallKeepsPipe
<1> QED BY <1>1, <1>2, <1>3, <1>4, <1>5, <1>6 DEF PipeNext

LEMMA PipeInvImplies == PipeInv => PipeSound
<1> SUFFICES ASSUME PipeInv PROVE PipeSound
  OBVIOUS
<1>1. PipeTypes /\ Ring /\ EndsOpen /\ Sleepers
  BY DEF PipeInv
<1>2. (Empty <=> Used = 0) /\ (Full <=> Used = PIPESIZE) /\ nwrite = (nread + Used) % Wrap
  BY <1>1, UsedFacts
<1> QED BY <1>1, <1>2 DEF PipeSound, PipeTypes, Ring, EndsOpen, Sleepers, Byte

\* The inductive invariant holds of every behaviour of pipe.c's calls.
THEOREM RingInvariant == PipeSpec => []PipeInv
BY PipeStarts, PipeNextKeeps, PTL DEF PipeSpec

\* PipeSound of every behaviour: pipewrite() and piperead() pass the bytes on in
\* order across the wrap of their indices, and whoever sleeps on the pipe has
\* to, or was killed between its test and its sleep(), for any number of
\* processes, any ring and any counter width above it.
THEOREM PipeIsSound == PipeSpec => []PipeSound
BY RingInvariant, PipeInvImplies, PTL
-----------------------------------------------------------------------------
(* The inode cache and the blocks of files.                                *)

Stages == {"idle", "lookup", "ialloc", "ilock", "create", "unlink", "unlinked", "use",
           "open", "put", "trunc", "freed", "unput", "deref"}
Addresses == [1..(NDIRECT + 1) -> Blocks \cup {0}]
Dinodes == [type : {0, 1}, nlink : {0, 1}, addrs : Addresses]
CacheEntries == [inum : Inums \cup {0}, ref : Nat, valid : BOOLEAN,
                 lock : Callers \cup {Nobody}, d : Dinodes]
Fresh == [FreeInode EXCEPT !.type = 1]

InodeTypes ==
  /\ dinode \in [Inums -> Dinodes]
  /\ bitmap \in SUBSET Blocks
  /\ indirect \in [Blocks -> [1..NINDIRECT -> Blocks \cup {0}]]
  /\ icache \in [Entries -> CacheEntries]
  /\ dir \in [Names -> Inums \cup {0}]
  /\ dlock \in Callers \cup {Nobody}
  /\ ipc \in [Callers -> Stages]
  /\ iop \in [Callers -> {"", "create", "open", "unlink", "use"}]
  /\ name \in [Callers -> Names]
  /\ ip \in [Callers -> Nat]
  /\ panic = ""

\* Where a call has a reference to a cache entry; where it holds its lock; where
\* the entry is known to be valid; where its inode may not be free.
HasEntry(p) == ipc[p] \notin {"idle", "lookup", "ialloc"}
Holds(p) == ipc[p] \in {"create", "unlink", "unlinked", "use", "trunc", "freed", "unput"}
Knows(p) == ipc[p] \in {"create", "unlink", "unlinked", "use", "open", "put", "trunc", "freed"}
Needs(p) == ipc[p] \in {"ilock", "create", "unlink", "unlinked", "use", "open", "put", "trunc"}
Frees(p) == ipc[p] \in {"trunc", "freed"}

\* Where it holds the directory's lock; those who make a file, and a name's end.
InDir(p) == \/ ipc[p] \in {"lookup", "ialloc", "create", "unlink"}
            \/ ipc[p] = "ilock" /\ iop[p] \in {"create", "unlink"}
Making(p) == \/ ipc[p] \in {"ialloc", "create"}
             \/ ipc[p] = "ilock" /\ iop[p] = "create"
Unlinking(p) == \/ ipc[p] = "unlink"
                \/ ipc[p] = "ilock" /\ iop[p] = "unlink"

Inum(p) == icache[ip[p]].inum
Made(p) == IF ipc[p] = "ialloc" THEN ip[p] ELSE Inum(p)

\* Control: what each place says of the call, its entry and the directory.
Control ==
  \A p \in Callers :
    /\ ipc[p] \in {"idle", "lookup"} => ip[p] = 0
    /\ ipc[p] = "ialloc" => ip[p] \in Inums /\ iop[p] = "create"
    /\ HasEntry(p) => ip[p] \in Entries
    /\ ipc[p] = "lookup" => iop[p] \in {"create", "open", "unlink"}
    /\ ipc[p] = "ilock" => iop[p] \in {"create", "unlink", "use"}
    /\ InDir(p) <=> dlock = p

\* Entries: one for an inode, with the references that there are; who holds the
\* lock; what the entry holds is on the disk, but while iput() frees it.
Users(e) == {p \in Callers : ip[p] = e /\ ipc[p] # "ialloc"}
Counts ==
  /\ \A e \in Entries : icache[e].ref = Cardinality(Users(e))
  /\ \A e \in Entries : icache[e].ref > 0 => icache[e].inum \in Inums
  /\ \A e, f \in Entries :
       icache[e].ref > 0 /\ icache[f].ref > 0 /\ icache[e].inum = icache[f].inum => e = f
Locks ==
  \A e \in Entries, p \in Callers : icache[e].lock = p <=> Holds(p) /\ ip[p] = e
Cached ==
  /\ \A e \in Entries :
       icache[e].ref > 0 /\ icache[e].valid /\ (\A p \in Callers : Frees(p) => ip[p] # e)
       => icache[e].d = dinode[icache[e].inum] /\ icache[e].d.type = 1
  /\ \A p \in Callers : Knows(p) => icache[ip[p]].valid

\* An inode is free only if nobody has a use for it.
Kept ==
  /\ \A i \in Inums : dinode[i].type = 0 => dinode[i] = FreeInode
  /\ \A p \in Callers : Needs(p) => dinode[Inum(p)].type = 1
  /\ \A p \in Callers : ipc[p] = "trunc" => dinode[Inum(p)].nlink = 0
  /\ \A p \in Callers : ipc[p] = "freed" =>
       /\ icache[ip[p]].d = FreeInode
       /\ dinode[Inum(p)].nlink = 0 /\ dinode[Inum(p)].addrs = NoAddrs
Alone ==
  \A p, q \in Callers : p # q /\ HasEntry(q) /\ ip[q] = ip[p] =>
    /\ ipc[p] # "trunc"
    /\ ipc[p] = "freed" => ipc[q] = "ilock" /\ iop[q] = "create"

\* The directory.
Links ==
  /\ \A n \in Names : dir[n] # 0 => dinode[dir[n]].type = 1 /\ dinode[dir[n]].nlink = 1
  /\ \A n, m \in Names : dir[n] # 0 /\ dir[n] = dir[m] => n = m
  /\ \A p \in Callers : Unlinking(p) => dir[name[p]] = Inum(p)
  /\ \A p \in Callers : ipc[p] = "unlinked" =>
       dinode[Inum(p)].nlink = 1 /\ \A n \in Names : dir[n] # Inum(p)
Creation ==
  \A p \in Callers : Making(p) =>
    /\ dir[name[p]] = 0 /\ dinode[Made(p)] = Fresh
    /\ \A q \in Callers : q # p /\ HasEntry(q) /\ Inum(q) = Made(p) =>
         ipc[q] \in {"freed", "unput", "deref"}

\* The blocks that inodes with addresses A own, with P in the indirect blocks.
Slots == Inums \X (1..(NDIRECT + 1 + NINDIRECT))
At(A, P, s) ==
  IF s[2] <= NDIRECT + 1 THEN A[s[1]][s[2]]
  ELSE IF A[s[1]][NDIRECT + 1] = 0 THEN 0
  ELSE P[A[s[1]][NDIRECT + 1]][s[2] - (NDIRECT + 1)]
OneOwner(A, P, U) ==
  /\ \A b \in Blocks : b \in U <=> \E s \in Slots : At(A, P, s) = b
  /\ \A s, t \in Slots : At(A, P, s) # 0 /\ At(A, P, s) = At(A, P, t) => s = t

\* Addresses of the inodes: on the disk, or in the entry while itrunc() runs.
IsAddrs(A) ==
  /\ A \in [Inums -> Addresses]
  /\ \A i \in Inums : (\A p \in Callers : ipc[p] = "trunc" => Inum(p) # i) => A[i] = dinode[i].addrs
  /\ \A p \in Callers : ipc[p] = "trunc" => A[Inum(p)] = icache[ip[p]].d.addrs
BlocksOwned == \E A \in [Inums -> Addresses] : IsAddrs(A) /\ OneOwner(A, indirect, bitmap)

InodeInv ==
  /\ InodeTypes /\ Control /\ Counts /\ Locks /\ Cached /\ Kept /\ Alone
  /\ Links /\ Creation /\ BlocksOwned
-----------------------------------------------------------------------------
(* Facts.                                                                  *)

\* What is assumed of the constants.
LEMMA InodeSizes ==
  /\ NDIRECT \in Nat /\ NINDIRECT \in Nat /\ NBLOCKS \in Nat /\ NINODES \in Nat
  /\ NINODE \in Nat /\ Cardinality(Callers) <= NINODE
  /\ IsFiniteSet(Callers) /\ Nobody \notin Callers /\ Names # {} /\ AnyName \in Names
  /\ 0 \notin Inums /\ 0 \notin Entries /\ 0 \notin Blocks
BY LayoutAssumption, InodeAssumption DEF AnyName, Inums, Entries, Blocks

LEMMA FreeTypes ==
  /\ NoAddrs \in Addresses /\ FreeInode \in Dinodes /\ Fresh \in Dinodes
  /\ FreeEntry \in CacheEntries /\ FreeInode.type = 0 /\ FreeInode.nlink = 0
  /\ FreeInode.addrs = NoAddrs /\ Fresh.type = 1 /\ Fresh.nlink = 0
  /\ Fresh.addrs = NoAddrs
BY InodeSizes DEF NoAddrs, Addresses, FreeInode, Dinodes, Fresh, FreeEntry, CacheEntries, Nobody

LEMMA EntryTypes ==
  ASSUME InodeTypes, NEW e \in Entries
  PROVE  /\ icache[e] \in CacheEntries
         /\ icache[e].inum \in Inums \cup {0} /\ icache[e].ref \in Nat
         /\ icache[e].valid \in BOOLEAN /\ icache[e].lock \in Callers \cup {Nobody}
         /\ icache[e].d \in Dinodes
BY DEF InodeTypes, CacheEntries

LEMMA DinodeTypes ==
  ASSUME NEW d \in Dinodes
  PROVE  d.type \in {0, 1} /\ d.nlink \in {0, 1} /\ d.addrs \in Addresses
BY DEF Dinodes

\* Who has an entry.
LEMMA UsersAre ==
  ASSUME Control, NEW e \in Entries
  PROVE  Users(e) = {p \in Callers : HasEntry(p) /\ ip[p] = e}
BY InodeSizes DEF Control, Users, HasEntry

LEMMA UsersFinite ==
  ASSUME NEW e
  PROVE  IsFiniteSet(Users(e)) /\ Cardinality(Users(e)) \in Nat
<1>1. Users(e) \in SUBSET Callers
  BY DEF Users
<1>2. IsFiniteSet(Users(e))
  BY <1>1, InodeSizes, FS_Subset
<1> QED BY <1>2, FS_CardinalityType

\* An entry that a call refers to is in use, and of an inode.
LEMMA InUse ==
  ASSUME InodeInv, NEW p \in Callers, HasEntry(p)
  PROVE  /\ ip[p] \in Entries /\ icache[ip[p]].ref > 0 /\ icache[ip[p]].ref \in Nat
         /\ Inum(p) \in Inums /\ Inum(p) # 0
<1>1. ip[p] \in Entries /\ InodeTypes /\ Control /\ Counts
  BY DEF InodeInv, Control
<1>2. p \in Users(ip[p])
  BY <1>1, UsersAre
<1>3. Cardinality(Users(ip[p])) # 0
  BY <1>2, UsersFinite, FS_EmptySet
<1>4. icache[ip[p]].ref = Cardinality(Users(ip[p]))
  BY <1>1 DEF Counts
<1>5. icache[ip[p]].ref > 0 /\ icache[ip[p]].ref \in Nat
  BY <1>3, <1>4, UsersFinite
<1>6. Inum(p) \in Inums
  BY <1>1, <1>5 DEF Counts, Inum
<1> QED BY <1>1, <1>5, <1>6, InodeSizes

\* Two calls are in the same entry if they are at the same inode.
LEMMA SameEntry ==
  ASSUME InodeInv, NEW p \in Callers, NEW q \in Callers, HasEntry(p), HasEntry(q)
  PROVE  Inum(p) = Inum(q) <=> ip[p] = ip[q]
<1>1. ip[p] \in Entries /\ ip[q] \in Entries /\ icache[ip[p]].ref > 0 /\ icache[ip[q]].ref > 0
  BY InUse
<1> QED BY <1>1 DEF Inum, InodeInv, Counts
-----------------------------------------------------------------------------
(* The start.                                                              *)

LEMMA InitOneOwner ==
  ASSUME NEW A, NEW P, A = [i \in Inums |-> NoAddrs]
  PROVE  OneOwner(A, P, {})
<1>1. ASSUME NEW s \in Slots PROVE At(A, P, s) = 0
  <2>1. s[1] \in Inums /\ s[2] \in 1..(NDIRECT + 1 + NINDIRECT)
    BY DEF Slots
  <2>2. NDIRECT + 1 \in 1..(NDIRECT + 1)
    BY InodeSizes
  <2>3. A[s[1]][NDIRECT + 1] = 0
    BY <2>1, <2>2 DEF NoAddrs
  <2>4. s[2] <= NDIRECT + 1 => A[s[1]][s[2]] = 0
    BY <2>1, InodeSizes DEF NoAddrs
  <2> QED BY <2>3, <2>4 DEF At
<1> QED BY <1>1, InodeSizes DEF OneOwner

LEMMA InitInodeInv == iinit => InodeInv
<1> SUFFICES ASSUME iinit PROVE InodeInv
  OBVIOUS
<1>0. \A x : x = 0 => ~(x > 0)
  OBVIOUS
<1> USE DEF iinit
<1>1. InodeTypes
  <2>1. NoPtrs \in [1..NINDIRECT -> Blocks \cup {0}]
    BY DEF NoPtrs
  <2> QED BY <2>1, FreeTypes, InodeSizes DEF InodeTypes, Stages
<1>2. \A p \in Callers : ipc[p] = "idle" /\ ip[p] = 0 /\ iop[p] = ""
  OBVIOUS
<1>3. Control
  BY <1>2, InodeSizes DEF Control, HasEntry, InDir
<1>4. \A e \in Entries : icache[e].ref = 0 /\ icache[e].lock = Nobody
  BY DEF FreeEntry
<1>5. Counts
  <2>1. ASSUME NEW e \in Entries PROVE Cardinality(Users(e)) = 0
    <3>1. Users(e) = {}
      BY <1>2, InodeSizes DEF Users
    <3> QED BY <3>1, FS_EmptySet
  <2>2. \A e \in Entries : ~(icache[e].ref > 0)
    BY <1>0, <1>4
  <2> QED BY <2>1, <2>2, <1>4 DEF Counts
<1>6. Locks
  BY <1>2, <1>4, InodeSizes DEF Locks, Holds
<1>7. Cached /\ Alone /\ Creation
  <2>1. \A e \in Entries : ~(icache[e].ref > 0)
    BY <1>0, <1>4
  <2>2. Cached
    BY <1>2, <2>1 DEF Cached, Knows
  <2>3. Alone
    BY <1>2 DEF Alone
  <2>4. Creation
    BY <1>2 DEF Creation, Making
  <2> QED BY <2>2, <2>3, <2>4
<1>8. Kept /\ Links
  BY <1>2, FreeTypes DEF Kept, Links, Needs, Unlinking
<1>9. BlocksOwned
  <2> DEFINE A == [i \in Inums |-> NoAddrs]
  <2>1. A \in [Inums -> Addresses]
    BY FreeTypes
  <2>2. IsAddrs(A)
    BY <1>2, <2>1, FreeTypes DEF IsAddrs
  <2>3. OneOwner(A, indirect, bitmap)
    BY InitOneOwner
  <2> HIDE DEF A
  <2> QED BY <2>1, <2>2, <2>3 DEF BlocksOwned
<1> QED BY <1>1, <1>3, <1>5, <1>6, <1>7, <1>8, <1>9 DEF InodeInv
-----------------------------------------------------------------------------
(* What a step leaves alone.                                               *)

\* The other calls stay where they are.
Others(p) ==
  \A q \in Callers : q # p =>
    ipc'[q] = ipc[q] /\ iop'[q] = iop[q] /\ name'[q] = name[q] /\ ip'[q] = ip[q]

LEMMA CountsFrame ==
  ASSUME Counts, ip' = ip,
         \A q \in Callers : ipc'[q] = "ialloc" <=> ipc[q] = "ialloc",
         \A e \in Entries : icache'[e].ref = icache[e].ref /\ icache'[e].inum = icache[e].inum
  PROVE  Counts'
<1>1. \A e \in Entries : Users(e)' = Users(e)
  BY DEF Users
<1> QED BY <1>1 DEF Counts

\* An assignment of addresses stays one.
LEMMA AddrsFrame ==
  ASSUME NEW A, IsAddrs(A),
         \A i \in Inums : dinode'[i].addrs = dinode[i].addrs,
         \A q \in Callers : ipc'[q] = "trunc" <=> ipc[q] = "trunc",
         \A q \in Callers : ipc[q] = "trunc" =>
           Inum(q)' = Inum(q) /\ icache'[ip'[q]].d.addrs = icache[ip[q]].d.addrs
  PROVE  IsAddrs(A)'
BY DEF IsAddrs

LEMMA BlocksFrame ==
  ASSUME BlocksOwned, bitmap' = bitmap, indirect' = indirect,
         \A i \in Inums : dinode'[i].addrs = dinode[i].addrs,
         \A q \in Callers : ipc'[q] = "trunc" <=> ipc[q] = "trunc",
         \A q \in Callers : ipc[q] = "trunc" =>
           Inum(q)' = Inum(q) /\ icache'[ip'[q]].d.addrs = icache[ip[q]].d.addrs
  PROVE  BlocksOwned'
<1>1. PICK A \in [Inums -> Addresses] : IsAddrs(A) /\ OneOwner(A, indirect, bitmap)
  BY DEF BlocksOwned
<1>2. IsAddrs(A)'
  BY <1>1, AddrsFrame
<1>3. OneOwner(A, indirect, bitmap)'
  BY <1>1
<1> QED BY <1>2, <1>3 DEF BlocksOwned

\* Of the entries, only who holds their locks changes.
SameEntries ==
  \A e \in Entries : /\ icache'[e].ref = icache[e].ref /\ icache'[e].inum = icache[e].inum
                     /\ icache'[e].valid = icache[e].valid /\ icache'[e].d = icache[e].d

\* Nothing but the place of a call, and the locks, changes.
LEMMA QuietFrame ==
  ASSUME InodeInv, NEW p \in Callers, Others(p), SameEntries,
         UNCHANGED <<dinode, bitmap, indirect, ip>>,
         ipc[p] \notin {"ialloc", "trunc", "freed"}, ipc'[p] \notin {"ialloc", "trunc", "freed"},
         ~Making(p), Knows(p)' => Knows(p), Needs(p)' => Needs(p), HasEntry(p)' <=> HasEntry(p)
  PROVE  Counts' /\ Cached' /\ Kept' /\ Alone' /\ BlocksOwned'
<1>1. InodeTypes /\ Control /\ Counts /\ Locks /\ Cached /\ Kept /\ Alone /\ Links /\ Creation
      /\ BlocksOwned
  BY DEF InodeInv
<1>2. Counts'
  BY <1>1, CountsFrame DEF Others, SameEntries
<1>3. \A q \in Callers : (HasEntry(q)' <=> HasEntry(q)) /\ (HasEntry(q) => ip[q] \in Entries)
  BY <1>1 DEF Others, HasEntry, Control
<1>4. Cached'
  <2>1. \A q \in Callers : (Frees(q)' <=> Frees(q)) /\ (Knows(q)' => Knows(q))
    BY DEF Others, Knows, Frees
  <2>2. \A q \in Callers : Knows(q) => HasEntry(q)
    BY DEF Knows, HasEntry
  <2> QED BY <1>1, <1>3, <2>1, <2>2 DEF Cached, SameEntries
<1>5. Kept'
  <2>1. \A q \in Callers : (Needs(q)' => Needs(q)) /\ (HasEntry(q) => Inum(q)' = Inum(q))
    BY <1>3 DEF Others, Needs, Inum, SameEntries
  <2>2. \A q \in Callers : (ipc'[q] = "trunc" => ipc[q] = "trunc") /\ (ipc'[q] = "freed" => ipc[q] = "freed")
    BY DEF Others
  <2>3. \A q \in Callers : Needs(q) \/ ipc[q] = "freed" \/ ipc[q] = "trunc" => HasEntry(q)
    BY DEF Needs, HasEntry
  <2> QED BY <1>1, <1>3, <2>1, <2>2, <2>3 DEF Kept, SameEntries
<1>6. Alone'
  <2> SUFFICES ASSUME NEW q \in Callers, NEW r \in Callers, q # r, HasEntry(r)', ip'[r] = ip'[q]
               PROVE  /\ ipc'[q] # "trunc"
                      /\ ipc'[q] = "freed" => ipc'[r] = "ilock" /\ iop'[r] = "create"
    BY DEF Alone
  <2>1. HasEntry(r) /\ ip[r] = ip[q]
    BY DEF Others, HasEntry
  <2>2. CASE q = p
    BY <2>2
  <2>3. CASE q # p /\ r = p
    BY <2>1, <2>3, <1>1 DEF Alone, Making, Others
  <2>4. CASE q # p /\ r # p
    BY <2>1, <2>4, <1>1 DEF Alone, Others
  <2> QED BY <2>2, <2>3, <2>4
<1>9. BlocksOwned'
  <2>1. \A q \in Callers : ipc[q] = "trunc" => HasEntry(q)
    BY DEF HasEntry
  <2>2. \A q \in Callers : ipc[q] = "trunc" =>
          Inum(q)' = Inum(q) /\ icache'[ip'[q]].d.addrs = icache[ip[q]].d.addrs
    BY <2>1, <1>3 DEF SameEntries, Inum
  <2>3. \A q \in Callers : ipc'[q] = "trunc" <=> ipc[q] = "trunc"
    BY DEF Others
  <2> QED BY <1>1, <2>2, <2>3, BlocksFrame
<1> QED BY <1>2, <1>4, <1>5, <1>6, <1>9

LEMMA LinksFrame ==
  ASSUME InodeInv, NEW p \in Callers, Others(p), ip' = ip, dir' = dir, dinode' = dinode,
         \A e \in Entries : icache'[e].inum = icache[e].inum,
         ~Unlinking(p)', ipc'[p] # "unlinked"
  PROVE  Links'
<1>1. Control /\ Links
  BY DEF InodeInv
<1>2. \A q \in Callers : Unlinking(q)' \/ ipc'[q] = "unlinked" => HasEntry(q) /\ q # p
  BY DEF Others, HasEntry, Unlinking
<1>3. \A q \in Callers : HasEntry(q) => Inum(q)' = Inum(q)
  BY <1>1 DEF Control, Inum
<1>4. \A q \in Callers : (Unlinking(q)' => Unlinking(q) /\ name'[q] = name[q])
                         /\ (ipc'[q] = "unlinked" => ipc[q] = "unlinked")
  BY DEF Others, Unlinking
<1> QED BY <1>1, <1>2, <1>3, <1>4 DEF Links

LEMMA CreationFrame ==
  ASSUME InodeInv, NEW p \in Callers, Others(p), ip' = ip, dir' = dir, dinode' = dinode,
         \A e \in Entries : icache'[e].inum = icache[e].inum,
         Making(p)' => Making(p) /\ Made(p)' = Made(p) /\ name'[p] = name[p],
         HasEntry(p)' => HasEntry(p),
         ipc[p] \in {"freed", "unput", "deref"} /\ HasEntry(p)' =>
           ipc'[p] \in {"freed", "unput", "deref"}
  PROVE  Creation'
<1>1. Control /\ Creation
  BY DEF InodeInv
<1> SUFFICES ASSUME NEW q \in Callers, Making(q)'
             PROVE  /\ dir'[name'[q]] = 0 /\ dinode'[Made(q)'] = Fresh
                    /\ \A r \in Callers : r # q /\ HasEntry(r)' /\ Inum(r)' = Made(q)' =>
                         ipc'[r] \in {"freed", "unput", "deref"}
  BY DEF Creation
<1>2. \A r \in Callers : (HasEntry(r)' => HasEntry(r)) /\ (HasEntry(r) => Inum(r)' = Inum(r))
  BY <1>1 DEF Others, HasEntry, Control, Inum
<1>3. Making(q) /\ Made(q)' = Made(q) /\ name'[q] = name[q]
  BY <1>2 DEF Others, Making, Made, HasEntry
<1>4. dir[name[q]] = 0 /\ dinode[Made(q)] = Fresh
  BY <1>1, <1>3 DEF Creation
<1>5. ASSUME NEW r \in Callers, r # q, HasEntry(r)', Inum(r)' = Made(q)'
      PROVE  ipc'[r] \in {"freed", "unput", "deref"}
  <2>1. HasEntry(r) /\ Inum(r) = Made(q)
    BY <1>2, <1>3, <1>5
  <2>2. ipc[r] \in {"freed", "unput", "deref"}
    BY <2>1, <1>3, <1>5, <1>1 DEF Creation
  <2> QED BY <2>2, <1>5 DEF Others
<1> QED BY <1>3, <1>4, <1>5
-----------------------------------------------------------------------------
(* The steps that change no inode.                                         *)

\* A call enters or leaves the directory, or goes on with an open file.
LEMMA PlaceKeeps ==
  ASSUME InodeInv, NEW p \in Callers, NEW c \in {"create", "open", "unlink"}, NEW n \in Names,
         namei(p, c, n) \/ missing(p) \/ relock(p) \/ close(p)
  PROVE  InodeInv'
<1>1. InodeTypes /\ Control /\ Locks
  BY DEF InodeInv
<1>2. UNCHANGED <<dinode, bitmap, indirect, icache, dir, ip, panic>>
  BY DEF namei, missing, relock, close, idisk
<1>3. Others(p)
  BY <1>1 DEF Others, InodeTypes, namei, missing, relock, close, Goto, Over
<1>4. InodeTypes'
  <2>1. ipc' \in [Callers -> Stages]
    BY <1>1 DEF InodeTypes, namei, missing, relock, close, Goto, Stages
  <2>2. iop' \in [Callers -> {"", "create", "open", "unlink", "use"}]
    BY <1>1 DEF InodeTypes, namei, missing, relock, close, Over
  <2>3. name' \in [Callers -> Names]
    BY <1>1, InodeSizes DEF InodeTypes, namei, missing, relock, close, Over
  <2>4. dlock' \in Callers \cup {Nobody}
    BY <1>1 DEF InodeTypes, namei, missing, relock, close
  <2> QED BY <1>1, <1>2, <2>1, <2>2, <2>3, <2>4 DEF InodeTypes
<1>5. /\ ipc[p] \in {"idle", "lookup", "open"} /\ ipc'[p] \in {"idle", "lookup", "ilock", "put"}
      /\ ipc'[p] = "ilock" => ipc[p] = "open" /\ iop'[p] = "use" /\ dlock' = dlock
      /\ ipc'[p] = "put" => ipc[p] = "open" /\ dlock' = dlock
      /\ ipc'[p] = "lookup" => ipc[p] = "idle" /\ iop'[p] \in {"create", "open", "unlink"}
                               /\ dlock = Nobody /\ dlock' = p
      /\ ipc'[p] = "idle" => ipc[p] = "lookup" /\ dlock' = Nobody
  BY <1>1 DEF InodeTypes, namei, missing, relock, close, Goto, Over
<1>6. Control'
  <2>1. \A q \in Callers : q # p => (InDir(q)' <=> InDir(q))
    BY <1>3 DEF Others, InDir
  <2>2. InDir(p) <=> ipc[p] = "lookup"
    BY <1>5 DEF InDir
  <2>3. InDir(p)' <=> ipc'[p] = "lookup"
    BY <1>5 DEF InDir
  <2>4. \A q \in Callers : InDir(q) <=> dlock = q
    BY <1>1 DEF Control
  <2>5. \A q \in Callers : InDir(q)' <=> dlock' = q
    BY <1>5, <2>1, <2>2, <2>3, <2>4, InodeSizes
  <2> QED BY <1>1, <1>2, <1>3, <1>5, <2>5 DEF Control, Others, HasEntry
<1>7. Locks'
  <2>1. \A q \in Callers : Holds(q)' <=> Holds(q)
    BY <1>3, <1>5 DEF Holds, Others
  <2> QED BY <1>1, <1>2, <2>1 DEF Locks
<1>8. SameEntries
  BY <1>2 DEF SameEntries
<1>9. ~Making(p) /\ ~Making(p)' /\ ~Unlinking(p)' /\ (Knows(p)' => Knows(p)) /\ (Needs(p)' => Needs(p))
      /\ (HasEntry(p)' <=> HasEntry(p))
  BY <1>5 DEF Making, Unlinking, Knows, Needs, HasEntry
<1>10. Counts' /\ Cached' /\ Kept' /\ Alone' /\ BlocksOwned'
  BY <1>2, <1>3, <1>5, <1>8, <1>9, QuietFrame
<1>11. Links'
  BY <1>2, <1>3, <1>5, <1>9, LinksFrame
<1>12. Creation'
  BY <1>2, <1>3, <1>5, <1>9, CreationFrame
<1> QED BY <1>4, <1>6, <1>7, <1>10, <1>11, <1>12 DEF InodeInv

\* A lock is given back, or taken by an iput() that is not the last.
LEMMA LockKeeps ==
  ASSUME InodeInv, NEW p \in Callers,
         iunlock(p) \/ unput(p) \/ (iput(p) /\ ipc'[p] # "trunc")
  PROVE  InodeInv'
<1>1. InodeTypes /\ Control /\ Locks
  BY DEF InodeInv
<1>2. UNCHANGED <<dinode, bitmap, indirect, dir, dlock, ip, panic>>
  BY DEF iunlock, unput, iput, idisk
<1>3. Others(p)
  BY <1>1 DEF Others, InodeTypes, iunlock, unput, iput, Goto, Over
<1>5. /\ ipc[p] \in {"use", "put", "unput"} /\ ipc'[p] \in {"open", "unput", "deref"}
      /\ ipc'[p] = "open" <=> ipc[p] = "use"
      /\ ipc'[p] = "unput" <=> ipc[p] = "put"
      /\ ipc'[p] = "deref" <=> ipc[p] = "unput"
  BY <1>1 DEF InodeTypes, iunlock, unput, iput, Goto
<1>6. ip[p] \in Entries
  BY <1>1, <1>5 DEF Control, HasEntry
<1>4. PICK l \in Callers \cup {Nobody} :
        /\ icache' = [icache EXCEPT ![ip[p]].lock = l]
        /\ l = p <=> ipc'[p] = "unput"
        /\ l # p => l = Nobody
        /\ l = p => icache[ip[p]].lock = Nobody
  <2>1. CASE iunlock(p)
    BY <1>1, <1>5, <2>1, InodeSizes DEF iunlock
  <2>2. CASE unput(p)
    BY <1>1, <1>5, <2>2, InodeSizes DEF unput
  <2>3. CASE iput(p)
    BY <1>1, <1>5, <2>3, InodeSizes DEF iput
  <2> QED BY <2>1, <2>2, <2>3
<1>7. icache[ip[p]] \in CacheEntries /\ icache \in [Entries -> CacheEntries]
  BY <1>1, <1>6, EntryTypes DEF InodeTypes
<1>8. SameEntries
  BY <1>4, <1>6, <1>7 DEF SameEntries, CacheEntries
<1>9. icache' \in [Entries -> CacheEntries]
  BY <1>4, <1>6, <1>7 DEF CacheEntries
<1>10. InodeTypes'
  <2>1. ipc' \in [Callers -> Stages]
    BY <1>1 DEF InodeTypes, iunlock, unput, iput, Goto, Stages
  <2>2. name' \in [Callers -> Names]
    BY <1>1, InodeSizes DEF InodeTypes, iunlock, unput, iput, Over
  <2>3. iop' \in [Callers -> {"", "create", "open", "unlink", "use"}]
    BY <1>1 DEF InodeTypes, iunlock, unput, iput, Over
  <2> QED BY <1>1, <1>2, <1>9, <2>1, <2>2, <2>3 DEF InodeTypes
<1>11. Control'
  <2>1. \A q \in Callers : InDir(q)' <=> InDir(q)
    BY <1>3, <1>5 DEF Others, InDir
  <2> QED BY <1>1, <1>2, <1>3, <1>5, <2>1 DEF Control, Others, HasEntry
<1>12. Locks'
  <2> SUFFICES ASSUME NEW e \in Entries, NEW q \in Callers
               PROVE  icache'[e].lock = q <=> Holds(q)' /\ ip'[q] = e
    BY DEF Locks
  <2>1. icache'[e].lock = IF e = ip[p] THEN l ELSE icache[e].lock
    BY <1>4, <1>6, <1>7 DEF CacheEntries
  <2>2. icache[e].lock = q <=> Holds(q) /\ ip[q] = e
    BY <1>1 DEF Locks
  <2>3. Holds(p)' <=> l = p
    BY <1>4, <1>5 DEF Holds
  <2>4. q # p => (Holds(q)' <=> Holds(q))
    BY <1>3 DEF Holds, Others
  <2>5. l # p => Holds(p)
    BY <1>4, <1>5 DEF Holds
  <2>6. Holds(p) => icache[ip[p]].lock = p
    BY <1>1, <1>6 DEF Locks
  <2>7. e = ip[p] /\ q # p => ~(Holds(q) /\ ip[q] = e)
    BY <1>4, <2>2, <2>5, <2>6, InodeSizes
  <2> QED BY <1>2, <1>4, <2>1, <2>2, <2>3, <2>4, <2>7, InodeSizes
<1>13. ~Making(p) /\ ~Making(p)' /\ ~Unlinking(p)' /\ (Knows(p)' => Knows(p)) /\ (Needs(p)' => Needs(p))
      /\ (HasEntry(p)' <=> HasEntry(p))
  BY <1>5 DEF Making, Unlinking, Knows, Needs, HasEntry
<1>14. Counts' /\ Cached' /\ Kept' /\ Alone' /\ BlocksOwned'
  BY <1>2, <1>3, <1>5, <1>8, <1>13, QuietFrame
<1>15. Links'
  BY <1>2, <1>3, <1>5, <1>8, <1>13, LinksFrame DEF SameEntries
<1>16. Creation'
  BY <1>2, <1>3, <1>5, <1>8, <1>13, CreationFrame DEF SameEntries
<1> QED BY <1>10, <1>11, <1>12, <1>14, <1>15, <1>16 DEF InodeInv

\* The name goes: the inode is left with a link and no name.
LEMMA UnlinkKeeps ==
  ASSUME InodeInv, NEW p \in Callers, unlink(p)
  PROVE  InodeInv'
<1>1. InodeTypes /\ Control /\ Locks /\ Links /\ Creation
  BY DEF InodeInv
<1>2. UNCHANGED <<dinode, bitmap, indirect, icache, iop, name, ip, panic>>
  BY DEF unlink, idisk
<1>3. Others(p)
  BY <1>1 DEF Others, InodeTypes, unlink, Goto
<1>4. ipc[p] = "unlink" /\ ipc'[p] = "unlinked" /\ dlock' = Nobody /\ dir' = [dir EXCEPT ![name[p]] = 0]
  BY <1>1 DEF InodeTypes, unlink, Goto
<1>5. dlock = p /\ \A q \in Callers : q # p => ~InDir(q)
  BY <1>1, <1>4 DEF Control, InDir
<1>6. InodeTypes'
  BY <1>1, <1>2 DEF InodeTypes, unlink, Goto, Stages
<1>7. Control'
  <2>1. \A q \in Callers : ~InDir(q)'
    BY <1>3, <1>4, <1>5 DEF Others, InDir
  <2> QED BY <1>1, <1>2, <1>3, <1>4, <2>1, InodeSizes DEF Control, Others, HasEntry
<1>8. Locks'
  <2>1. \A q \in Callers : Holds(q)' <=> Holds(q)
    BY <1>3, <1>4 DEF Holds, Others
  <2> QED BY <1>1, <1>2, <2>1 DEF Locks
<1>9. SameEntries
  BY <1>2 DEF SameEntries
<1>10. ~Making(p) /\ (Knows(p)' => Knows(p)) /\ (Needs(p)' => Needs(p)) /\ (HasEntry(p)' <=> HasEntry(p))
  BY <1>4 DEF Making, Knows, Needs, HasEntry
<1>11. Counts' /\ Cached' /\ Kept' /\ Alone' /\ BlocksOwned'
  BY <1>2, <1>3, <1>4, <1>9, <1>10, QuietFrame
<1>12. Links'
  <2>1. \A q \in Callers : ~Unlinking(q)'
    BY <1>3, <1>4, <1>5 DEF Others, Unlinking, InDir
  <2>2. \A q \in Callers : Inum(q)' = Inum(q)
    BY <1>2 DEF Inum
  <2>3. dir[name[p]] = Inum(p)
    BY <1>1, <1>4 DEF Links, Unlinking
  <2>4. name[p] \in Names /\ \A n \in Names : dir'[n] = IF n = name[p] THEN 0 ELSE dir[n]
    BY <1>1, <1>4 DEF InodeTypes
  <2>5. Inum(p) # 0
    BY <1>4, InUse DEF HasEntry
  <2>6. dinode[Inum(p)].nlink = 1 /\ \A n \in Names : dir'[n] # Inum(p)
    BY <1>1, <2>3, <2>4, <2>5 DEF Links
  <2>7. \A q \in Callers : ipc'[q] = "unlinked" => q = p \/ ipc[q] = "unlinked"
    BY <1>3 DEF Others
  <2>8. \A q \in Callers : ipc[q] = "unlinked" => Inum(q) # 0
    BY InUse DEF HasEntry
  <2>9. ASSUME NEW q \in Callers, ipc'[q] = "unlinked"
        PROVE  dinode'[Inum(q)'].nlink = 1 /\ \A n \in Names : dir'[n] # Inum(q)'
    BY <1>1, <1>2, <2>2, <2>4, <2>6, <2>7, <2>8, <2>9 DEF Links
  <2>10. \A n \in Names : dir'[n] # 0 => dir'[n] = dir[n]
    BY <2>4
  <2>11. \A n \in Names : dir'[n] # 0 => dinode'[dir'[n]].type = 1 /\ dinode'[dir'[n]].nlink = 1
    BY <1>1, <1>2, <2>10 DEF Links
  <2>12. \A n, m \in Names : dir'[n] # 0 /\ dir'[n] = dir'[m] => n = m
    BY <1>1, <2>10 DEF Links
  <2> QED BY <2>1, <2>9, <2>11, <2>12 DEF Links
<1>13. Creation'
  <2>1. \A q \in Callers : ~Making(q)'
    BY <1>3, <1>4, <1>5 DEF Others, Making, InDir
  <2> QED BY <2>1 DEF Creation
<1> QED BY <1>6, <1>7, <1>8, <1>11, <1>12, <1>13 DEF InodeInv

\* The lock is taken, and the inode is there to be used: it is not free.
LEMMA IlockKeeps ==
  ASSUME InodeInv, NEW p \in Callers, ilock(p)
  PROVE  InodeInv'
<1>1. /\ InodeTypes /\ Control /\ Counts /\ Locks /\ Cached /\ Kept /\ Alone /\ Links
      /\ Creation /\ BlocksOwned
  BY DEF InodeInv
<1> DEFINE e == ip[p]
           d == IF icache[e].valid THEN icache[e].d ELSE dinode[icache[e].inum]
<1>2. UNCHANGED <<dinode, bitmap, indirect, dir, dlock, iop, name, ip>>
  BY DEF ilock, idisk
<1>3. Others(p)
  BY <1>1 DEF Others, InodeTypes, ilock, Goto
<1>4. ipc[p] = "ilock" /\ ipc'[p] = iop[p] /\ iop[p] \in {"create", "unlink", "use"} /\ icache[e].lock = Nobody
  BY <1>1 DEF InodeTypes, ilock, Goto, Control
<1>5. e \in Entries /\ icache[e].ref > 0 /\ icache[e].inum \in Inums
  BY <1>4, InUse DEF HasEntry, Inum
<1>6. icache[e] \in CacheEntries /\ icache \in [Entries -> CacheEntries]
  BY <1>1, <1>5, EntryTypes DEF InodeTypes
<1>7. \A q \in Callers : Frees(q) => ip[q] # e
  <2> SUFFICES ASSUME NEW q \in Callers, Frees(q), ip[q] = e PROVE FALSE
    OBVIOUS
  <2>1. icache[e].lock = q
    BY <1>1, <1>5 DEF Locks, Holds, Frees
  <2> QED BY <1>4, <2>1, InodeSizes
<1>8. d = dinode[icache[e].inum] /\ d.type = 1
  <2>1. dinode[icache[e].inum].type = 1
    BY <1>1, <1>4 DEF Kept, Needs, Inum
  <2>2. icache[e].valid => icache[e].d = dinode[icache[e].inum]
    BY <1>1, <1>5, <1>7 DEF Cached
  <2> QED BY <2>1, <2>2
<1>9. d \in Dinodes
  BY <1>1, <1>5, <1>8 DEF InodeTypes
<1> HIDE DEF d
<1>10. icache' = [icache EXCEPT ![e].lock = p, ![e].valid = TRUE, ![e].d = d]
  BY DEF ilock, d
<1>11. panic' = ""
  <2>1. panic' = IF d.type = 0 THEN "ilock: no type" ELSE panic
    BY DEF ilock, d
  <2>2. panic = ""
    BY <1>1 DEF InodeTypes
  <2>3. d.type # 0
    BY <1>8
  <2> QED BY <2>1, <2>2, <2>3
<1>12. /\ icache' \in [Entries -> CacheEntries]
       /\ \A f \in Entries :
            /\ icache'[f].ref = icache[f].ref /\ icache'[f].inum = icache[f].inum
            /\ f # e => icache'[f] = icache[f]
       /\ icache'[e].lock = p /\ icache'[e].valid /\ icache'[e].d = d
  BY <1>10, <1>5, <1>6, <1>9 DEF CacheEntries
<1> HIDE DEF e
<1>13. InodeTypes'
  <2>1. ipc' \in [Callers -> Stages]
    BY <1>1, <1>4 DEF InodeTypes, ilock, Goto, Stages
  <2> QED BY <1>1, <1>2, <1>11, <1>12, <2>1 DEF InodeTypes
<1>14. Control'
  <2>1. \A q \in Callers : InDir(q)' <=> InDir(q)
    BY <1>2, <1>3, <1>4 DEF Others, InDir
  <2> QED BY <1>1, <1>2, <1>3, <1>4, <2>1 DEF Control, Others, HasEntry
<1>15. Counts'
  BY <1>1, <1>2, <1>3, <1>4, <1>12, CountsFrame DEF Others
<1>16. Locks'
  <2> SUFFICES ASSUME NEW f \in Entries, NEW q \in Callers
               PROVE  icache'[f].lock = q <=> Holds(q)' /\ ip'[q] = f
    BY DEF Locks
  <2>1. Holds(p)' /\ ~Holds(p) /\ ip[p] = e
    BY <1>4 DEF Holds, e
  <2>2. q # p => (Holds(q)' <=> Holds(q))
    BY <1>3 DEF Holds, Others
  <2>3. icache[f].lock = q <=> Holds(q) /\ ip[q] = f
    BY <1>1 DEF Locks
  <2> QED BY <1>2, <1>4, <1>12, <2>1, <2>2, <2>3, InodeSizes
<1>17. \A q \in Callers : (HasEntry(q)' <=> HasEntry(q)) /\ (HasEntry(q) => ip[q] \in Entries /\ Inum(q)' = Inum(q))
  BY <1>1, <1>2, <1>3, <1>4, <1>12 DEF Others, HasEntry, Control, Inum
<1>18. \A q \in Callers : Frees(q)' <=> Frees(q)
  BY <1>3, <1>4 DEF Others, Frees
<1>19. Cached'
  <2>1. ASSUME NEW f \in Entries, icache'[f].ref > 0, icache'[f].valid,
               \A q \in Callers : Frees(q)' => ip'[q] # f
        PROVE  icache'[f].d = dinode'[icache'[f].inum] /\ icache'[f].d.type = 1
    <3>1. CASE f = e
      BY <3>1, <1>2, <1>5, <1>8, <1>12
    <3>2. CASE f # e
      BY <3>2, <2>1, <1>1, <1>2, <1>12, <1>18 DEF Cached
    <3> QED BY <3>1, <3>2
  <2>2. ASSUME NEW q \in Callers, Knows(q)' PROVE icache'[ip'[q]].valid
    <3>1. CASE ip[q] = e
      BY <3>1, <1>2, <1>12
    <3>2. CASE ip[q] # e
      <4>1. Knows(q) /\ HasEntry(q)
        BY <3>2, <2>2, <1>3, <1>17 DEF Others, Knows, HasEntry, e
      <4> QED BY <3>2, <4>1, <1>1, <1>2, <1>12, <1>17 DEF Cached
    <3> QED BY <3>1, <3>2
  <2> QED BY <2>1, <2>2 DEF Cached
<1>20. Kept'
  <2>1. \A q \in Callers : Needs(q)' => Needs(q) /\ HasEntry(q)
    BY <1>3, <1>4 DEF Others, Needs, HasEntry
  <2>2. \A q \in Callers : (ipc'[q] = "trunc" => ipc[q] = "trunc" /\ HasEntry(q))
                           /\ (ipc'[q] = "freed" => ipc[q] = "freed" /\ HasEntry(q) /\ ip[q] # e)
    BY <1>3, <1>4, <1>7 DEF Others, HasEntry, Frees
  <2> QED BY <1>1, <1>2, <1>12, <1>17, <2>1, <2>2 DEF Kept
<1>21. Alone'
  <2> SUFFICES ASSUME NEW q \in Callers, NEW r \in Callers, q # r, HasEntry(r)', ip'[r] = ip'[q]
               PROVE  /\ ipc'[q] # "trunc"
                      /\ ipc'[q] = "freed" => ipc'[r] = "ilock" /\ iop'[r] = "create"
    BY DEF Alone
  <2>1. HasEntry(r) /\ ip[r] = ip[q]
    BY <1>2, <1>17
  <2>2. CASE q = p
    BY <2>2, <1>4
  <2>3. CASE q # p /\ r = p
    BY <2>1, <2>3, <1>3, <1>7 DEF Others, Frees, e
  <2>4. CASE q # p /\ r # p
    BY <2>1, <2>4, <1>1, <1>3 DEF Alone, Others
  <2> QED BY <2>2, <2>3, <2>4
<1>22. Links'
  <2>1. \A q \in Callers : (Unlinking(q)' => Unlinking(q) /\ HasEntry(q))
                           /\ (ipc'[q] = "unlinked" => ipc[q] = "unlinked" /\ HasEntry(q))
    BY <1>2, <1>3, <1>4 DEF Others, Unlinking, HasEntry
  <2> QED BY <1>1, <1>2, <1>17, <2>1 DEF Links
<1>23. Creation'
  <2>1. Making(p)' => Making(p) /\ Made(p)' = Made(p)
    BY <1>2, <1>4, <1>17 DEF Making, Made, HasEntry
  <2> QED BY <1>2, <1>3, <1>4, <1>12, <1>17, <2>1, CreationFrame
<1>24. BlocksOwned'
  <2>1. \A q \in Callers : ipc[q] = "trunc" => HasEntry(q) /\ ip[q] # e
    BY <1>7 DEF HasEntry, Frees
  <2>2. \A q \in Callers : ipc[q] = "trunc" =>
          Inum(q)' = Inum(q) /\ icache'[ip'[q]].d.addrs = icache[ip[q]].d.addrs
    BY <2>1, <1>2, <1>12, <1>17
  <2>3. \A q \in Callers : ipc'[q] = "trunc" <=> ipc[q] = "trunc"
    BY <1>3, <1>4 DEF Others
  <2> QED BY <1>1, <1>2, <2>2, <2>3, BlocksFrame
<1> QED BY <1>13, <1>14, <1>15, <1>16, <1>19, <1>20, <1>21, <1>22, <1>23, <1>24 DEF InodeInv
-----------------------------------------------------------------------------
(* The steps of the holder of an inode's lock.                             *)

LEMMA OneHolder ==
  ASSUME InodeInv, NEW p \in Callers, NEW q \in Callers, Holds(p), Holds(q), Inum(p) = Inum(q)
  PROVE  p = q
<1>1. HasEntry(p) /\ HasEntry(q)
  BY DEF Holds, HasEntry
<1>2. ip[p] = ip[q] /\ ip[p] \in Entries
  BY <1>1, SameEntry, InUse
<1>3. Locks
  BY DEF InodeInv
<1> QED BY <1>2, <1>3 DEF Locks

\* A holder that does not free the inode sees what is on the disk.
LEMMA HolderSees ==
  ASSUME InodeInv, NEW p \in Callers, ipc[p] \in {"create", "unlink", "unlinked", "use"}
  PROVE  /\ icache[ip[p]].d = dinode[Inum(p)] /\ dinode[Inum(p)].type = 1
         /\ icache[ip[p]].valid
<1>1. Cached /\ Locks
  BY DEF InodeInv
<1>2. ip[p] \in Entries /\ icache[ip[p]].ref > 0
  BY InUse DEF HasEntry
<1>3. icache[ip[p]].valid
  BY <1>1 DEF Cached, Knows
<1>4. icache[ip[p]].lock = p
  BY <1>1, <1>2 DEF Locks, Holds
<1>5. \A q \in Callers : Frees(q) => ip[q] # ip[p]
  <2> SUFFICES ASSUME NEW q \in Callers, Frees(q), ip[q] = ip[p] PROVE FALSE
    OBVIOUS
  <2>1. icache[ip[p]].lock = q
    BY <1>1, <1>2 DEF Locks, Holds, Frees
  <2> QED BY <1>4, <2>1 DEF Frees
<1> QED BY <1>1, <1>2, <1>3, <1>5 DEF Cached, Inum

\* Inode i and entry e, of the holder p, become d.
Updated(p, d) ==
  /\ \A f \in Entries :
       /\ icache'[f].ref = icache[f].ref /\ icache'[f].inum = icache[f].inum
       /\ icache'[f].valid = icache[f].valid
       /\ f # ip[p] => icache'[f] = icache[f]
  /\ icache'[ip[p]].d = d
  /\ \A j \in Inums : dinode'[j] = IF j = Inum(p) THEN d ELSE dinode[j]

LEMMA UpdateFrame ==
  ASSUME InodeInv, NEW p \in Callers, NEW d \in Dinodes, d.type = 1, Others(p), ip' = ip,
         ipc[p] \in {"create", "unlinked", "use"}, ipc'[p] \in {"put", "use"}, Updated(p, d)
  PROVE  /\ Counts' /\ Cached' /\ Kept' /\ Alone'
         /\ \A q \in Callers : (HasEntry(q)' <=> HasEntry(q))
                               /\ (HasEntry(q) => ip[q] \in Entries /\ Inum(q)' = Inum(q))
         /\ \A q \in Callers : q # p /\ Holds(q) => Inum(q) # Inum(p) /\ ip[q] # ip[p]
<1>1. /\ InodeTypes /\ Control /\ Counts /\ Locks /\ Cached /\ Kept /\ Alone /\ Links
      /\ Creation /\ BlocksOwned
  BY DEF InodeInv
<1> DEFINE e == ip[p]
           i == Inum(p)
<1>2. ip' = ip
  OBVIOUS
<1>3. Others(p)
  OBVIOUS
<1>4. ipc[p] \in {"create", "unlinked", "use"} /\ ipc'[p] \in {"put", "use"}
  OBVIOUS
<1>5. Holds(p) /\ HasEntry(p)
  BY <1>4 DEF Holds, HasEntry
<1>6. e \in Entries /\ i \in Inums /\ i # 0 /\ icache[e].inum = i /\ icache[e].ref > 0
  BY <1>5, InUse DEF Inum
<1>10. d \in Dinodes /\ d.type = 1
  OBVIOUS
<1>12. /\ \A f \in Entries :
            /\ icache'[f].ref = icache[f].ref /\ icache'[f].inum = icache[f].inum
            /\ icache'[f].valid = icache[f].valid
            /\ f # e => icache'[f] = icache[f]
       /\ icache'[e].d = d
       /\ \A j \in Inums : dinode'[j] = IF j = i THEN d ELSE dinode[j]
  BY DEF Updated
<1>13. \A q \in Callers : (HasEntry(q)' <=> HasEntry(q)) /\ (HasEntry(q) => ip[q] \in Entries /\ Inum(q)' = Inum(q))
  BY <1>1, <1>2, <1>3, <1>4, <1>12 DEF Others, HasEntry, Control, Inum
<1>14. \A q \in Callers : q # p /\ Holds(q) => Inum(q) # i /\ ip[q] # e
  BY <1>5, OneHolder DEF Inum
<1> HIDE DEF e, i
<1>17. Counts'
  BY <1>1, <1>2, <1>3, <1>4, <1>12, CountsFrame DEF Others
<1>19. \A q \in Callers : Frees(q)' <=> Frees(q)
  BY <1>3, <1>4 DEF Others, Frees
<1>20. Cached'
  <2>1. ASSUME NEW f \in Entries, icache'[f].ref > 0, icache'[f].valid,
               \A q \in Callers : Frees(q)' => ip'[q] # f
        PROVE  icache'[f].d = dinode'[icache'[f].inum] /\ icache'[f].d.type = 1
    <3>1. CASE f = e
      BY <3>1, <1>6, <1>10, <1>12
    <3>2. CASE f # e
      <4>1. icache[f].inum # i /\ icache[f].inum \in Inums
        BY <3>2, <2>1, <1>1, <1>6, <1>12 DEF Counts
      <4>2. icache[f].d = dinode[icache[f].inum] /\ icache[f].d.type = 1
        BY <3>2, <2>1, <1>1, <1>2, <1>12, <1>19 DEF Cached
      <4> QED BY <3>2, <4>1, <4>2, <1>12
    <3> QED BY <3>1, <3>2
  <2>2. ASSUME NEW q \in Callers, Knows(q)' PROVE icache'[ip'[q]].valid
    <3>1. Knows(q) /\ HasEntry(q)
      BY <2>2, <1>3, <1>4 DEF Others, Knows, HasEntry
    <3> QED BY <3>1, <1>1, <1>2, <1>12, <1>13 DEF Cached
  <2> QED BY <2>1, <2>2 DEF Cached
<1>21. Kept'
  <2>0. \A q \in Callers : (HasEntry(q) => Inum(q) \in Inums)
    BY InUse
  <2>1. \A q \in Callers : Needs(q)' => Needs(q) /\ HasEntry(q)
    BY <1>3, <1>4 DEF Others, Needs, HasEntry
  <2>2. \A q \in Callers : ipc'[q] \in {"trunc", "freed"} =>
          ipc'[q] = ipc[q] /\ HasEntry(q) /\ Inum(q) # i /\ ip[q] # e
    BY <1>3, <1>4, <1>14 DEF Others, HasEntry, Holds
  <2>3. \A j \in Inums : dinode'[j].type = 0 => dinode'[j] = FreeInode
    BY <1>1, <1>10, <1>12 DEF Kept
  <2>4. \A q \in Callers : Needs(q)' => dinode'[Inum(q)'].type = 1
    BY <1>1, <1>10, <1>12, <1>13, <2>0, <2>1 DEF Kept
  <2>5. \A q \in Callers : ipc'[q] = "trunc" => dinode'[Inum(q)'].nlink = 0
    BY <1>1, <1>12, <1>13, <2>0, <2>2 DEF Kept
  <2>6. ASSUME NEW q \in Callers, ipc'[q] = "freed"
        PROVE  /\ icache'[ip'[q]].d = FreeInode
               /\ dinode'[Inum(q)'].nlink = 0 /\ dinode'[Inum(q)'].addrs = NoAddrs
    <3>1. ipc[q] = "freed" /\ HasEntry(q) /\ Inum(q) # i /\ ip[q] # e /\ Inum(q) \in Inums
      BY <2>0, <2>2, <2>6
    <3>2. icache'[ip'[q]] = icache[ip[q]] /\ Inum(q)' = Inum(q) /\ dinode'[Inum(q)] = dinode[Inum(q)]
      BY <3>1, <1>2, <1>12, <1>13
    <3> QED BY <3>1, <3>2, <1>1 DEF Kept
  <2> QED BY <2>3, <2>4, <2>5, <2>6 DEF Kept
<1>22. Alone'
  <2> SUFFICES ASSUME NEW q \in Callers, NEW r \in Callers, q # r, HasEntry(r)', ip'[r] = ip'[q]
               PROVE  /\ ipc'[q] # "trunc"
                      /\ ipc'[q] = "freed" => ipc'[r] = "ilock" /\ iop'[r] = "create"
    BY DEF Alone
  <2>1. HasEntry(r) /\ ip[r] = ip[q]
    BY <1>2, <1>13
  <2>2. CASE q = p
    BY <2>2, <1>4
  <2>3. CASE q # p /\ r = p
    BY <2>1, <2>3, <1>3, <1>14 DEF Others, Holds, e
  <2>4. CASE q # p /\ r # p
    BY <2>1, <2>4, <1>1, <1>3 DEF Alone, Others
  <2> QED BY <2>2, <2>3, <2>4
<1> QED BY <1>13, <1>14, <1>17, <1>20, <1>21, <1>22 DEF e, i

LEMMA CreationUpdate ==
  ASSUME InodeInv, NEW p \in Callers, NEW d \in Dinodes, d.type = 1, Others(p), ip' = ip, dir' = dir,
         ipc[p] \in {"unlinked", "use"}, ipc'[p] \in {"put", "use"}, Updated(p, d)
  PROVE  Creation'
<1>1. Control /\ Creation
  BY DEF InodeInv
<1> DEFINE i == Inum(p)
<1>2. \A q \in Callers : (HasEntry(q)' <=> HasEntry(q))
                         /\ (HasEntry(q) => ip[q] \in Entries /\ Inum(q)' = Inum(q))
  BY UpdateFrame
<1>3. \A j \in Inums : j # i => dinode'[j] = dinode[j]
  BY DEF Updated
<1>4. HasEntry(p)
  BY DEF HasEntry
<1> SUFFICES ASSUME NEW q \in Callers, Making(q)'
             PROVE  /\ dir'[name'[q]] = 0 /\ dinode'[Made(q)'] = Fresh
                    /\ \A r \in Callers : r # q /\ HasEntry(r)' /\ Inum(r)' = Made(q)' =>
                         ipc'[r] \in {"freed", "unput", "deref"}
  BY DEF Creation
<1>5. q # p /\ Making(q) /\ Made(q)' = Made(q) /\ name'[q] = name[q]
  BY <1>2 DEF Others, Making, Made, HasEntry
<1>6. Made(q) # i
  BY <1>1, <1>4, <1>5 DEF Creation
<1>7. Made(q) \in Inums
  <2>1. ipc[q] = "ialloc" \/ HasEntry(q)
    BY <1>5 DEF Making, HasEntry
  <2> QED BY <2>1, <1>1, InUse DEF Made, Control, HasEntry
<1>8. dir'[name'[q]] = 0 /\ dinode'[Made(q)'] = Fresh
  BY <1>1, <1>3, <1>5, <1>6, <1>7 DEF Creation
<1>9. ASSUME NEW r \in Callers, r # q, HasEntry(r)', Inum(r)' = Made(q)'
      PROVE  ipc'[r] \in {"freed", "unput", "deref"}
  <2>1. HasEntry(r) /\ Inum(r) = Made(q)
    BY <1>2, <1>5, <1>9
  <2>2. ipc[r] \in {"freed", "unput", "deref"}
    BY <2>1, <1>1, <1>5, <1>9 DEF Creation
  <2> QED BY <2>2 DEF Others
<1> QED BY <1>8, <1>9

\* unlink() takes the link, create() gives it; the inode is written and, by
\* unlink(), unlocked.
LEMMA UnlinkedKeeps ==
  ASSUME InodeInv, NEW p \in Callers, unlinked(p)
  PROVE  InodeInv'
<1>1. /\ InodeTypes /\ Control /\ Counts /\ Locks /\ Cached /\ Kept /\ Alone /\ Links
      /\ Creation /\ BlocksOwned
  BY DEF InodeInv
<1> DEFINE e == ip[p]
           i == Inum(p)
           d == [dinode[i] EXCEPT !.nlink = 0]
<1>2. UNCHANGED <<bitmap, indirect, dir, dlock, ip, panic>>
  BY DEF unlinked
<1>3. Others(p)
  BY <1>1 DEF Others, InodeTypes, unlinked, Goto, Over
<1>4. ipc[p] = "unlinked" /\ ipc'[p] = "put"
  BY <1>1 DEF InodeTypes, unlinked, Goto
<1>5. Holds(p) /\ HasEntry(p)
  BY <1>4 DEF Holds, HasEntry
<1>6. e \in Entries /\ i \in Inums /\ i # 0 /\ icache[e].inum = i /\ icache[e].ref > 0
  BY <1>5, InUse DEF Inum
<1>7. icache[e].d = dinode[i] /\ dinode[i].type = 1 /\ icache[e].valid
  BY <1>4, HolderSees
<1>8. dinode[i].nlink = 1 /\ \A n \in Names : dir[n] # i
  BY <1>1, <1>4 DEF Links
<1>9. icache[e] \in CacheEntries /\ icache \in [Entries -> CacheEntries] /\ dinode \in [Inums -> Dinodes]
  BY <1>1, <1>6, EntryTypes DEF InodeTypes
<1>10. d \in Dinodes /\ d.type = 1 /\ d.nlink = 0 /\ d.addrs = dinode[i].addrs
  BY <1>6, <1>7, <1>9 DEF Dinodes
<1>11. /\ icache' = [icache EXCEPT ![e].d = d, ![e].lock = Nobody]
       /\ dinode' = [dinode EXCEPT ![i] = d]
  <2>1. [icache[e].d EXCEPT !.nlink = @ - 1] = d
    BY <1>7, <1>8, <1>9, <1>6 DEF Dinodes
  <2> QED BY <2>1, <1>6 DEF unlinked
<1> HIDE DEF d
<1>12. /\ icache' \in [Entries -> CacheEntries]
       /\ \A f \in Entries :
            /\ icache'[f].ref = icache[f].ref /\ icache'[f].inum = icache[f].inum
            /\ icache'[f].valid = icache[f].valid
            /\ f # e => icache'[f] = icache[f]
       /\ icache'[e].lock = Nobody /\ icache'[e].d = d
       /\ dinode' \in [Inums -> Dinodes]
       /\ \A j \in Inums : dinode'[j] = IF j = i THEN d ELSE dinode[j]
  BY <1>11, <1>6, <1>9, <1>10 DEF CacheEntries
<1>13. Updated(p, d)
  BY <1>12 DEF Updated
<1>14. /\ Counts' /\ Cached' /\ Kept' /\ Alone'
       /\ \A q \in Callers : (HasEntry(q)' <=> HasEntry(q))
                             /\ (HasEntry(q) => ip[q] \in Entries /\ Inum(q)' = Inum(q))
       /\ \A q \in Callers : q # p /\ Holds(q) => Inum(q) # i /\ ip[q] # e
  BY <1>2, <1>3, <1>4, <1>10, <1>13, UpdateFrame
<1> HIDE DEF e, i
<1>15. InodeTypes'
  BY <1>1, <1>2, <1>12, InodeSizes DEF InodeTypes, unlinked, Goto, Over, Stages
<1>16. Control'
  <2>1. \A q \in Callers : InDir(q)' <=> InDir(q)
    BY <1>3, <1>4 DEF Others, InDir
  <2> QED BY <1>1, <1>2, <1>3, <1>4, <2>1 DEF Control, Others, HasEntry
<1>18. Locks'
  <2> SUFFICES ASSUME NEW f \in Entries, NEW q \in Callers
               PROVE  icache'[f].lock = q <=> Holds(q)' /\ ip'[q] = f
    BY DEF Locks
  <2>1. ~Holds(p)' /\ Holds(p) /\ ip[p] = e
    BY <1>4 DEF Holds, e
  <2>2. q # p => (Holds(q)' <=> Holds(q))
    BY <1>3 DEF Holds, Others
  <2>3. icache[f].lock = q <=> Holds(q) /\ ip[q] = f
    BY <1>1 DEF Locks
  <2> QED BY <1>2, <1>12, <1>14, <2>1, <2>2, <2>3, InodeSizes
<1>23. Links'
  <2>1. ASSUME NEW q \in Callers, Unlinking(q)' PROVE dir'[name'[q]] = Inum(q)'
    <3>1. Unlinking(q) /\ HasEntry(q) /\ name'[q] = name[q]
      BY <2>1, <1>3, <1>4 DEF Others, Unlinking, HasEntry
    <3> QED BY <3>1, <1>1, <1>2, <1>14 DEF Links
  <2>2. ASSUME NEW q \in Callers, ipc'[q] = "unlinked"
        PROVE  dinode'[Inum(q)'].nlink = 1 /\ \A n \in Names : dir'[n] # Inum(q)'
    <3>1. ipc[q] = "unlinked" /\ HasEntry(q) /\ Inum(q) # i
      BY <2>2, <1>3, <1>4, <1>14 DEF Others, HasEntry, Holds
    <3>2. Inum(q) \in Inums
      BY <3>1, InUse
    <3> QED BY <3>1, <3>2, <1>1, <1>2, <1>12, <1>14 DEF Links
  <2>3. \A n \in Names : dir[n] # 0 => dir[n] \in Inums
    BY <1>1 DEF InodeTypes
  <2>4. \A n \in Names : dir'[n] # 0 => dinode'[dir'[n]].type = 1 /\ dinode'[dir'[n]].nlink = 1
    BY <1>1, <1>2, <1>8, <1>12, <2>3 DEF Links
  <2> QED BY <1>1, <1>2, <2>1, <2>2, <2>4 DEF Links
<1>24. Creation'
  BY <1>2, <1>3, <1>4, <1>10, <1>13, CreationUpdate
<1>25. BlocksOwned'
  <2>1. \A q \in Callers : ipc[q] = "trunc" => HasEntry(q) /\ ip[q] # e
    BY <1>4, <1>14 DEF HasEntry, Holds
  <2>2. \A q \in Callers : ipc[q] = "trunc" =>
          Inum(q)' = Inum(q) /\ icache'[ip'[q]].d.addrs = icache[ip[q]].d.addrs
    BY <2>1, <1>2, <1>12, <1>14
  <2>3. \A q \in Callers : ipc'[q] = "trunc" <=> ipc[q] = "trunc"
    BY <1>3, <1>4 DEF Others
  <2>4. \A j \in Inums : dinode'[j].addrs = dinode[j].addrs
    BY <1>10, <1>12
  <2> QED BY <1>1, <1>2, <2>2, <2>3, <2>4, BlocksFrame
<1> QED BY <1>14, <1>15, <1>16, <1>18, <1>23, <1>24, <1>25 DEF InodeInv

LEMMA CreateKeeps ==
  ASSUME InodeInv, NEW p \in Callers, create(p)
  PROVE  InodeInv'
<1>1. /\ InodeTypes /\ Control /\ Counts /\ Locks /\ Cached /\ Kept /\ Alone /\ Links
      /\ Creation /\ BlocksOwned
  BY DEF InodeInv
<1> DEFINE e == ip[p]
           i == Inum(p)
           d == [Fresh EXCEPT !.nlink = 1]
<1>2. UNCHANGED <<bitmap, indirect, ip, panic>> /\ dlock' = Nobody
  BY DEF create
<1>3. Others(p)
  BY <1>1 DEF Others, InodeTypes, create, Goto, Over
<1>4. ipc[p] = "create" /\ ipc'[p] = "use"
  BY <1>1 DEF InodeTypes, create, Goto
<1>5. Holds(p) /\ HasEntry(p) /\ Making(p) /\ InDir(p) /\ Made(p) = i
  BY <1>4 DEF Holds, HasEntry, Making, Made, InDir
<1>6. e \in Entries /\ i \in Inums /\ i # 0 /\ icache[e].inum = i /\ icache[e].ref > 0
  BY <1>5, InUse DEF Inum
<1>7. icache[e].d = dinode[i] /\ dinode[i] = Fresh /\ dir[name[p]] = 0
  BY <1>1, <1>4, <1>5, HolderSees DEF Creation
<1>8. \A q \in Callers : q # p => ~InDir(q)
  BY <1>1, <1>5 DEF Control
<1>9. icache[e] \in CacheEntries /\ icache \in [Entries -> CacheEntries] /\ dinode \in [Inums -> Dinodes]
  BY <1>1, <1>6, EntryTypes DEF InodeTypes
<1>10. d \in Dinodes /\ d.type = 1 /\ d.nlink = 1 /\ d.addrs = NoAddrs
  BY FreeTypes DEF Dinodes, Fresh, FreeInode
<1>11. icache' = [icache EXCEPT ![e].d = d] /\ dinode' = [dinode EXCEPT ![i] = d]
       /\ dir' = [dir EXCEPT ![name[p]] = i]
  BY <1>6, <1>7 DEF create, iupdate
<1> HIDE DEF d
<1>12. /\ icache' \in [Entries -> CacheEntries]
       /\ \A f \in Entries :
            /\ icache'[f].ref = icache[f].ref /\ icache'[f].inum = icache[f].inum
            /\ icache'[f].valid = icache[f].valid /\ icache'[f].lock = icache[f].lock
            /\ f # e => icache'[f] = icache[f]
       /\ icache'[e].d = d
       /\ dinode' \in [Inums -> Dinodes]
       /\ \A j \in Inums : dinode'[j] = IF j = i THEN d ELSE dinode[j]
  BY <1>11, <1>6, <1>9, <1>10 DEF CacheEntries
<1>13. Updated(p, d)
  BY <1>12 DEF Updated
<1>14. /\ Counts' /\ Cached' /\ Kept' /\ Alone'
       /\ \A q \in Callers : (HasEntry(q)' <=> HasEntry(q))
                             /\ (HasEntry(q) => ip[q] \in Entries /\ Inum(q)' = Inum(q))
       /\ \A q \in Callers : q # p /\ Holds(q) => Inum(q) # i /\ ip[q] # e
  BY <1>2, <1>3, <1>4, <1>10, <1>13, UpdateFrame
<1>15. name[p] \in Names /\ dir' \in [Names -> Inums \cup {0}]
       /\ \A n \in Names : dir'[n] = IF n = name[p] THEN i ELSE dir[n]
  BY <1>1, <1>6, <1>11 DEF InodeTypes
<1> HIDE DEF e, i
<1>16. InodeTypes'
  <2>1. ipc' \in [Callers -> Stages]
    BY <1>1 DEF InodeTypes, create, Goto, Stages
  <2>2. iop' \in [Callers -> {"", "create", "open", "unlink", "use"}] /\ name' \in [Callers -> Names]
    BY <1>1, InodeSizes DEF InodeTypes, create, Over
  <2> QED BY <1>1, <1>2, <1>12, <1>15, <2>1, <2>2 DEF InodeTypes
<1>17. Control'
  <2>1. \A q \in Callers : ~InDir(q)'
    BY <1>3, <1>4, <1>8 DEF Others, InDir
  <2> QED BY <1>1, <1>2, <1>3, <1>4, <2>1, InodeSizes DEF Control, Others, HasEntry
<1>18. Locks'
  <2>1. \A q \in Callers : Holds(q)' <=> Holds(q)
    BY <1>3, <1>4 DEF Holds, Others
  <2> QED BY <1>1, <1>2, <1>12, <2>1 DEF Locks
<1>19. \A n \in Names : dir[n] # i
  BY <1>1, <1>6, <1>7, FreeTypes DEF Links
<1>20. Links'
  <2>1. \A q \in Callers : ~Unlinking(q)'
    BY <1>3, <1>4, <1>8 DEF Others, Unlinking, InDir
  <2>2. ASSUME NEW q \in Callers, ipc'[q] = "unlinked"
        PROVE  dinode'[Inum(q)'].nlink = 1 /\ \A n \in Names : dir'[n] # Inum(q)'
    <3>1. ipc[q] = "unlinked" /\ HasEntry(q) /\ Inum(q) # i
      BY <2>2, <1>3, <1>4, <1>14 DEF Others, HasEntry, Holds
    <3>2. Inum(q) \in Inums
      BY <3>1, InUse
    <3> QED BY <3>1, <3>2, <1>1, <1>12, <1>14, <1>15 DEF Links
  <2>3. \A n \in Names : dir[n] # 0 => dir[n] \in Inums
    BY <1>1 DEF InodeTypes
  <2>4. ASSUME NEW n \in Names, dir'[n] # 0
        PROVE  dinode'[dir'[n]].type = 1 /\ dinode'[dir'[n]].nlink = 1
    BY <2>3, <2>4, <1>1, <1>6, <1>10, <1>12, <1>15 DEF Links
  <2>5. ASSUME NEW n \in Names, NEW m \in Names, dir'[n] # 0, dir'[n] = dir'[m] PROVE n = m
    BY <2>5, <1>1, <1>15, <1>19 DEF Links
  <2> QED BY <2>1, <2>2, <2>4, <2>5 DEF Links
<1>21. Creation'
  <2>1. \A q \in Callers : ~Making(q)'
    BY <1>3, <1>4, <1>8 DEF Others, Making, InDir
  <2> QED BY <2>1 DEF Creation
<1>22. BlocksOwned'
  <2>1. \A q \in Callers : ipc[q] = "trunc" => HasEntry(q) /\ ip[q] # e
    BY <1>4, <1>14 DEF HasEntry, Holds
  <2>2. \A q \in Callers : ipc[q] = "trunc" =>
          Inum(q)' = Inum(q) /\ icache'[ip'[q]].d.addrs = icache[ip[q]].d.addrs
    BY <2>1, <1>2, <1>12, <1>14
  <2>3. \A q \in Callers : ipc'[q] = "trunc" <=> ipc[q] = "trunc"
    BY <1>3, <1>4 DEF Others
  <2>4. \A j \in Inums : dinode'[j].addrs = dinode[j].addrs
    BY <1>7, <1>10, <1>12, FreeTypes
  <2> QED BY <1>1, <1>2, <2>2, <2>3, <2>4, BlocksFrame
<1> QED BY <1>14, <1>16, <1>17, <1>18, <1>20, <1>21, <1>22 DEF InodeInv
-----------------------------------------------------------------------------
(* iput().                                                                 *)

\* A count of one: nobody else refers to the entry.
LEMMA OnlyUser ==
  ASSUME InodeInv, NEW p \in Callers, HasEntry(p), icache[ip[p]].ref = 1,
         NEW q \in Callers, q # p, HasEntry(q)
  PROVE  ip[q] # ip[p]
<1>1. Control /\ Counts /\ ip[p] \in Entries
  BY InUse DEF InodeInv
<1>2. Cardinality(Users(ip[p])) = 1
  BY <1>1 DEF Counts
<1>3. PICK r : Users(ip[p]) = {r}
  BY <1>2, UsersFinite, FS_Singleton
<1>4. p \in Users(ip[p])
  BY <1>1, UsersAre
<1>5. ip[q] = ip[p] => q \in Users(ip[p])
  BY <1>1, UsersAre
<1> QED BY <1>3, <1>4, <1>5

\* The last reference: the blocks are the entry's now.
LEMMA IputKeeps ==
  ASSUME InodeInv, NEW p \in Callers, iput(p), ipc'[p] = "trunc"
  PROVE  InodeInv'
<1>1. /\ InodeTypes /\ Control /\ Counts /\ Locks /\ Cached /\ Kept /\ Alone /\ Links
      /\ Creation /\ BlocksOwned
  BY DEF InodeInv
<1> DEFINE e == ip[p]
           i == Inum(p)
<1>2. UNCHANGED <<dinode, bitmap, indirect, dir, dlock, iop, name, ip, panic>>
  BY DEF iput, idisk
<1>3. Others(p)
  BY <1>1 DEF Others, InodeTypes, iput, Goto
<1>4. ipc[p] = "put" /\ ipc'[p] = "trunc" /\ icache[e].lock = Nobody
  BY <1>1 DEF InodeTypes, iput, Goto
<1>5. icache[e].valid /\ icache[e].d.nlink = 0 /\ icache[e].ref = 1
  BY <1>1, <1>4 DEF InodeTypes, iput, Goto
<1>6. HasEntry(p) /\ e \in Entries /\ i \in Inums /\ i # 0 /\ icache[e].inum = i /\ icache[e].ref > 0
  BY <1>4, InUse DEF HasEntry, Inum
<1>7. \A q \in Callers : Holds(q) => ip[q] # e
  <2> SUFFICES ASSUME NEW q \in Callers, Holds(q), ip[q] = e PROVE FALSE
    OBVIOUS
  <2>1. icache[e].lock = q
    BY <1>1, <1>6 DEF Locks
  <2> QED BY <1>4, <2>1, InodeSizes
<1>8. icache[e].d = dinode[i]
  <2>1. \A q \in Callers : Frees(q) => ip[q] # e
    BY <1>7 DEF Frees, Holds
  <2> QED BY <1>1, <1>5, <1>6, <2>1 DEF Cached
<1>9. icache[e] \in CacheEntries /\ icache \in [Entries -> CacheEntries]
  BY <1>1, <1>6, EntryTypes DEF InodeTypes
<1>10. icache' = [icache EXCEPT ![e].lock = p]
  BY DEF iput
<1>11. /\ icache' \in [Entries -> CacheEntries]
       /\ \A f \in Entries :
            /\ icache'[f].ref = icache[f].ref /\ icache'[f].inum = icache[f].inum
            /\ icache'[f].valid = icache[f].valid /\ icache'[f].d = icache[f].d
            /\ icache'[f].lock = IF f = e THEN p ELSE icache[f].lock
  BY <1>6, <1>9, <1>10 DEF CacheEntries
<1>12. \A q \in Callers : q # p /\ HasEntry(q) => ip[q] # e
  BY <1>5, <1>6, OnlyUser
<1>13. \A q \in Callers : (HasEntry(q)' <=> HasEntry(q)) /\ (HasEntry(q) => ip[q] \in Entries /\ Inum(q)' = Inum(q))
  BY <1>1, <1>2, <1>3, <1>4, <1>11 DEF Others, HasEntry, Control, Inum
<1> HIDE DEF e, i
<1>14. InodeTypes'
  BY <1>1, <1>2, <1>11 DEF InodeTypes, iput, Goto, Stages
<1>15. Control'
  <2>1. \A q \in Callers : InDir(q)' <=> InDir(q)
    BY <1>2, <1>3, <1>4 DEF Others, InDir
  <2> QED BY <1>1, <1>2, <1>3, <1>4, <2>1 DEF Control, Others, HasEntry
<1>16. Counts'
  BY <1>1, <1>2, <1>3, <1>4, <1>11, CountsFrame DEF Others
<1>17. Locks'
  <2> SUFFICES ASSUME NEW f \in Entries, NEW q \in Callers
               PROVE  icache'[f].lock = q <=> Holds(q)' /\ ip'[q] = f
    BY DEF Locks
  <2>1. Holds(p)' /\ ~Holds(p) /\ ip[p] = e
    BY <1>4 DEF Holds, e
  <2>2. q # p => (Holds(q)' <=> Holds(q))
    BY <1>3 DEF Holds, Others
  <2>3. icache[f].lock = q <=> Holds(q) /\ ip[q] = f
    BY <1>1 DEF Locks
  <2> QED BY <1>2, <1>7, <1>11, <2>1, <2>2, <2>3
<1>18. Cached'
  <2>1. \A q \in Callers : Frees(q) => Frees(q)'
    BY <1>3, <1>4 DEF Others, Frees
  <2>2. \A q \in Callers : Knows(q)' => Knows(q) /\ HasEntry(q)
    BY <1>3, <1>4 DEF Others, Knows, HasEntry
  <2> QED BY <1>1, <1>2, <1>11, <1>13, <2>1, <2>2 DEF Cached
<1>19. Kept'
  <2>1. \A q \in Callers : Needs(q)' => Needs(q) /\ HasEntry(q)
    BY <1>3, <1>4 DEF Others, Needs, HasEntry
  <2>2. \A q \in Callers : /\ ipc'[q] = "trunc" => q = p \/ (ipc[q] = "trunc" /\ HasEntry(q))
                           /\ ipc'[q] = "freed" => ipc[q] = "freed" /\ HasEntry(q)
    BY <1>3, <1>4 DEF Others, HasEntry
  <2>3. dinode'[Inum(p)'].nlink = 0
    BY <1>2, <1>5, <1>6, <1>8, <1>13 DEF i
  <2> QED BY <1>1, <1>2, <1>11, <1>13, <2>1, <2>2, <2>3 DEF Kept
<1>20. Alone'
  <2> SUFFICES ASSUME NEW q \in Callers, NEW r \in Callers, q # r, HasEntry(r)', ip'[r] = ip'[q]
               PROVE  /\ ipc'[q] # "trunc"
                      /\ ipc'[q] = "freed" => ipc'[r] = "ilock" /\ iop'[r] = "create"
    BY DEF Alone
  <2>1. HasEntry(r) /\ ip[r] = ip[q]
    BY <1>2, <1>13
  <2>2. CASE q = p
    BY <2>1, <2>2, <1>12 DEF e
  <2>3. CASE q # p /\ r = p
    <3>1. ipc[q] \notin {"trunc", "freed"}
      BY <2>1, <2>3, <1>7 DEF Holds, e
    <3> QED BY <2>3, <3>1, <1>3 DEF Others
  <2>4. CASE q # p /\ r # p
    BY <2>1, <2>4, <1>1, <1>3 DEF Alone, Others
  <2> QED BY <2>2, <2>3, <2>4
<1>21. ~Making(p)' /\ ~Unlinking(p)'
  BY <1>4 DEF Making, Unlinking
<1>22. Links'
  BY <1>2, <1>3, <1>4, <1>11, <1>21, LinksFrame
<1>23. Creation'
  BY <1>2, <1>3, <1>4, <1>11, <1>13, <1>21, CreationFrame
<1>24. BlocksOwned'
  <2>1. PICK A \in [Inums -> Addresses] : IsAddrs(A) /\ OneOwner(A, indirect, bitmap)
    BY <1>1 DEF BlocksOwned
  <2>2. \A q \in Callers : ipc[q] = "trunc" => HasEntry(q) /\ q # p
    BY <1>4 DEF HasEntry
  <2>3. \A q \in Callers : ipc[q] = "trunc" => Inum(q) # i
    BY <2>2, <1>6, <1>12, SameEntry DEF e, i
  <2>4. A[i] = dinode[i].addrs
    BY <2>1, <2>3, <1>6 DEF IsAddrs
  <2>5. Inum(p)' = i /\ icache'[ip'[p]].d.addrs = dinode[i].addrs /\ ip[p] = e
    BY <1>2, <1>6, <1>8, <1>11, <1>13 DEF e, i
  <2>6. \A q \in Callers : ipc'[q] = "trunc" <=> ipc[q] = "trunc" \/ q = p
    BY <1>3, <1>4 DEF Others
  <2>7. ASSUME NEW j \in Inums, \A q \in Callers : ipc'[q] = "trunc" => Inum(q)' # j
        PROVE  A[j] = dinode'[j].addrs
    <3>1. \A q \in Callers : ipc[q] = "trunc" => Inum(q) # j
      BY <2>2, <2>6, <2>7, <1>13
    <3> QED BY <3>1, <2>1, <1>2 DEF IsAddrs
  <2>8. ASSUME NEW q \in Callers, ipc'[q] = "trunc" PROVE A[Inum(q)'] = icache'[ip'[q]].d.addrs
    <3>1. CASE q = p
      BY <3>1, <2>4, <2>5
    <3>2. CASE q # p
      <4>1. ipc[q] = "trunc" /\ HasEntry(q)
        BY <3>2, <2>2, <2>6, <2>8
      <4> QED BY <4>1, <2>1, <1>2, <1>11, <1>13 DEF IsAddrs
    <3> QED BY <3>1, <3>2
  <2>9. IsAddrs(A)'
    BY <2>1, <2>7, <2>8 DEF IsAddrs
  <2>10. OneOwner(A, indirect, bitmap)'
    BY <2>1, <1>2
  <2> QED BY <2>9, <2>10 DEF BlocksOwned
<1> QED BY <1>14, <1>15, <1>16, <1>17, <1>18, <1>19, <1>20, <1>22, <1>23, <1>24 DEF InodeInv

\* What the entry of a freed inode held is forgotten.
LEMMA InvalidateKeeps ==
  ASSUME InodeInv, NEW p \in Callers, invalidate(p)
  PROVE  InodeInv'
<1>1. /\ InodeTypes /\ Control /\ Counts /\ Locks /\ Cached /\ Kept /\ Alone /\ Links
      /\ Creation /\ BlocksOwned
  BY DEF InodeInv
<1> DEFINE e == ip[p]
<1>2. UNCHANGED <<dinode, bitmap, indirect, dir, dlock, iop, name, ip, panic>>
  BY DEF invalidate, idisk
<1>3. Others(p)
  BY <1>1 DEF Others, InodeTypes, invalidate, Goto
<1>4. ipc[p] = "freed" /\ ipc'[p] = "unput"
  BY <1>1 DEF InodeTypes, invalidate, Goto
<1>6. HasEntry(p) /\ e \in Entries
  BY <1>4, InUse DEF HasEntry, Inum
<1>9. icache[e] \in CacheEntries /\ icache \in [Entries -> CacheEntries]
  BY <1>1, <1>6, EntryTypes DEF InodeTypes
<1>10. icache' = [icache EXCEPT ![e].valid = FALSE]
  BY DEF invalidate
<1>11. /\ icache' \in [Entries -> CacheEntries]
       /\ \A f \in Entries :
            /\ icache'[f].ref = icache[f].ref /\ icache'[f].inum = icache[f].inum
            /\ icache'[f].lock = icache[f].lock /\ icache'[f].d = icache[f].d
            /\ icache'[f].valid <=> f # e /\ icache[f].valid
  BY <1>6, <1>9, <1>10 DEF CacheEntries
<1>13. \A q \in Callers : (HasEntry(q)' <=> HasEntry(q)) /\ (HasEntry(q) => ip[q] \in Entries /\ Inum(q)' = Inum(q))
  BY <1>1, <1>2, <1>3, <1>4, <1>11 DEF Others, HasEntry, Control, Inum
<1> HIDE DEF e
<1>14. InodeTypes'
  BY <1>1, <1>2, <1>11 DEF InodeTypes, invalidate, Goto, Stages
<1>15. Control'
  <2>1. \A q \in Callers : InDir(q)' <=> InDir(q)
    BY <1>2, <1>3, <1>4 DEF Others, InDir
  <2> QED BY <1>1, <1>2, <1>3, <1>4, <2>1 DEF Control, Others, HasEntry
<1>16. Counts'
  BY <1>1, <1>2, <1>3, <1>4, <1>11, CountsFrame DEF Others
<1>17. Locks'
  <2>1. \A q \in Callers : Holds(q)' <=> Holds(q)
    BY <1>3, <1>4 DEF Holds, Others
  <2> QED BY <1>1, <1>2, <1>11, <2>1 DEF Locks
<1>18. Cached'
  <2>1. \A q \in Callers : (Frees(q)' => Frees(q)) /\ (q # p /\ Frees(q) => Frees(q)')
    BY <1>3, <1>4 DEF Others, Frees
  <2>2. ASSUME NEW f \in Entries, icache'[f].ref > 0, icache'[f].valid,
               \A q \in Callers : Frees(q)' => ip'[q] # f
        PROVE  icache'[f].d = dinode'[icache'[f].inum] /\ icache'[f].d.type = 1
    <3>1. f # e /\ icache[f].valid /\ icache[f].ref > 0
      BY <2>2, <1>11
    <3>2. \A q \in Callers : Frees(q) => ip[q] # f
      BY <2>1, <2>2, <3>1, <1>2 DEF e
    <3> QED BY <3>1, <3>2, <1>1, <1>2, <1>11 DEF Cached
  <2>3. \A q \in Callers : Knows(q)' => Knows(q) /\ HasEntry(q) /\ q # p
    BY <1>3, <1>4 DEF Others, Knows, HasEntry
  <2>4. \A q \in Callers : Knows(q)' => ip[q] # e
    BY <2>3, <1>1, <1>4 DEF Alone, Knows, e
  <2> QED BY <1>1, <1>2, <1>11, <1>13, <2>2, <2>3, <2>4 DEF Cached
<1>19. Kept'
  <2>1. \A q \in Callers : Needs(q)' => Needs(q) /\ HasEntry(q)
    BY <1>3, <1>4 DEF Others, Needs, HasEntry
  <2>2. \A q \in Callers : /\ ipc'[q] = "trunc" => ipc[q] = "trunc" /\ HasEntry(q)
                           /\ ipc'[q] = "freed" => ipc[q] = "freed" /\ HasEntry(q)
    BY <1>3, <1>4 DEF Others, HasEntry
  <2> QED BY <1>1, <1>2, <1>11, <1>13, <2>1, <2>2 DEF Kept
<1>20. Alone'
  <2> SUFFICES ASSUME NEW q \in Callers, NEW r \in Callers, q # r, HasEntry(r)', ip'[r] = ip'[q]
               PROVE  /\ ipc'[q] # "trunc"
                      /\ ipc'[q] = "freed" => ipc'[r] = "ilock" /\ iop'[r] = "create"
    BY DEF Alone
  <2>1. HasEntry(r) /\ ip[r] = ip[q]
    BY <1>2, <1>13
  <2>2. CASE q = p
    BY <2>2, <1>4
  <2>3. CASE q # p /\ r = p
    <3>1. ipc[q] \notin {"trunc", "freed"}
      BY <2>1, <2>3, <1>1, <1>4 DEF Alone
    <3> QED BY <2>3, <3>1, <1>3 DEF Others
  <2>4. CASE q # p /\ r # p
    BY <2>1, <2>4, <1>1, <1>3 DEF Alone, Others
  <2> QED BY <2>2, <2>3, <2>4
<1>21. ~Making(p)' /\ ~Unlinking(p)'
  BY <1>4 DEF Making, Unlinking
<1>22. Links'
  BY <1>2, <1>3, <1>4, <1>11, <1>21, LinksFrame
<1>23. Creation'
  BY <1>2, <1>3, <1>4, <1>11, <1>13, <1>21, CreationFrame
<1>24. BlocksOwned'
  <2>1. \A q \in Callers : ipc[q] = "trunc" => HasEntry(q)
    BY DEF HasEntry
  <2>2. \A q \in Callers : ipc[q] = "trunc" =>
          Inum(q)' = Inum(q) /\ icache'[ip'[q]].d.addrs = icache[ip[q]].d.addrs
    BY <2>1, <1>2, <1>11, <1>13
  <2>3. \A q \in Callers : ipc'[q] = "trunc" <=> ipc[q] = "trunc"
    BY <1>3, <1>4 DEF Others
  <2> QED BY <1>1, <1>2, <2>2, <2>3, BlocksFrame
<1> QED BY <1>14, <1>15, <1>16, <1>17, <1>18, <1>19, <1>20, <1>22, <1>23, <1>24 DEF InodeInv

\* The reference goes, and with the last one the entry.
LEMMA DerefKeeps ==
  ASSUME InodeInv, NEW p \in Callers, deref(p)
  PROVE  InodeInv'
<1>1. /\ InodeTypes /\ Control /\ Counts /\ Locks /\ Cached /\ Kept /\ Alone /\ Links
      /\ Creation /\ BlocksOwned
  BY DEF InodeInv
<1> DEFINE e == ip[p]
<1>2. UNCHANGED <<dinode, bitmap, indirect, dir, dlock, iop, name, panic>>
  BY DEF deref, idisk
<1>3. Others(p)
  BY <1>1 DEF Others, InodeTypes, deref, Goto
<1>4. ipc[p] = "deref" /\ ipc'[p] = "idle" /\ ip'[p] = 0
  BY <1>1 DEF InodeTypes, deref, Goto
<1>5. HasEntry(p) /\ e \in Entries /\ icache[e].ref > 0 /\ icache[e].ref \in Nat
  BY <1>4, InUse DEF HasEntry
<1>6. icache[e] \in CacheEntries /\ icache \in [Entries -> CacheEntries]
  BY <1>1, <1>5, EntryTypes DEF InodeTypes
<1>7. icache' = [icache EXCEPT ![e] =
                  IF icache[e].ref = 1 THEN FreeEntry ELSE [icache[e] EXCEPT !.ref = @ - 1]]
  BY DEF deref
<1>8. /\ \A f \in Entries : f # e => icache'[f] = icache[f]
      /\ icache[e].ref = 1 => icache'[e] = FreeEntry
      /\ icache[e].ref # 1 =>
           /\ icache'[e] = [icache[e] EXCEPT !.ref = icache[e].ref - 1]
           /\ icache'[e].inum = icache[e].inum
           /\ icache'[e].lock = icache[e].lock /\ icache'[e].d = icache[e].d
           /\ icache'[e].valid = icache[e].valid
      /\ icache'[e].ref = icache[e].ref - 1
      /\ icache' \in [Entries -> CacheEntries]
  <2>1. FreeEntry.ref = 0 /\ FreeEntry \in CacheEntries
    BY FreeTypes DEF FreeEntry
  <2>2. CASE icache[e].ref = 1
    BY <2>1, <2>2, <1>5, <1>6, <1>7
  <2>3. CASE icache[e].ref # 1
    <3>1. icache[e].ref - 1 \in Nat
      BY <2>3, <1>5
    <3> QED BY <2>3, <3>1, <1>5, <1>6, <1>7 DEF CacheEntries
  <2> QED BY <2>2, <2>3
<1>9. \A q \in Callers : q # p /\ HasEntry(q) /\ ip[q] = e => icache[e].ref # 1
  BY <1>5, OnlyUser
<1>10. \A q \in Callers : q # p => ip'[q] = ip[q] /\ ipc'[q] = ipc[q] /\ iop'[q] = iop[q] /\ name'[q] = name[q]
  BY <1>3 DEF Others
<1>11. \A q \in Callers : HasEntry(q)' <=> HasEntry(q) /\ q # p
  BY <1>4, <1>10 DEF HasEntry
<1>12. \A q \in Callers : q # p /\ HasEntry(q) =>
         /\ ip[q] \in Entries /\ Inum(q)' = Inum(q)
         /\ icache'[ip[q]].lock = icache[ip[q]].lock /\ icache'[ip[q]].d = icache[ip[q]].d
         /\ icache'[ip[q]].valid = icache[ip[q]].valid
  BY <1>1, <1>8, <1>9, <1>10 DEF Control, Inum
<1>13. \A f \in Entries : icache'[f].ref > 0 =>
         /\ icache[f].ref > 0 /\ icache'[f].inum = icache[f].inum
         /\ icache'[f].d = icache[f].d /\ icache'[f].valid = icache[f].valid
  BY <1>5, <1>8
<1> HIDE DEF e
<1>14. InodeTypes'
  <2>1. ip' \in [Callers -> Nat] /\ ipc' \in [Callers -> Stages]
    BY <1>1 DEF InodeTypes, deref, Goto, Stages
  <2> QED BY <1>1, <1>2, <1>8, <2>1 DEF InodeTypes
<1>15. Control'
  <2>1. \A q \in Callers : InDir(q)' <=> InDir(q)
    BY <1>2, <1>4, <1>10 DEF InDir
  <2> QED BY <1>1, <1>2, <1>4, <1>10, <2>1 DEF Control, HasEntry
<1>16. Counts'
  <2>1. \A f \in Entries : Users(f)' = IF f = e THEN Users(f) \ {p} ELSE Users(f)
    BY <1>4, <1>10, <1>5, InodeSizes DEF Users, e
  <2>2. p \in Users(e)
    BY <1>4 DEF Users, e
  <2>3. Cardinality(Users(e) \ {p}) = Cardinality(Users(e)) - 1
    BY <2>2, UsersFinite, FS_RemoveElement
  <2>4. \A f \in Entries : icache'[f].ref = Cardinality(Users(f)')
    BY <1>1, <1>5, <1>8, <2>1, <2>3 DEF Counts
  <2>5. \A f \in Entries : icache'[f].ref > 0 => icache'[f].inum \in Inums
    BY <1>1, <1>13 DEF Counts
  <2>6. \A f, g \in Entries :
          icache'[f].ref > 0 /\ icache'[g].ref > 0 /\ icache'[f].inum = icache'[g].inum => f = g
    BY <1>1, <1>13 DEF Counts
  <2> QED BY <2>4, <2>5, <2>6 DEF Counts
<1>17. Locks'
  <2> SUFFICES ASSUME NEW f \in Entries, NEW q \in Callers
               PROVE  icache'[f].lock = q <=> Holds(q)' /\ ip'[q] = f
    BY DEF Locks
  <2>1. ~Holds(p)' /\ ~Holds(p)
    BY <1>4 DEF Holds
  <2>2. q # p => (Holds(q)' <=> Holds(q))
    BY <1>10 DEF Holds
  <2>3. icache[f].lock = q <=> Holds(q) /\ ip[q] = f
    BY <1>1 DEF Locks
  <2>4. Holds(q) => HasEntry(q)
    BY DEF Holds, HasEntry
  <2>5. FreeEntry.lock = Nobody
    BY DEF FreeEntry
  <2>6. CASE f = e /\ icache[e].ref = 1
    <3>1. icache'[f].lock # q
      BY <2>5, <2>6, <1>8, InodeSizes
    <3>2. ~(Holds(q)' /\ ip'[q] = f)
      BY <2>1, <2>2, <2>4, <2>6, <1>9, <1>10
    <3> QED BY <3>1, <3>2
  <2>7. CASE ~(f = e /\ icache[e].ref = 1)
    <3>1. icache'[f].lock = icache[f].lock
      BY <2>7, <1>8
    <3> QED BY <3>1, <2>1, <2>2, <2>3, <1>10
  <2> QED BY <2>6, <2>7
<1>18. Cached'
  <2>1. \A q \in Callers : Frees(q) => q # p
    BY <1>4 DEF Frees
  <2>2. \A q \in Callers : q # p => (Frees(q)' <=> Frees(q))
    BY <1>10 DEF Frees
  <2>3. ASSUME NEW f \in Entries, icache'[f].ref > 0, icache'[f].valid,
               \A q \in Callers : Frees(q)' => ip'[q] # f
        PROVE  icache'[f].d = dinode'[icache'[f].inum] /\ icache'[f].d.type = 1
    <3>1. \A q \in Callers : Frees(q) => ip[q] # f
      BY <2>1, <2>2, <2>3, <1>10
    <3> QED BY <3>1, <2>3, <1>1, <1>2, <1>13 DEF Cached
  <2>4. \A q \in Callers : Knows(q)' => Knows(q) /\ HasEntry(q) /\ q # p
    BY <1>4, <1>10 DEF Knows, HasEntry
  <2> QED BY <1>1, <1>10, <1>12, <2>3, <2>4 DEF Cached
<1>19. Kept'
  <2>1. \A q \in Callers : Needs(q)' => Needs(q) /\ HasEntry(q) /\ q # p
    BY <1>4, <1>10 DEF Needs, HasEntry
  <2>2. \A q \in Callers : /\ ipc'[q] = "trunc" => ipc[q] = "trunc" /\ HasEntry(q) /\ q # p
                           /\ ipc'[q] = "freed" => ipc[q] = "freed" /\ HasEntry(q) /\ q # p
    BY <1>4, <1>10 DEF HasEntry
  <2> QED BY <1>1, <1>2, <1>10, <1>12, <2>1, <2>2 DEF Kept
<1>20. Alone'
  <2> SUFFICES ASSUME NEW q \in Callers, NEW r \in Callers, q # r, HasEntry(r)', ip'[r] = ip'[q]
               PROVE  /\ ipc'[q] # "trunc"
                      /\ ipc'[q] = "freed" => ipc'[r] = "ilock" /\ iop'[r] = "create"
    BY DEF Alone
  <2>1. HasEntry(r) /\ r # p
    BY <1>11
  <2>2. CASE q = p
    BY <2>2, <1>4
  <2>3. CASE q # p
    BY <2>1, <2>3, <1>1, <1>10 DEF Alone
  <2> QED BY <2>2, <2>3
<1>21. Links'
  <2>1. \A q \in Callers : Unlinking(q)' \/ ipc'[q] = "unlinked" => HasEntry(q) /\ q # p
    BY <1>4, <1>10 DEF HasEntry, Unlinking
  <2>2. \A q \in Callers : (Unlinking(q)' => Unlinking(q)) /\ (ipc'[q] = "unlinked" => ipc[q] = "unlinked")
    BY <1>4, <1>10 DEF Unlinking
  <2> QED BY <1>1, <1>2, <1>12, <2>1, <2>2 DEF Links
<1>22. Creation'
  <2> SUFFICES ASSUME NEW q \in Callers, Making(q)'
               PROVE  /\ dir'[name'[q]] = 0 /\ dinode'[Made(q)'] = Fresh
                      /\ \A r \in Callers : r # q /\ HasEntry(r)' /\ Inum(r)' = Made(q)' =>
                           ipc'[r] \in {"freed", "unput", "deref"}
    BY DEF Creation
  <2>1. q # p /\ Making(q) /\ Made(q)' = Made(q) /\ name'[q] = name[q]
    BY <1>4, <1>10, <1>12 DEF Making, Made, HasEntry
  <2>2. dir'[name'[q]] = 0 /\ dinode'[Made(q)'] = Fresh
    BY <2>1, <1>1, <1>2 DEF Creation
  <2>3. ASSUME NEW r \in Callers, r # q, HasEntry(r)', Inum(r)' = Made(q)'
        PROVE  ipc'[r] \in {"freed", "unput", "deref"}
    <3>1. HasEntry(r) /\ r # p /\ Inum(r) = Made(q)
      BY <2>1, <2>3, <1>11, <1>12
    <3>2. ipc[r] \in {"freed", "unput", "deref"}
      BY <3>1, <2>1, <2>3, <1>1 DEF Creation
    <3> QED BY <3>1, <3>2, <1>10
  <2> QED BY <2>2, <2>3
<1>23. BlocksOwned'
  <2>1. \A q \in Callers : ipc[q] = "trunc" => HasEntry(q) /\ q # p
    BY <1>4 DEF HasEntry
  <2>2. \A q \in Callers : ipc[q] = "trunc" =>
          Inum(q)' = Inum(q) /\ icache'[ip'[q]].d.addrs = icache[ip[q]].d.addrs
    BY <2>1, <1>10, <1>12
  <2>3. \A q \in Callers : ipc'[q] = "trunc" <=> ipc[q] = "trunc"
    BY <1>4, <1>10
  <2> QED BY <1>1, <1>2, <2>2, <2>3, BlocksFrame
<1> QED BY <1>14, <1>15, <1>16, <1>17, <1>18, <1>19, <1>20, <1>21, <1>22, <1>23 DEF InodeInv
-----------------------------------------------------------------------------
(* iget().                                                                 *)

\* The least of a set.
LEMMA MinIs ==
  ASSUME NEW S \in SUBSET Nat, S # {}
  PROVE  Min(S) \in S /\ \A y \in S : Min(S) <= y
BY LeastExists DEF Min

\* There is an entry: every entry in use has a call of its own, and the caller
\* has none.
LEMMA EntryIs ==
  ASSUME InodeInv, NEW p \in Callers, ~HasEntry(p), NEW i \in Inums
  PROVE  /\ Entry(i) \in Entries /\ Entry(i) # 0
         /\ icache[Entry(i)].ref > 0 => icache[Entry(i)].inum = i
         /\ ~(icache[Entry(i)].ref > 0) =>
              \A f \in Entries : icache[f].ref > 0 => icache[f].inum # i
<1>1. InodeTypes /\ Control /\ Counts
  BY DEF InodeInv
<1> DEFINE has == {e \in Entries : icache[e].ref > 0 /\ icache[e].inum = i}
           empty == {e \in Entries : icache[e].ref = 0}
<1>2. Entry(i) = IF has # {} THEN Min(has) ELSE IF empty # {} THEN Min(empty) ELSE 0
  BY DEF Entry
<1>3. has \in SUBSET Nat /\ empty \in SUBSET Nat
  BY InodeSizes DEF Entries
<1>4. CASE has # {}
  <2>1. Min(has) \in has
    BY <1>3, <1>4, MinIs
  <2> QED BY <2>1, <1>2, <1>4, InodeSizes
<1>5. CASE has = {} /\ empty # {}
  <2>1. Min(empty) \in empty
    BY <1>3, <1>5, MinIs
  <2>2. Entry(i) = Min(empty)
    BY <1>2, <1>5
  <2>3. Entry(i) \in Entries /\ icache[Entry(i)].ref = 0
    BY <2>1, <2>2
  <2>4. \A f \in Entries : icache[f].ref > 0 => icache[f].inum # i
    BY <1>5
  <2>5. ~(icache[Entry(i)].ref > 0)
    BY <2>3
  <2> QED BY <2>3, <2>4, <2>5, InodeSizes
<1>6. CASE empty = {}
  <2> DEFINE user == [e \in Entries |-> CHOOSE q \in Callers : q \in Users(e)]
             rest == Callers \ {p}
  <2>1. ASSUME NEW e \in Entries PROVE user[e] \in rest /\ ip[user[e]] = e
    <3>1. Cardinality(Users(e)) # 0
      BY <1>1, <1>6 DEF Counts
    <3>2. Users(e) # {}
      BY <3>1, FS_EmptySet
    <3>3. \E q \in Callers : q \in Users(e)
      BY <3>2 DEF Users
    <3>4. user[e] \in Callers /\ user[e] \in Users(e)
      BY <3>3
    <3>5. HasEntry(user[e]) /\ ip[user[e]] = e
      BY <3>4, <1>1, UsersAre
    <3> QED BY <3>4, <3>5
  <2>2. user \in [Entries -> rest]
    BY <2>1
  <2>3. IsFiniteSet(rest) /\ Cardinality(rest) = Cardinality(Callers) - 1
    BY InodeSizes, FS_RemoveElement
  <2>4. IsFiniteSet(Entries) /\ Cardinality(Entries) = NINODE
    <3>1. Cardinality(Entries) = IF 1 > NINODE THEN 0 ELSE NINODE - 1 + 1
      BY InodeSizes, FS_Interval DEF Entries
    <3> QED BY <3>1, InodeSizes, FS_Interval DEF Entries
  <2>5. Cardinality(rest) < Cardinality(Entries)
    BY <2>3, <2>4, InodeSizes, FS_CardinalityType
  <2> HIDE DEF user, rest
  <2>6. \E e, f \in Entries : e # f /\ user[e] = user[f]
    BY <2>2, <2>3, <2>4, <2>5, FS_PigeonHole
  <2> QED BY <2>1, <2>6
<1> QED BY <1>4, <1>5, <1>6

\* p gets a reference to entry e, which is for inode i.
Taken(p, e, i) ==
  /\ icache' \in [Entries -> CacheEntries]
  /\ ip' = [ip EXCEPT ![p] = e]
  /\ \A f \in Entries : f # e => icache'[f] = icache[f]
  /\ icache'[e].inum = i /\ icache'[e].ref = icache[e].ref + 1
  /\ icache'[e].lock = icache[e].lock /\ icache'[e].d = icache[e].d
  /\ icache[e].ref > 0 => icache[e].inum = i /\ icache'[e].valid = icache[e].valid
  /\ ~(icache[e].ref > 0) =>
       ~icache'[e].valid /\ \A f \in Entries : icache[f].ref > 0 => icache[f].inum # i

LEMMA IgetTakes ==
  ASSUME InodeInv, NEW p \in Callers, ~HasEntry(p), NEW i \in Inums, iget(p, i)
  PROVE  Taken(p, Entry(i), i) /\ Entry(i) \in Entries /\ panic' = panic
<1> DEFINE e == Entry(i)
<1>1. InodeTypes
  BY DEF InodeInv
<1>2. /\ e \in Entries /\ e # 0
      /\ icache[e].ref > 0 => icache[e].inum = i
      /\ ~(icache[e].ref > 0) => \A f \in Entries : icache[f].ref > 0 => icache[f].inum # i
  BY EntryIs
<1>3. icache[e] \in CacheEntries /\ icache \in [Entries -> CacheEntries]
  BY <1>1, <1>2, EntryTypes DEF InodeTypes
<1>4. /\ icache' = [icache EXCEPT ![e] =
                IF icache[e].ref > 0 THEN [icache[e] EXCEPT !.ref = @ + 1]
                ELSE [icache[e] EXCEPT !.inum = i, !.ref = 1, !.valid = FALSE]]
      /\ ip' = [ip EXCEPT ![p] = e] /\ panic' = panic
  BY <1>2 DEF iget
<1> HIDE DEF e
<1>5. CASE icache[e].ref > 0
  <2>1. icache' = [icache EXCEPT ![e] = [icache[e] EXCEPT !.ref = icache[e].ref + 1]]
    BY <1>4, <1>5
  <2>2. icache[e].ref + 1 \in Nat
    BY <1>3 DEF CacheEntries
  <2>3. icache' \in [Entries -> CacheEntries]
    BY <2>1, <2>2, <1>2, <1>3 DEF CacheEntries
  <2> QED BY <2>1, <2>3, <1>2, <1>3, <1>4, <1>5 DEF Taken, CacheEntries, e
<1>6. CASE ~(icache[e].ref > 0)
  <2>1. icache' = [icache EXCEPT ![e] = [icache[e] EXCEPT !.inum = i, !.ref = 1, !.valid = FALSE]]
    BY <1>4, <1>6
  <2>2. icache[e].ref = 0
    BY <1>3, <1>6 DEF CacheEntries
  <2>3. icache' \in [Entries -> CacheEntries]
    BY <2>1, <1>2, <1>3 DEF CacheEntries
  <2>4. icache'[e].inum = i /\ icache'[e].ref = icache[e].ref + 1
        /\ icache'[e].lock = icache[e].lock /\ icache'[e].d = icache[e].d /\ ~icache'[e].valid
    BY <2>1, <2>2, <1>2, <1>3 DEF CacheEntries
  <2>5. \A f \in Entries : f # e => icache'[f] = icache[f]
    BY <2>1, <1>2, <1>3
  <2> QED BY <2>3, <2>4, <2>5, <1>2, <1>4, <1>6 DEF Taken, e
<1> QED BY <1>2, <1>4, <1>5, <1>6 DEF e

LEMMA TakenFrame ==
  ASSUME InodeInv, NEW p \in Callers, ~HasEntry(p), NEW e \in Entries, NEW i \in Inums, Taken(p, e, i),
         \A q \in Callers : q # p => ipc'[q] = ipc[q] /\ iop'[q] = iop[q] /\ name'[q] = name[q],
         UNCHANGED <<dinode, bitmap, indirect>>, ipc'[p] \in {"ilock", "open"},
         Knows(p)' => icache'[e].valid, dinode[i].type = 1,
         \A q \in Callers : q # p /\ HasEntry(q) /\ Inum(q) = i =>
           ipc[q] # "trunc" /\ (ipc[q] = "freed" => ipc'[p] = "ilock" /\ iop'[p] = "create")
  PROVE  /\ Counts' /\ Locks' /\ Cached' /\ Kept' /\ Alone' /\ BlocksOwned'
         /\ ip' \in [Callers -> Nat] /\ ip'[p] = e /\ Inum(p)' = i
         /\ \A q \in Callers : q # p => ip'[q] = ip[q] /\ (HasEntry(q)' <=> HasEntry(q))
         /\ \A q \in Callers : q # p /\ HasEntry(q) => ip[q] \in Entries /\ Inum(q)' = Inum(q)
<1>1. /\ InodeTypes /\ Control /\ Counts /\ Locks /\ Cached /\ Kept /\ Alone /\ Links
      /\ Creation /\ BlocksOwned
  BY DEF InodeInv
<1>2. UNCHANGED <<dinode, bitmap, indirect>>
  OBVIOUS
<1>3. ip' = [ip EXCEPT ![p] = e] /\ icache' \in [Entries -> CacheEntries]
  BY DEF Taken
<1>4. /\ \A f \in Entries : f # e => icache'[f] = icache[f]
      /\ icache'[e].inum = i /\ icache'[e].ref = icache[e].ref + 1
      /\ icache'[e].lock = icache[e].lock /\ icache'[e].d = icache[e].d
      /\ icache[e].ref > 0 => icache[e].inum = i /\ icache'[e].valid = icache[e].valid
      /\ ~(icache[e].ref > 0) =>
           ~icache'[e].valid /\ \A f \in Entries : icache[f].ref > 0 => icache[f].inum # i
  BY DEF Taken
<1>5. ip' \in [Callers -> Nat] /\ ip'[p] = e /\ \A q \in Callers : q # p => ip'[q] = ip[q]
  <2>1. e \in Nat
    BY InodeSizes DEF Entries
  <2>2. ip \in [Callers -> Nat]
    BY <1>1 DEF InodeTypes
  <2> QED BY <1>3, <2>1, <2>2
<1>6. \A q \in Callers : q # p =>
        ipc'[q] = ipc[q] /\ iop'[q] = iop[q] /\ name'[q] = name[q] /\ ip'[q] = ip[q]
  BY <1>5
<1>7. HasEntry(p)' /\ \A q \in Callers : q # p => (HasEntry(q)' <=> HasEntry(q))
  BY <1>6 DEF HasEntry
<1>8. \A q \in Callers : HasEntry(q) => ip[q] \in Entries /\ icache[ip[q]].ref > 0
  BY InUse
<1>9. \A q \in Callers : q # p /\ HasEntry(q) =>
         /\ ip[q] \in Entries /\ Inum(q)' = Inum(q)
         /\ icache'[ip[q]].lock = icache[ip[q]].lock /\ icache'[ip[q]].d = icache[ip[q]].d
         /\ icache'[ip[q]].valid = icache[ip[q]].valid
  BY <1>4, <1>6, <1>8 DEF Inum
<1>10. Inum(p)' = i
  BY <1>4, <1>5 DEF Inum
<1>11. Counts'
  <2>1. \A f \in Entries : Users(f)' = IF f = e THEN Users(f) \cup {p} ELSE Users(f)
    <3>1. ipc'[p] # "ialloc"
      OBVIOUS
    <3>2. \A f \in Entries : p \notin Users(f)
      BY <1>1, UsersAre
    <3> QED BY <3>1, <3>2, <1>5, <1>6 DEF Users
  <2>2. p \notin Users(e)
    BY <1>1, UsersAre
  <2>3. Cardinality(Users(e) \cup {p}) = Cardinality(Users(e)) + 1
    BY <2>2, UsersFinite, FS_AddElement
  <2>4. \A f \in Entries : icache'[f].ref = Cardinality(Users(f)')
    BY <1>1, <1>4, <2>1, <2>3 DEF Counts
  <2>5. \A f \in Entries : icache'[f].ref > 0 => icache'[f].inum \in Inums
    BY <1>1, <1>4 DEF Counts
  <2>6. \A f, g \in Entries :
          icache'[f].ref > 0 /\ icache'[g].ref > 0 /\ icache'[f].inum = icache'[g].inum => f = g
    <3> SUFFICES ASSUME NEW f \in Entries, NEW g \in Entries, icache'[f].ref > 0, icache'[g].ref > 0,
                        icache'[f].inum = icache'[g].inum
                 PROVE  f = g
      OBVIOUS
    <3>1. CASE f # e /\ g # e
      BY <3>1, <1>1, <1>4 DEF Counts
    <3>2. CASE f = e /\ g # e
      BY <3>2, <1>1, <1>4 DEF Counts
    <3>3. CASE f # e /\ g = e
      BY <3>3, <1>1, <1>4 DEF Counts
    <3> QED BY <3>1, <3>2, <3>3
  <2> QED BY <2>4, <2>5, <2>6 DEF Counts
<1>12. Locks'
  <2> SUFFICES ASSUME NEW f \in Entries, NEW q \in Callers
               PROVE  icache'[f].lock = q <=> Holds(q)' /\ ip'[q] = f
    BY DEF Locks
  <2>1. ~Holds(p)' /\ ~Holds(p)
    BY DEF Holds, HasEntry
  <2>2. q # p => (Holds(q)' <=> Holds(q))
    BY <1>6 DEF Holds
  <2>3. icache[f].lock = q <=> Holds(q) /\ ip[q] = f
    BY <1>1 DEF Locks
  <2>4. icache'[f].lock = icache[f].lock
    BY <1>4
  <2> QED BY <1>6, <2>1, <2>2, <2>3, <2>4
<1>13. Cached'
  <2>1. ~Frees(p) /\ ~Frees(p)' /\ \A q \in Callers : q # p => (Frees(q)' <=> Frees(q))
    BY <1>6 DEF Frees, HasEntry
  <2>2. ASSUME NEW f \in Entries, icache'[f].ref > 0, icache'[f].valid,
               \A q \in Callers : Frees(q)' => ip'[q] # f
        PROVE  icache'[f].d = dinode'[icache'[f].inum] /\ icache'[f].d.type = 1
    <3>1. \A q \in Callers : Frees(q) => ip[q] # f
      BY <2>1, <2>2, <1>6
    <3>2. icache[f].ref > 0 /\ icache[f].valid /\ icache'[f].d = icache[f].d /\ icache'[f].inum = icache[f].inum
      BY <2>2, <1>4
    <3> QED BY <3>1, <3>2, <1>1, <1>2 DEF Cached
  <2>3. ASSUME NEW q \in Callers, Knows(q)' PROVE icache'[ip'[q]].valid
    <3>1. CASE q = p
      BY <2>3, <3>1, <1>5
    <3>2. CASE q # p
      <4>1. Knows(q) /\ HasEntry(q)
        BY <2>3, <3>2, <1>6 DEF Knows, HasEntry
      <4> QED BY <3>2, <4>1, <1>1, <1>6, <1>9 DEF Cached
    <3> QED BY <3>1, <3>2
  <2> QED BY <2>2, <2>3 DEF Cached
<1>14. Kept'
  <2>1. \A q \in Callers : q # p => (Needs(q)' => Needs(q) /\ HasEntry(q))
    BY <1>6 DEF Needs, HasEntry
  <2>2. \A q \in Callers : /\ ipc'[q] = "trunc" => ipc[q] = "trunc" /\ HasEntry(q) /\ q # p
                           /\ ipc'[q] = "freed" => ipc[q] = "freed" /\ HasEntry(q) /\ q # p
    BY <1>6 DEF HasEntry
  <2> QED BY <1>1, <1>2, <1>6, <1>9, <1>10, <2>1, <2>2 DEF Kept
<1>15. Alone'
  <2> SUFFICES ASSUME NEW q \in Callers, NEW r \in Callers, q # r, HasEntry(r)', ip'[r] = ip'[q]
               PROVE  /\ ipc'[q] # "trunc"
                      /\ ipc'[q] = "freed" => ipc'[r] = "ilock" /\ iop'[r] = "create"
    BY DEF Alone
  <2>1. CASE q = p
    BY <2>1
  <2>2. CASE q # p /\ r = p
    <3>1. ip[q] = e /\ ipc'[q] = ipc[q]
      BY <2>2, <1>5, <1>6
    <3>2. HasEntry(q) => icache[e].ref > 0 /\ Inum(q) = i
      BY <3>1, <1>4, <1>8 DEF Inum
    <3>3. ipc[q] \in {"trunc", "freed"} => HasEntry(q)
      BY DEF HasEntry
    <3> QED BY <2>2, <3>1, <3>2, <3>3
  <2>3. CASE q # p /\ r # p
    BY <2>3, <1>1, <1>6, <1>7 DEF Alone
  <2> QED BY <2>1, <2>2, <2>3
<1>16. BlocksOwned'
  <2>1. \A q \in Callers : ipc[q] = "trunc" => HasEntry(q) /\ q # p
    BY DEF HasEntry
  <2>2. \A q \in Callers : ipc[q] = "trunc" =>
          Inum(q)' = Inum(q) /\ icache'[ip'[q]].d.addrs = icache[ip[q]].d.addrs
    BY <2>1, <1>6, <1>9
  <2>3. \A q \in Callers : ipc'[q] = "trunc" <=> ipc[q] = "trunc"
    BY <2>1, <1>6
  <2> QED BY <1>1, <1>2, <2>2, <2>3, BlocksFrame
<1> QED BY <1>5, <1>7, <1>9, <1>10, <1>11, <1>12, <1>13, <1>14, <1>15, <1>16

\* The inode of a name: nobody frees it, for it has a link.
LEMMA FoundKeeps ==
  ASSUME InodeInv, NEW p \in Callers, found(p)
  PROVE  InodeInv'
<1>1. /\ InodeTypes /\ Control /\ Counts /\ Locks /\ Cached /\ Kept /\ Alone /\ Links
      /\ Creation /\ BlocksOwned
  BY DEF InodeInv
<1> DEFINE i == dir[name[p]]
           e == Entry(i)
<1>2. UNCHANGED <<dinode, bitmap, indirect, dir, name>> /\ iget(p, i)
  BY DEF found, idisk
<1>3. ipc[p] = "lookup" /\ ipc'[p] = "ilock" /\ i # 0
  BY <1>1 DEF InodeTypes, found, Goto
<1>4. \A q \in Callers : q # p => ipc'[q] = ipc[q] /\ iop'[q] = iop[q] /\ name'[q] = name[q]
  BY <1>1 DEF InodeTypes, found, Goto
<1>5. /\ iop[p] = "unlink" => iop'[p] = "unlink" /\ dlock' = dlock
      /\ iop[p] # "unlink" => iop'[p] = "use" /\ dlock' = Nobody
  BY <1>1 DEF InodeTypes, found
<1>6. ~HasEntry(p) /\ InDir(p) /\ dlock = p
  BY <1>1, <1>3 DEF HasEntry, InDir, Control
<1>7. i \in Inums /\ name[p] \in Names
  BY <1>1, <1>3 DEF InodeTypes
<1>8. Taken(p, e, i) /\ e \in Entries /\ panic' = panic
  BY <1>2, <1>6, <1>7, IgetTakes
<1>9. dinode[i].type = 1 /\ dinode[i].nlink = 1
  BY <1>1, <1>3, <1>7 DEF Links
<1>10. \A q \in Callers : ipc[q] \in {"trunc", "freed"} => dinode[Inum(q)].nlink = 0
  BY <1>1 DEF Kept
<1>11. \A q \in Callers : Inum(q) = i => ipc[q] \notin {"trunc", "freed"}
  BY <1>9, <1>10
<1>12. ~Knows(p)'
  BY <1>3 DEF Knows
<1> HIDE DEF e, i
<1>13. /\ Counts' /\ Locks' /\ Cached' /\ Kept' /\ Alone' /\ BlocksOwned'
       /\ ip' \in [Callers -> Nat] /\ ip'[p] = e /\ Inum(p)' = i
       /\ \A q \in Callers : q # p => ip'[q] = ip[q] /\ (HasEntry(q)' <=> HasEntry(q))
       /\ \A q \in Callers : q # p /\ HasEntry(q) => ip[q] \in Entries /\ Inum(q)' = Inum(q)
  BY <1>2, <1>3, <1>4, <1>6, <1>7, <1>8, <1>9, <1>11, <1>12, TakenFrame
<1>14. InodeTypes'
  <2>1. ipc' \in [Callers -> Stages]
    BY <1>1 DEF InodeTypes, found, Goto, Stages
  <2>2. iop' \in [Callers -> {"", "create", "open", "unlink", "use"}]
    BY <1>1 DEF InodeTypes, found
  <2>3. icache' \in [Entries -> CacheEntries]
    BY <1>8 DEF Taken
  <2> QED BY <1>1, <1>2, <1>5, <1>8, <1>13, <2>1, <2>2, <2>3 DEF InodeTypes
<1>15. \A q \in Callers : q # p => ~InDir(q) /\ ~InDir(q)'
  BY <1>1, <1>4, <1>6 DEF Control, InDir
<1>16. Control'
  <2>1. InDir(p)' <=> iop[p] = "unlink"
    BY <1>3, <1>5 DEF InDir
  <2>2. \A q \in Callers : InDir(q)' <=> dlock' = q
    BY <1>5, <1>6, <1>15, <2>1, InodeSizes
  <2>3. \A q \in Callers : q # p =>
          /\ ipc'[q] \in {"idle", "lookup"} => ip'[q] = 0
          /\ ipc'[q] = "ialloc" => ip'[q] \in Inums /\ iop'[q] = "create"
          /\ HasEntry(q)' => ip'[q] \in Entries
          /\ ipc'[q] = "lookup" => iop'[q] \in {"create", "open", "unlink"}
          /\ ipc'[q] = "ilock" => iop'[q] \in {"create", "unlink", "use"}
    BY <1>1, <1>4, <1>13 DEF Control
  <2> QED BY <1>3, <1>5, <1>8, <1>13, <2>2, <2>3 DEF Control
<1>17. Links'
  <2>1. ASSUME NEW q \in Callers, Unlinking(q)' PROVE dir'[name'[q]] = Inum(q)'
    <3>1. q = p
      BY <2>1, <1>15 DEF Unlinking, InDir
    <3> QED BY <3>1, <1>2, <1>13 DEF i
  <2>2. \A q \in Callers : ipc'[q] = "unlinked" => ipc[q] = "unlinked" /\ HasEntry(q) /\ q # p
    BY <1>3, <1>4 DEF HasEntry
  <2> QED BY <1>1, <1>2, <1>13, <2>1, <2>2 DEF Links
<1>18. Creation'
  <2>1. \A q \in Callers : ~Making(q)'
    BY <1>3, <1>5, <1>15 DEF Making, InDir
  <2> QED BY <2>1 DEF Creation
<1> QED BY <1>13, <1>14, <1>16, <1>17, <1>18 DEF InodeInv

\* The inode that ialloc() has marked: those who still refer to it only leave.
LEMMA FetchedKeeps ==
  ASSUME InodeInv, NEW p \in Callers, fetched(p)
  PROVE  InodeInv'
<1>1. /\ InodeTypes /\ Control /\ Counts /\ Locks /\ Cached /\ Kept /\ Alone /\ Links
      /\ Creation /\ BlocksOwned
  BY DEF InodeInv
<1> DEFINE i == ip[p]
           e == Entry(i)
<1>2. UNCHANGED <<dinode, bitmap, indirect, dir, dlock, iop, name>> /\ iget(p, i)
  BY DEF fetched, idisk
<1>3. ipc[p] = "ialloc" /\ ipc'[p] = "ilock"
  BY <1>1 DEF InodeTypes, fetched, Goto
<1>4. \A q \in Callers : q # p => ipc'[q] = ipc[q] /\ iop'[q] = iop[q] /\ name'[q] = name[q]
  BY <1>1 DEF InodeTypes, fetched, Goto
<1>5. iop'[p] = "create" /\ name'[p] = name[p]
  BY <1>1, <1>2, <1>3 DEF Control
<1>6. ~HasEntry(p) /\ InDir(p) /\ dlock = p /\ Making(p) /\ Made(p) = i
  BY <1>1, <1>3 DEF HasEntry, InDir, Control, Making, Made
<1>7. i \in Inums
  BY <1>1, <1>3 DEF Control
<1>8. Taken(p, e, i) /\ e \in Entries /\ panic' = panic
  BY <1>2, <1>6, <1>7, IgetTakes
<1>9. /\ dir[name[p]] = 0 /\ dinode[i] = Fresh
      /\ \A q \in Callers : q # p /\ HasEntry(q) /\ Inum(q) = i => ipc[q] \in {"freed", "unput", "deref"}
  BY <1>1, <1>6 DEF Creation
<1>10. dinode[i].type = 1
  BY <1>9, FreeTypes
<1>11. \A q \in Callers : q # p /\ HasEntry(q) /\ Inum(q) = i => ipc[q] # "trunc"
  BY <1>9
<1>12. ~Knows(p)'
  BY <1>3 DEF Knows
<1> HIDE DEF e, i
<1>13. /\ Counts' /\ Locks' /\ Cached' /\ Kept' /\ Alone' /\ BlocksOwned'
       /\ ip' \in [Callers -> Nat] /\ ip'[p] = e /\ Inum(p)' = i
       /\ \A q \in Callers : q # p => ip'[q] = ip[q] /\ (HasEntry(q)' <=> HasEntry(q))
       /\ \A q \in Callers : q # p /\ HasEntry(q) => ip[q] \in Entries /\ Inum(q)' = Inum(q)
  BY <1>2, <1>3, <1>4, <1>5, <1>6, <1>7, <1>8, <1>10, <1>11, <1>12, TakenFrame
<1>14. InodeTypes'
  <2>1. ipc' \in [Callers -> Stages]
    BY <1>1 DEF InodeTypes, fetched, Goto, Stages
  <2>2. icache' \in [Entries -> CacheEntries]
    BY <1>8 DEF Taken
  <2> QED BY <1>1, <1>2, <1>8, <1>13, <2>1, <2>2 DEF InodeTypes
<1>15. InDir(p)' /\ \A q \in Callers : q # p => ~InDir(q) /\ ~InDir(q)'
  BY <1>1, <1>3, <1>4, <1>5, <1>6 DEF Control, InDir
<1>16. Control'
  <2>1. \A q \in Callers : InDir(q)' <=> dlock' = q
    BY <1>2, <1>6, <1>15
  <2>2. \A q \in Callers : q # p =>
          /\ ipc'[q] \in {"idle", "lookup"} => ip'[q] = 0
          /\ ipc'[q] = "ialloc" => ip'[q] \in Inums /\ iop'[q] = "create"
          /\ HasEntry(q)' => ip'[q] \in Entries
          /\ ipc'[q] = "lookup" => iop'[q] \in {"create", "open", "unlink"}
          /\ ipc'[q] = "ilock" => iop'[q] \in {"create", "unlink", "use"}
    BY <1>1, <1>4, <1>13 DEF Control
  <2> QED BY <1>3, <1>5, <1>8, <1>13, <2>1, <2>2 DEF Control
<1>17. Links'
  <2>1. \A q \in Callers : ~Unlinking(q)'
    BY <1>3, <1>5, <1>15 DEF Unlinking, InDir
  <2>2. \A q \in Callers : ipc'[q] = "unlinked" => ipc[q] = "unlinked" /\ HasEntry(q) /\ q # p
    BY <1>3, <1>4 DEF HasEntry
  <2> QED BY <1>1, <1>2, <1>13, <2>1, <2>2 DEF Links
<1>18. Creation'
  <2>1. \A q \in Callers : Making(q)' => q = p
    BY <1>15 DEF Making, InDir
  <2>2. Made(p)' = i
    BY <1>3, <1>13 DEF Made
  <2>3. ASSUME NEW r \in Callers, r # p, HasEntry(r)', Inum(r)' = i
        PROVE  ipc'[r] \in {"freed", "unput", "deref"}
    BY <2>3, <1>4, <1>9, <1>13
  <2> QED BY <1>2, <1>5, <1>9, <2>1, <2>2, <2>3 DEF Creation
<1> QED BY <1>13, <1>14, <1>16, <1>17, <1>18 DEF InodeInv

\* The child's reference to an open file.
LEMMA IdupKeeps ==
  ASSUME InodeInv, NEW p \in Callers, NEW q \in Callers, idup(q, p)
  PROVE  InodeInv'
<1>1. /\ InodeTypes /\ Control /\ Counts /\ Locks /\ Cached /\ Kept /\ Alone /\ Links
      /\ Creation /\ BlocksOwned
  BY DEF InodeInv
<1> DEFINE e == ip[q]
           i == Inum(q)
<1>2. UNCHANGED <<dinode, bitmap, indirect, dir, dlock, iop, name, panic>>
  BY DEF idup, idisk
<1>3. ipc[q] = "open" /\ ipc[p] = "idle" /\ ipc'[p] = "open" /\ p # q
  BY <1>1 DEF InodeTypes, idup, Goto
<1>4. \A r \in Callers : r # p => ipc'[r] = ipc[r] /\ iop'[r] = iop[r] /\ name'[r] = name[r]
  BY <1>1 DEF InodeTypes, idup, Goto
<1>6. ~HasEntry(p) /\ HasEntry(q)
  BY <1>3 DEF HasEntry
<1>7. e \in Entries /\ i \in Inums /\ icache[e].inum = i /\ icache[e].ref > 0
  BY <1>6, InUse DEF Inum
<1>8. Taken(p, e, i)
  <2>1. icache[e] \in CacheEntries /\ icache \in [Entries -> CacheEntries]
    BY <1>1, <1>7, EntryTypes DEF InodeTypes
  <2>2. icache' = [icache EXCEPT ![e].ref = icache[e].ref + 1] /\ ip' = [ip EXCEPT ![p] = e]
    BY DEF idup
  <2>3. icache[e].ref + 1 \in Nat
    BY <2>1 DEF CacheEntries
  <2> HIDE DEF e, i
  <2>4. icache' \in [Entries -> CacheEntries]
    BY <2>1, <2>2, <2>3, <1>7 DEF CacheEntries
  <2> QED BY <2>1, <2>2, <2>4, <1>7 DEF Taken, CacheEntries
<1>9. icache[e].valid /\ icache'[e].valid
  BY <1>1, <1>3, <1>7, <1>8 DEF Cached, Knows, Taken
<1>10. dinode[i].type = 1
  BY <1>1, <1>3 DEF Kept, Needs
<1>11. \A r \in Callers : r # p /\ HasEntry(r) /\ Inum(r) = i => ipc[r] # "trunc" /\ ipc[r] # "freed"
  <2> SUFFICES ASSUME NEW r \in Callers, HasEntry(r), Inum(r) = i PROVE ipc[r] # "trunc" /\ ipc[r] # "freed"
    OBVIOUS
  <2>1. ip[r] = ip[q]
    BY <1>6, SameEntry
  <2> QED BY <2>1, <1>1, <1>3, <1>6 DEF Alone
<1> HIDE DEF e, i
<1>13. /\ Counts' /\ Locks' /\ Cached' /\ Kept' /\ Alone' /\ BlocksOwned'
       /\ ip' \in [Callers -> Nat] /\ ip'[p] = e /\ Inum(p)' = i
       /\ \A r \in Callers : r # p => ip'[r] = ip[r] /\ (HasEntry(r)' <=> HasEntry(r))
       /\ \A r \in Callers : r # p /\ HasEntry(r) => ip[r] \in Entries /\ Inum(r)' = Inum(r)
  BY <1>2, <1>3, <1>4, <1>6, <1>7, <1>8, <1>9, <1>10, <1>11, TakenFrame
<1>14. InodeTypes'
  <2>1. ipc' \in [Callers -> Stages]
    BY <1>1 DEF InodeTypes, idup, Goto, Stages
  <2>2. icache' \in [Entries -> CacheEntries]
    BY <1>8 DEF Taken
  <2> QED BY <1>1, <1>2, <1>13, <2>1, <2>2 DEF InodeTypes
<1>16. Control'
  <2>1. \A r \in Callers : InDir(r)' <=> InDir(r)
    BY <1>2, <1>3, <1>4 DEF InDir
  <2>2. \A r \in Callers : r # p =>
          /\ ipc'[r] \in {"idle", "lookup"} => ip'[r] = 0
          /\ ipc'[r] = "ialloc" => ip'[r] \in Inums /\ iop'[r] = "create"
          /\ HasEntry(r)' => ip'[r] \in Entries
          /\ ipc'[r] = "lookup" => iop'[r] \in {"create", "open", "unlink"}
          /\ ipc'[r] = "ilock" => iop'[r] \in {"create", "unlink", "use"}
    BY <1>1, <1>4, <1>13 DEF Control
  <2>3. \A r \in Callers : InDir(r)' <=> dlock' = r
    BY <1>1, <1>2, <2>1 DEF Control
  <2> QED BY <1>3, <1>7, <1>13, <2>2, <2>3 DEF Control
<1>17. Links'
  <2>1. \A r \in Callers : (Unlinking(r)' => Unlinking(r) /\ HasEntry(r) /\ r # p)
                           /\ (ipc'[r] = "unlinked" => ipc[r] = "unlinked" /\ HasEntry(r) /\ r # p)
    BY <1>3, <1>4 DEF HasEntry, Unlinking
  <2> QED BY <1>1, <1>2, <1>13, <2>1 DEF Links
<1>18. Creation'
  <2> SUFFICES ASSUME NEW r \in Callers, Making(r)'
               PROVE  /\ dir'[name'[r]] = 0 /\ dinode'[Made(r)'] = Fresh
                      /\ \A s \in Callers : s # r /\ HasEntry(s)' /\ Inum(s)' = Made(r)' =>
                           ipc'[s] \in {"freed", "unput", "deref"}
    BY DEF Creation
  <2>1. r # p /\ Making(r) /\ Made(r)' = Made(r) /\ name'[r] = name[r]
    BY <1>3, <1>4, <1>13 DEF Making, Made, HasEntry
  <2>2. dir'[name'[r]] = 0 /\ dinode'[Made(r)'] = Fresh
    BY <2>1, <1>1, <1>2 DEF Creation
  <2>3. r # q /\ Made(r) # i
    BY <2>1, <1>1, <1>3, <1>6 DEF Creation, Making, i
  <2>4. ASSUME NEW s \in Callers, s # r, HasEntry(s)', Inum(s)' = Made(r)'
        PROVE  ipc'[s] \in {"freed", "unput", "deref"}
    <3>1. s # p /\ HasEntry(s) /\ Inum(s) = Made(r)
      BY <2>1, <2>3, <2>4, <1>13
    <3>2. ipc[s] \in {"freed", "unput", "deref"}
      BY <3>1, <2>1, <2>4, <1>1 DEF Creation
    <3> QED BY <3>1, <3>2, <1>4
  <2> QED BY <2>2, <2>4
<1> QED BY <1>13, <1>14, <1>16, <1>17, <1>18 DEF InodeInv

\* ialloc(): a free inode is in no file, and those who refer to it only leave.
LEMMA IallocKeeps ==
  ASSUME InodeInv, NEW p \in Callers, ialloc(p)
  PROVE  InodeInv'
<1>1. /\ InodeTypes /\ Control /\ Counts /\ Locks /\ Cached /\ Kept /\ Alone /\ Links
      /\ Creation /\ BlocksOwned
  BY DEF InodeInv
<1> DEFINE unused == {i \in Inums : dinode[i].type = 0}
           i == Min(unused)
<1>2. UNCHANGED <<bitmap, indirect, icache, dir, dlock, iop, name, panic>>
  BY DEF ialloc
<1>3. /\ ipc[p] = "lookup" /\ ipc'[p] = "ialloc" /\ dir[name[p]] = 0 /\ iop[p] = "create"
      /\ ip'[p] = i /\ unused # {} /\ dinode' = [dinode EXCEPT ![i] = Fresh]
  BY <1>1 DEF InodeTypes, ialloc, Goto, Fresh
<1>4. \A q \in Callers : q # p =>
        ipc'[q] = ipc[q] /\ iop'[q] = iop[q] /\ name'[q] = name[q] /\ ip'[q] = ip[q]
  BY <1>1 DEF InodeTypes, ialloc, Goto
<1>5. i \in Inums /\ dinode[i].type = 0 /\ i \in Nat
  <2>1. unused \in SUBSET Nat
    BY InodeSizes DEF Inums
  <2>2. i \in unused
    BY <1>3, <2>1, MinIs
  <2> QED BY <2>1, <2>2
<1>6. dinode[i] = FreeInode
  BY <1>1, <1>5 DEF Kept
<1> HIDE DEF unused, i
<1>7. /\ dinode' \in [Inums -> Dinodes]
      /\ \A j \in Inums : dinode'[j] = IF j = i THEN Fresh ELSE dinode[j]
  BY <1>1, <1>3, <1>5, FreeTypes DEF InodeTypes
<1>8. ~HasEntry(p) /\ ~HasEntry(p)' /\ InDir(p) /\ InDir(p)' /\ dlock = p
  BY <1>1, <1>3 DEF HasEntry, InDir, Control
<1>9. \A q \in Callers : /\ HasEntry(q)' <=> HasEntry(q)
                         /\ HasEntry(q) => ip'[q] = ip[q] /\ Inum(q)' = Inum(q) /\ Inum(q) \in Inums /\ q # p
  BY <1>2, <1>4, <1>8, InUse DEF HasEntry, Inum
<1>10. \A q \in Callers : Needs(q) => Inum(q) # i /\ HasEntry(q) /\ q # p
  <2>1. \A q \in Callers : Needs(q) => dinode[Inum(q)].type = 1
    BY <1>1 DEF Kept
  <2>2. \A q \in Callers : Needs(q) => HasEntry(q)
    BY DEF Needs, HasEntry
  <2> QED BY <2>1, <2>2, <1>5, <1>9
<1>11. InodeTypes'
  <2>1. ipc' \in [Callers -> Stages]
    BY <1>1 DEF InodeTypes, ialloc, Goto, Stages
  <2>2. ip' \in [Callers -> Nat]
    BY <1>1, <1>5 DEF InodeTypes, ialloc, i, unused
  <2> QED BY <1>1, <1>2, <1>7, <2>1, <2>2 DEF InodeTypes
<1>12. \A q \in Callers : q # p => ~InDir(q) /\ ~InDir(q)'
  BY <1>1, <1>4, <1>8 DEF Control, InDir
<1>13. Control'
  <2>1. \A q \in Callers : InDir(q)' <=> dlock' = q
    BY <1>2, <1>8, <1>12
  <2>2. \A q \in Callers : q # p =>
          /\ ipc'[q] \in {"idle", "lookup"} => ip'[q] = 0
          /\ ipc'[q] = "ialloc" => ip'[q] \in Inums /\ iop'[q] = "create"
          /\ HasEntry(q)' => ip'[q] \in Entries
          /\ ipc'[q] = "lookup" => iop'[q] \in {"create", "open", "unlink"}
          /\ ipc'[q] = "ilock" => iop'[q] \in {"create", "unlink", "use"}
    BY <1>1, <1>4, <1>9 DEF Control
  <2> QED BY <1>2, <1>3, <1>5, <1>8, <2>1, <2>2 DEF Control
<1>14. Counts'
  <2>1. ip[p] = 0
    BY <1>1, <1>3 DEF Control
  <2>2. \A f \in Entries : Users(f)' = Users(f)
    BY <1>3, <1>4, <2>1, InodeSizes DEF Users
  <2> QED BY <1>1, <1>2, <2>2 DEF Counts
<1>15. Locks'
  <2>1. \A q \in Callers : (Holds(q)' <=> Holds(q)) /\ (Holds(q) => q # p)
    BY <1>3, <1>4 DEF Holds
  <2> QED BY <1>1, <1>2, <1>4, <2>1 DEF Locks
<1>16. \A q \in Callers : (Frees(q)' <=> Frees(q)) /\ (Frees(q) => q # p)
  BY <1>3, <1>4 DEF Frees
<1>17. Cached'
  <2>1. ASSUME NEW f \in Entries, icache'[f].ref > 0, icache'[f].valid,
               \A q \in Callers : Frees(q)' => ip'[q] # f
        PROVE  icache'[f].d = dinode'[icache'[f].inum] /\ icache'[f].d.type = 1
    <3>1. icache[f].d = dinode[icache[f].inum] /\ icache[f].d.type = 1
      BY <2>1, <1>1, <1>2, <1>4, <1>16 DEF Cached
    <3>2. icache[f].inum # i
      BY <3>1, <1>5
    <3>3. icache[f].inum \in Inums
      BY <2>1, <1>1, <1>2 DEF Counts
    <3> QED BY <3>1, <3>2, <3>3, <1>2, <1>7
  <2>2. \A q \in Callers : Knows(q)' => Knows(q) /\ q # p
    BY <1>3, <1>4 DEF Knows
  <2> QED BY <1>1, <1>2, <1>4, <2>1, <2>2 DEF Cached
<1>18. Kept'
  <2>1. \A q \in Callers : Needs(q)' => Needs(q)
    BY <1>3, <1>4 DEF Needs
  <2>2. \A q \in Callers : /\ ipc'[q] = "trunc" => ipc[q] = "trunc" /\ HasEntry(q) /\ Needs(q)
                           /\ ipc'[q] = "freed" => ipc[q] = "freed" /\ HasEntry(q)
    BY <1>3, <1>4 DEF HasEntry, Needs
  <2>3. \A j \in Inums : dinode'[j].type = 0 => dinode'[j] = FreeInode
    BY <1>1, <1>7, FreeTypes DEF Kept
  <2>4. \A q \in Callers : Needs(q)' => dinode'[Inum(q)'].type = 1
    BY <1>1, <1>7, <1>9, <1>10, <2>1 DEF Kept
  <2>5. \A q \in Callers : ipc'[q] = "trunc" => dinode'[Inum(q)'].nlink = 0
    BY <1>1, <1>7, <1>9, <1>10, <2>2 DEF Kept
  <2>6. ASSUME NEW q \in Callers, ipc'[q] = "freed"
        PROVE  /\ icache'[ip'[q]].d = FreeInode
               /\ dinode'[Inum(q)'].nlink = 0 /\ dinode'[Inum(q)'].addrs = NoAddrs
    <3>1. ipc[q] = "freed" /\ Inum(q)' = Inum(q) /\ Inum(q) \in Inums /\ ip'[q] = ip[q]
      BY <2>2, <2>6, <1>9
    <3>2. icache[ip[q]].d = FreeInode /\ dinode[Inum(q)].nlink = 0 /\ dinode[Inum(q)].addrs = NoAddrs
      BY <3>1, <1>1 DEF Kept
    <3> QED BY <3>1, <3>2, <1>2, <1>7, FreeTypes
  <2> QED BY <2>3, <2>4, <2>5, <2>6 DEF Kept
<1>19. Alone'
  <2> SUFFICES ASSUME NEW q \in Callers, NEW r \in Callers, q # r, HasEntry(r)', ip'[r] = ip'[q]
               PROVE  /\ ipc'[q] # "trunc"
                      /\ ipc'[q] = "freed" => ipc'[r] = "ilock" /\ iop'[r] = "create"
    BY DEF Alone
  <2>1. HasEntry(r) /\ r # p
    BY <1>9
  <2>2. CASE q = p
    BY <2>2, <1>3
  <2>3. CASE q # p
    BY <2>1, <2>3, <1>1, <1>4 DEF Alone
  <2> QED BY <2>2, <2>3
<1>20. \A n \in Names : dir[n] # i
  <2>1. i # 0
    BY <1>5, InodeSizes
  <2> QED BY <2>1, <1>1, <1>5 DEF Links
<1>21. Links'
  <2>1. \A q \in Callers : ~Unlinking(q)'
    BY <1>3, <1>12 DEF Unlinking, InDir
  <2>2. ASSUME NEW q \in Callers, ipc'[q] = "unlinked"
        PROVE  dinode'[Inum(q)'].nlink = 1 /\ \A n \in Names : dir'[n] # Inum(q)'
    <3>1. ipc[q] = "unlinked" /\ Needs(q) /\ HasEntry(q)
      BY <2>2, <1>3, <1>4 DEF Needs, HasEntry
    <3> QED BY <3>1, <1>1, <1>2, <1>7, <1>9, <1>10 DEF Links
  <2>3. \A n \in Names : dir[n] # 0 => dir[n] \in Inums
    BY <1>1 DEF InodeTypes
  <2> QED BY <1>1, <1>2, <1>7, <1>20, <2>1, <2>2, <2>3 DEF Links
<1>22. Creation'
  <2>1. \A q \in Callers : Making(q)' => q = p
    BY <1>12 DEF Making, InDir
  <2>2. Made(p)' = i
    BY <1>3 DEF Made
  <2>3. ASSUME NEW r \in Callers, r # p, HasEntry(r)', Inum(r)' = i
        PROVE  ipc'[r] \in {"freed", "unput", "deref"}
    <3>1. HasEntry(r) /\ ~Needs(r) /\ ipc'[r] = ipc[r]
      BY <2>3, <1>4, <1>9, <1>10
    <3>2. ipc[r] \in Stages
      BY <1>1 DEF InodeTypes
    <3> QED BY <3>1, <3>2 DEF HasEntry, Needs, Stages
  <2>4. dinode'[i] = Fresh
    BY <1>5, <1>7
  <2> QED BY <1>2, <1>3, <2>1, <2>2, <2>3, <2>4 DEF Creation
<1>23. BlocksOwned'
  <2>1. \A q \in Callers : ipc[q] = "trunc" => HasEntry(q)
    BY DEF HasEntry
  <2>2. \A q \in Callers : ipc[q] = "trunc" =>
          Inum(q)' = Inum(q) /\ icache'[ip'[q]].d.addrs = icache[ip[q]].d.addrs
    BY <2>1, <1>2, <1>9
  <2>3. \A q \in Callers : ipc'[q] = "trunc" <=> ipc[q] = "trunc"
    BY <1>3, <1>4
  <2>4. \A j \in Inums : dinode'[j].addrs = dinode[j].addrs
    BY <1>6, <1>7, FreeTypes
  <2> QED BY <1>1, <1>2, <2>2, <2>3, <2>4, BlocksFrame
<1> QED BY <1>11, <1>13, <1>14, <1>15, <1>17, <1>18, <1>19, <1>21, <1>22, <1>23 DEF InodeInv
-----------------------------------------------------------------------------
(* Blocks and their owners.                                                *)

\* Inode i has v as its kth address; pointer m of its indirect block is v.
AddrSet(A, A2, i, k, v) ==
  /\ A2[i][k] = v /\ \A l \in 1..(NDIRECT + 1) : l # k => A2[i][l] = A[i][l]
  /\ \A j \in Inums : j # i => A2[j] = A[j]
PtrSet(A, P, P2, i, m, v) ==
  /\ A[i][NDIRECT + 1] # 0 /\ P2[A[i][NDIRECT + 1]][m] = v
  /\ \A l \in 1..NINDIRECT : l # m => P2[A[i][NDIRECT + 1]][l] = P[A[i][NDIRECT + 1]][l]
\* The indirect blocks of the other inodes, or of all, hold what they held.
PtrsKept(A, P, P2, S) ==
  \A j \in S : A[j][NDIRECT + 1] # 0 => P2[A[j][NDIRECT + 1]] = P[A[j][NDIRECT + 1]]
\* The indirect block of i, or v that takes its place, holds nothing.
Hollow(A, P, P2, i, v) ==
  \A j \in 1..NINDIRECT : /\ A[i][NDIRECT + 1] # 0 => P[A[i][NDIRECT + 1]][j] = 0
                          /\ v # 0 => P2[v][j] = 0
\* With v at place k of i: the indirect block of i stays, or goes and comes empty.
IndirectFits(A, P, P2, i, k, v) ==
  \/ k # NDIRECT + 1 /\ PtrsKept(A, P, P2, {i})
  \/ k = NDIRECT + 1 /\ Hollow(A, P, P2, i, v)
\* The only place that changes is s, where v is now.
Moved(A, P, A2, P2, s, v) ==
  s \in Slots /\ At(A2, P2, s) = v /\ \A t \in Slots : t # s => At(A2, P2, t) = At(A, P, t)

\* A block that nobody owns is put in an empty place.
LEMMA Gain ==
  ASSUME NEW A, NEW P, NEW U, NEW A2, NEW P2, NEW s, NEW b \in Blocks, b \notin U,
         OneOwner(A, P, U), At(A, P, s) = 0, Moved(A, P, A2, P2, s, b)
  PROVE  OneOwner(A2, P2, U \cup {b})
<1>0. s \in Slots /\ At(A2, P2, s) = b /\ \A t \in Slots : t # s => At(A2, P2, t) = At(A, P, t)
  BY DEF Moved
<1>1. b # 0
  BY InodeSizes
<1>2. \A t \in Slots : At(A, P, t) # b
  BY DEF OneOwner
<1>3. ASSUME NEW c \in Blocks PROVE c \in U \cup {b} <=> \E t \in Slots : At(A2, P2, t) = c
  <2>1. CASE c = b
    BY <1>0, <2>1
  <2>2. CASE c # b
    <3>1. c # 0
      BY InodeSizes
    <3>2. c \in U <=> \E t \in Slots : At(A, P, t) = c
      BY DEF OneOwner
    <3> QED BY <1>0, <2>2, <3>1, <3>2
  <2> QED BY <2>1, <2>2
<1>4. ASSUME NEW t \in Slots, NEW u \in Slots, At(A2, P2, t) # 0, At(A2, P2, t) = At(A2, P2, u)
      PROVE  t = u
  BY <1>0, <1>2, <1>4 DEF OneOwner
<1> QED BY <1>3, <1>4 DEF OneOwner

\* A block is taken from its place, and the place is empty.
LEMMA Lose ==
  ASSUME NEW A, NEW P, NEW U, NEW A2, NEW P2, NEW s, NEW b \in Blocks,
         OneOwner(A, P, U), At(A, P, s) = b, Moved(A, P, A2, P2, s, 0)
  PROVE  OneOwner(A2, P2, U \ {b}) /\ b \in U
<1>0. s \in Slots /\ At(A2, P2, s) = 0 /\ \A t \in Slots : t # s => At(A2, P2, t) = At(A, P, t)
  BY DEF Moved
<1>1. b # 0
  BY InodeSizes
<1>2. \A t \in Slots : t # s => At(A, P, t) # b
  BY <1>0, <1>1 DEF OneOwner
<1>3. ASSUME NEW c \in Blocks PROVE c \in U \ {b} <=> \E t \in Slots : At(A2, P2, t) = c
  <2>0. c # 0
    BY InodeSizes
  <2>1. CASE c = b
    BY <1>0, <2>0, <2>1, <1>2
  <2>2. CASE c # b
    <3>2. c \in U <=> \E t \in Slots : At(A, P, t) = c
      BY DEF OneOwner
    <3> QED BY <1>0, <2>0, <2>2, <3>2
  <2> QED BY <2>1, <2>2
<1>4. ASSUME NEW t \in Slots, NEW u \in Slots, At(A2, P2, t) # 0, At(A2, P2, t) = At(A2, P2, u)
      PROVE  t = u
  BY <1>0, <1>2, <1>4 DEF OneOwner
<1>5. b \in U
  BY <1>0 DEF OneOwner
<1> QED BY <1>3, <1>4, <1>5 DEF OneOwner

\* An address is written: nothing changes at the other places, if what the
\* indirect blocks hold is kept and one that comes or goes holds nothing.
LEMMA AddrSlot ==
  ASSUME NEW A, NEW P, NEW A2, NEW P2, NEW i \in Inums, NEW k \in 1..(NDIRECT + 1), NEW v,
         AddrSet(A, A2, i, k, v), PtrsKept(A, P, P2, Inums \ {i}), IndirectFits(A, P, P2, i, k, v)
  PROVE  Moved(A, P, A2, P2, <<i, k>>, v) /\ At(A, P, <<i, k>>) = A[i][k]
<1> DEFINE N == NDIRECT + 1
<1>1. N \in Nat /\ N \in 1..N /\ NINDIRECT \in Nat /\ k \in 1..N /\ k \in Nat /\ k <= N
  BY InodeSizes
<1>3. A2[i][k] = v /\ \A l \in 1..N : l # k => A2[i][l] = A[i][l]
  BY DEF AddrSet
<1>4. \A j \in Inums : j # i => A2[j] = A[j]
  BY DEF AddrSet
<1>5. <<i, k>> \in Slots
  BY <1>1 DEF Slots
<1>6. At(A, P, <<i, k>>) = A[i][k] /\ At(A2, P2, <<i, k>>) = v
  BY <1>1, <1>3, <1>4 DEF At
<1>7. ASSUME NEW t \in Slots, t # <<i, k>> PROVE At(A2, P2, t) = At(A, P, t)
  <2>1. PICK j \in Inums, l \in 1..(N + NINDIRECT) : t = <<j, l>>
    BY DEF Slots
  <2>2. At(A, P, t) = IF l <= N THEN A[j][l] ELSE IF A[j][N] = 0 THEN 0 ELSE P[A[j][N]][l - N]
    BY <2>1 DEF At
  <2>3. At(A2, P2, t) = IF l <= N THEN A2[j][l] ELSE IF A2[j][N] = 0 THEN 0 ELSE P2[A2[j][N]][l - N]
    BY <2>1 DEF At
  <2>4. l <= N => l \in 1..N
    BY <1>1
  <2>5. ~(l <= N) => l - N \in 1..NINDIRECT
    BY <1>1
  <2>6. CASE l <= N
    <3>1. A2[j][l] = A[j][l]
      BY <2>1, <2>4, <2>6, <1>3, <1>4, <1>7
    <3> QED BY <2>2, <2>3, <2>6, <3>1
  <2>7. CASE ~(l <= N) /\ (j # i \/ k # N)
    <3>1. A2[j][N] = A[j][N]
      BY <2>7, <1>1, <1>3, <1>4
    <3>2. A[j][N] # 0 => P2[A[j][N]] = P[A[j][N]]
      BY <2>7 DEF PtrsKept, IndirectFits
    <3> HIDE DEF N
    <3> QED BY <2>2, <2>3, <2>7, <3>1, <3>2
  <2>8. CASE ~(l <= N) /\ j = i /\ k = N
    <3>1. A2[j][N] = v
      BY <2>8, <1>3, <1>4
    <3>2. (A[j][N] # 0 => P[A[j][N]][l - N] = 0) /\ (v # 0 => P2[v][l - N] = 0)
      BY <2>5, <2>8 DEF Hollow, IndirectFits
    <3> HIDE DEF N
    <3> QED BY <2>2, <2>3, <2>8, <3>1, <3>2
  <2> QED BY <2>6, <2>7, <2>8
<1> QED BY <1>5, <1>6, <1>7 DEF Moved

\* A pointer in an indirect block is written.
LEMMA PtrSlot ==
  ASSUME NEW A, NEW P, NEW P2, NEW i \in Inums, NEW m \in 1..NINDIRECT, NEW v,
         PtrSet(A, P, P2, i, m, v), PtrsKept(A, P, P2, Inums \ {i})
  PROVE  /\ Moved(A, P, A, P2, <<i, NDIRECT + 1 + m>>, v)
         /\ At(A, P, <<i, NDIRECT + 1 + m>>) = P[A[i][NDIRECT + 1]][m]
<1> DEFINE N == NDIRECT + 1
           b == A[i][N]
<1>1. N \in Nat /\ NINDIRECT \in Nat /\ m \in Nat /\ m > 0 /\ m <= NINDIRECT
  BY InodeSizes
<1>2. N + m \in 1..(N + NINDIRECT) /\ ~(N + m <= N) /\ (N + m) - N = m
  BY <1>1
<1>3. <<i, N + m>> \in Slots
  BY <1>2 DEF Slots
<1>4. b # 0 /\ P2[b][m] = v /\ \A l \in 1..NINDIRECT : l # m => P2[b][l] = P[b][l]
  BY DEF PtrSet
<1>5. At(A, P, <<i, N + m>>) = P[b][m] /\ At(A, P2, <<i, N + m>>) = v
  BY <1>2, <1>4 DEF At
<1>6. ASSUME NEW t \in Slots, t # <<i, N + m>> PROVE At(A, P2, t) = At(A, P, t)
  <2>1. PICK j \in Inums, l \in 1..(N + NINDIRECT) : t = <<j, l>>
    BY DEF Slots
  <2>2. At(A, P, t) = IF l <= N THEN A[j][l] ELSE IF A[j][N] = 0 THEN 0 ELSE P[A[j][N]][l - N]
    BY <2>1 DEF At
  <2>3. At(A, P2, t) = IF l <= N THEN A[j][l] ELSE IF A[j][N] = 0 THEN 0 ELSE P2[A[j][N]][l - N]
    BY <2>1 DEF At
  <2>4. ~(l <= N) => l - N \in 1..NINDIRECT
    BY <1>1
  <2>5. j = i /\ ~(l <= N) => l - N # m
    BY <2>1, <1>1, <1>6
  <2>6. j # i /\ A[j][N] # 0 => P2[A[j][N]] = P[A[j][N]]
    BY DEF PtrsKept
  <2>7. j = i /\ ~(l <= N) => P2[A[j][N]][l - N] = P[A[j][N]][l - N]
    BY <1>4, <2>4, <2>5
  <2> HIDE DEF N, b
  <2> QED BY <2>2, <2>3, <2>6, <2>7
<1> QED BY <1>3, <1>5, <1>6 DEF Moved
-----------------------------------------------------------------------------
(* bmap().                                                                 *)

\* The addresses of an inode that a call holds and does not free.
LEMMA HolderAddrs ==
  ASSUME InodeInv, NEW p \in Callers, ipc[p] = "use", NEW A, IsAddrs(A)
  PROVE  A[Inum(p)] = dinode[Inum(p)].addrs /\ Inum(p) \in Inums
<1>1. Holds(p) /\ HasEntry(p)
  BY DEF Holds, HasEntry
<1>2. \A q \in Callers : ipc[q] = "trunc" => Holds(q) /\ q # p
  BY DEF Holds
<1>3. \A q \in Callers : ipc[q] = "trunc" => Inum(q) # Inum(p)
  BY <1>1, <1>2, OneHolder
<1>4. Inum(p) \in Inums
  BY <1>1, InUse
<1> QED BY <1>3, <1>4 DEF IsAddrs

\* balloc() finds a block that is not in use.
LEMMA BallocFinds ==
  ASSUME InodeTypes, Blocks # bitmap, NEW b, balloc(b)
  PROVE  b \in Blocks /\ b \notin bitmap /\ bitmap' = bitmap \cup {b}
<1>1. bitmap \subseteq Blocks
  BY DEF InodeTypes
<1>2. Blocks \ bitmap \in SUBSET Nat /\ Blocks \ bitmap # {}
  <2>1. Blocks \ bitmap # {}
    BY <1>1
  <2>2. Blocks \in SUBSET Nat
    BY InodeSizes DEF Blocks
  <2> QED BY <2>1, <2>2
<1>3. Min(Blocks \ bitmap) \in Blocks \ bitmap
  BY <1>2, MinIs
<1> QED BY <1>3 DEF balloc

LEMMA NoPtrsIs ==
  NoPtrs \in [1..NINDIRECT -> Blocks \cup {0}] /\ \A j \in 1..NINDIRECT : NoPtrs[j] = 0
BY DEF NoPtrs

\* A block that is not in use is no indirect block.
LEMMA NotIndirect ==
  ASSUME NEW A \in [Inums -> Addresses], NEW P, NEW U, OneOwner(A, P, U), NEW b \in Blocks, b \notin U,
         NEW j \in Inums
  PROVE  A[j][NDIRECT + 1] # b
<1> DEFINE N == NDIRECT + 1
<1>1. N \in Nat /\ N \in 1..(N + NINDIRECT) /\ N <= N
  BY InodeSizes
<1>2. <<j, N>> \in Slots
  BY <1>1 DEF Slots
<1>3. At(A, P, <<j, N>>) = A[j][N]
  BY <1>1 DEF At
<1> QED BY <1>2, <1>3 DEF OneOwner

LEMMA IndirectType ==
  ASSUME NEW A \in [Inums -> Addresses], NEW j \in Inums
  PROVE  A[j][NDIRECT + 1] \in Blocks \cup {0}
BY InodeSizes DEF Addresses

\* An indirect block is of one inode.
LEMMA OneIndirect ==
  ASSUME NEW A \in [Inums -> Addresses], NEW P, NEW U, OneOwner(A, P, U),
         NEW i \in Inums, NEW j \in Inums, A[i][NDIRECT + 1] # 0, A[i][NDIRECT + 1] = A[j][NDIRECT + 1]
  PROVE  i = j
<1> DEFINE N == NDIRECT + 1
<1>1. N \in Nat /\ N \in 1..(N + NINDIRECT) /\ N <= N
  BY InodeSizes
<1>2. <<i, N>> \in Slots /\ <<j, N>> \in Slots
  BY <1>1 DEF Slots
<1>3. At(A, P, <<i, N>>) = A[i][N] /\ At(A, P, <<j, N>>) = A[j][N]
  BY <1>1 DEF At
<1>4. <<i, N>> = <<j, N>>
  BY <1>2, <1>3 DEF OneOwner
<1> QED BY <1>4

\* The block goes to the inode, as a direct one or as its indirect block.
LEMMA GrowKeeps ==
  ASSUME InodeInv, NEW p \in Callers, ipc[p] = "use", NEW b \in Blocks, b \notin bitmap,
         NEW k \in 1..(NDIRECT + 1), icache[ip[p]].d.addrs[k] = 0,
         iupdate(ip[p], [icache[ip[p]].d EXCEPT !.addrs[k] = b]),
         indirect' = [indirect EXCEPT ![b] = NoPtrs], bitmap' = bitmap \cup {b},
         UNCHANGED <<dir, dlock, ipc, iop, name, ip, panic>>
  PROVE  InodeInv'
<1>1. /\ InodeTypes /\ Control /\ Counts /\ Locks /\ Cached /\ Kept /\ Alone /\ Links
      /\ Creation /\ BlocksOwned
  BY DEF InodeInv
<1> DEFINE e == ip[p]
           i == Inum(p)
           a == [dinode[i].addrs EXCEPT ![k] = b]
           d == [dinode[i] EXCEPT !.addrs = a]
<1>2. Others(p) /\ HasEntry(p) /\ Holds(p) /\ UNCHANGED <<dir, dlock, ipc, iop, name, ip, panic>>
  BY DEF Others, HasEntry, Holds
<1>3. e \in Entries /\ i \in Inums /\ icache[e].inum = i /\ icache[e].ref > 0
  BY <1>2, InUse DEF Inum
<1>4. icache[e].d = dinode[i] /\ dinode[i].type = 1
  BY HolderSees
<1>5. icache[e] \in CacheEntries /\ icache \in [Entries -> CacheEntries] /\ dinode \in [Inums -> Dinodes]
      /\ dinode[i] \in Dinodes
  BY <1>1, <1>3, EntryTypes DEF InodeTypes
<1>6. dinode[i].addrs \in Addresses /\ a \in Addresses
  BY <1>5 DEF Dinodes, Addresses
<1>7. [dinode[i] EXCEPT !.addrs[k] = b] = d
  BY <1>5, <1>6 DEF Dinodes, Addresses
<1> HIDE DEF a
<1>8. d \in Dinodes /\ d.type = 1 /\ d.nlink = dinode[i].nlink /\ d.addrs = a
  BY <1>4, <1>5, <1>6 DEF Dinodes
<1>9. icache' = [icache EXCEPT ![e].d = d] /\ dinode' = [dinode EXCEPT ![i] = d]
  BY <1>3, <1>4, <1>7 DEF iupdate
<1> HIDE DEF d
<1>10. /\ icache' \in [Entries -> CacheEntries]
       /\ \A f \in Entries :
            /\ icache'[f].ref = icache[f].ref /\ icache'[f].inum = icache[f].inum
            /\ icache'[f].valid = icache[f].valid /\ icache'[f].lock = icache[f].lock
            /\ f # e => icache'[f] = icache[f]
       /\ icache'[e].d = d
       /\ dinode' \in [Inums -> Dinodes]
       /\ \A j \in Inums : dinode'[j] = IF j = i THEN d ELSE dinode[j]
  BY <1>9, <1>3, <1>5, <1>8 DEF CacheEntries
<1>11. Updated(p, d)
  BY <1>10 DEF Updated
<1>12. /\ Counts' /\ Cached' /\ Kept' /\ Alone'
       /\ \A q \in Callers : (HasEntry(q)' <=> HasEntry(q))
                             /\ (HasEntry(q) => ip[q] \in Entries /\ Inum(q)' = Inum(q))
       /\ \A q \in Callers : q # p /\ Holds(q) => Inum(q) # i /\ ip[q] # e
  BY <1>2, <1>8, <1>11, UpdateFrame
<1>13. Creation'
  BY <1>2, <1>8, <1>11, CreationUpdate
<1> HIDE DEF e, i
<1>14. InodeTypes'
  <2>1. indirect' \in [Blocks -> [1..NINDIRECT -> Blocks \cup {0}]]
    BY <1>1, NoPtrsIs DEF InodeTypes
  <2> QED BY <1>1, <1>2, <1>10, <2>1 DEF InodeTypes
<1>15. Control'
  BY <1>1, <1>2 DEF Control, HasEntry, InDir
<1>16. Locks'
  BY <1>1, <1>2, <1>10 DEF Locks, Holds
<1>17. Links'
  <2>1. \A j \in Inums : dinode'[j].type = dinode[j].type /\ dinode'[j].nlink = dinode[j].nlink
    BY <1>4, <1>8, <1>10 DEF i
  <2>2. \A n \in Names : dir[n] # 0 => dir[n] \in Inums
    BY <1>1 DEF InodeTypes
  <2>3. \A q \in Callers : /\ Unlinking(q)' => Unlinking(q) /\ HasEntry(q)
                           /\ ipc[q] = "unlinked" => HasEntry(q)
    BY <1>2 DEF Unlinking, HasEntry
  <2>4. \A q \in Callers : HasEntry(q) => Inum(q)' = Inum(q) /\ Inum(q) \in Inums
    BY <1>12, InUse
  <2> QED BY <1>1, <1>2, <2>1, <2>2, <2>3, <2>4 DEF Links
<1>18. BlocksOwned'
  <2>1. PICK A \in [Inums -> Addresses] : IsAddrs(A) /\ OneOwner(A, indirect, bitmap)
    BY <1>1 DEF BlocksOwned
  <2>0. PICK A2, P2 : A2 = [A EXCEPT ![i] = a] /\ P2 = indirect'
    OBVIOUS
  <2>2. A[i] = dinode[i].addrs /\ A[i][k] = 0
    BY <1>4, <2>1, HolderAddrs DEF e, i
  <2>3. A2 \in [Inums -> Addresses] /\ A2[i] = a /\ \A j \in Inums : j # i => A2[j] = A[j]
    BY <1>3, <1>6, <2>0, <2>1
  <2>4. PtrsKept(A, indirect, P2, Inums)
    <3>1. \A j \in Inums : A[j][NDIRECT + 1] # b
      BY <2>1, NotIndirect
    <3>2. indirect \in [Blocks -> [1..NINDIRECT -> Blocks \cup {0}]]
      BY <1>1 DEF InodeTypes
    <3>3. \A j \in Inums : A[j][NDIRECT + 1] \in Blocks \cup {0}
      BY <2>1, IndirectType
    <3> QED BY <2>0, <3>1, <3>2, <3>3 DEF PtrsKept
  <2>5. \A j \in 1..NINDIRECT : (A[i][k] # 0 => indirect[A[i][k]][j] = 0) /\ (b # 0 => P2[b][j] = 0)
    <3>1. P2[b] = NoPtrs
      BY <1>1, <2>0 DEF InodeTypes
    <3> QED BY <2>2, <3>1, NoPtrsIs
  <2>6. AddrSet(A, A2, i, k, b)
    <3>1. A[i] \in [1..(NDIRECT + 1) -> Blocks \cup {0}]
      BY <1>3, <2>1 DEF Addresses
    <3>2. A2[i] = [A[i] EXCEPT ![k] = b]
      BY <2>2, <2>3 DEF a
    <3> QED BY <2>3, <3>1, <3>2 DEF AddrSet
  <2>7. Moved(A, indirect, A2, P2, <<i, k>>, b) /\ At(A, indirect, <<i, k>>) = 0
    <3>1. PtrsKept(A, indirect, P2, Inums \ {i}) /\ PtrsKept(A, indirect, P2, {i})
      BY <1>3, <2>4 DEF PtrsKept
    <3>2. Moved(A, indirect, A2, P2, <<i, k>>, b) /\ At(A, indirect, <<i, k>>) = A[i][k]
      <4>1. IndirectFits(A, indirect, P2, i, k, b)
        BY <2>5, <3>1 DEF Hollow, IndirectFits
      <4>2. k \in 1..(NDIRECT + 1) /\ i \in Inums
        BY <1>3
      <4> QED BY ONLY <2>6, <3>1, <4>1, <4>2, AddrSlot
    <3> QED BY <2>2, <3>2
  <2>8. OneOwner(A2, indirect', bitmap')
    <3>1. OneOwner(A2, P2, bitmap \cup {b})
      BY <2>1, <2>7, Gain
    <3> QED BY <2>0, <3>1
  <2>9. ASSUME NEW j \in Inums, \A q \in Callers : ipc'[q] = "trunc" => Inum(q)' # j
        PROVE  A2[j] = dinode'[j].addrs
    <3>1. \A q \in Callers : ipc[q] = "trunc" => Inum(q) # j
      <4>1. \A q \in Callers : ipc[q] = "trunc" => HasEntry(q)
        BY DEF HasEntry
      <4> QED BY <4>1, <2>9, <1>2, <1>12
    <3> QED BY <3>1, <2>1, <2>3, <1>8, <1>10 DEF IsAddrs
  <2>10. ASSUME NEW q \in Callers, ipc'[q] = "trunc" PROVE A2[Inum(q)'] = icache'[ip'[q]].d.addrs
    <3>1. ipc[q] = "trunc" /\ HasEntry(q) /\ Holds(q) /\ q # p
      BY <2>10, <1>2 DEF HasEntry, Holds
    <3>2. Inum(q) # i /\ ip[q] # e /\ Inum(q)' = Inum(q) /\ Inum(q) \in Inums /\ ip[q] \in Entries
      BY <3>1, <1>12, InUse
    <3>3. A[Inum(q)] = icache[ip[q]].d.addrs
      BY <3>1, <2>1 DEF IsAddrs
    <3> QED BY <3>2, <3>3, <2>3, <1>2, <1>10
  <2>11. IsAddrs(A2)'
    BY <2>3, <2>9, <2>10 DEF IsAddrs
  <2> QED BY <2>3, <2>8, <2>11 DEF BlocksOwned
<1> QED BY <1>12, <1>13, <1>14, <1>15, <1>16, <1>17, <1>18 DEF InodeInv

\* Only blocks change.
LEMMA RestFrame ==
  ASSUME InodeInv, UNCHANGED <<dinode, icache, dir, dlock, ipc, iop, name, ip>>
  PROVE  Control' /\ Counts' /\ Locks' /\ Cached' /\ Kept' /\ Alone' /\ Links' /\ Creation'
         /\ \A A : IsAddrs(A)' <=> IsAddrs(A)
<1>1. Control /\ Counts /\ Locks /\ Cached /\ Kept /\ Alone /\ Links /\ Creation
  BY DEF InodeInv
<1>2. Control'
  BY <1>1 DEF Control, HasEntry, InDir
<1>3. Counts'
  BY <1>1 DEF Counts, Users
<1>4. Locks'
  BY <1>1 DEF Locks, Holds
<1>5. Cached'
  BY <1>1 DEF Cached, Frees, Knows
<1>6. Kept'
  BY <1>1 DEF Kept, Needs, Inum
<1>7. Alone'
  BY <1>1 DEF Alone, HasEntry
<1>8. Links'
  BY <1>1 DEF Links, Unlinking, Inum
<1>9. Creation'
  BY <1>1 DEF Creation, Making, Made, HasEntry, Inum
<1>10. \A A : IsAddrs(A)' <=> IsAddrs(A)
  BY DEF IsAddrs, Inum
<1> QED BY <1>2, <1>3, <1>4, <1>5, <1>6, <1>7, <1>8, <1>9, <1>10

\* The block goes to the indirect block.
LEMMA PointKeeps ==
  ASSUME InodeInv, NEW p \in Callers, ipc[p] = "use", NEW b \in Blocks, b \notin bitmap,
         NEW m \in 1..NINDIRECT, NEW ind, ind = icache[ip[p]].d.addrs[NDIRECT + 1], ind # 0,
         indirect[ind][m] = 0, indirect' = [indirect EXCEPT ![b] = NoPtrs, ![ind][m] = b],
         bitmap' = bitmap \cup {b},
         UNCHANGED <<icache, dinode, dir, dlock, ipc, iop, name, ip, panic>>
  PROVE  InodeInv'
<1>1. InodeTypes /\ BlocksOwned
  BY DEF InodeInv
<1> DEFINE i == Inum(p)
           N == NDIRECT + 1
<1>2. PICK A \in [Inums -> Addresses] : IsAddrs(A) /\ OneOwner(A, indirect, bitmap)
  BY <1>1 DEF BlocksOwned
<1>3. A[i] = dinode[i].addrs /\ i \in Inums /\ icache[ip[p]].d = dinode[i]
  BY <1>2, HolderAddrs, HolderSees
<1>4. A[i][N] = ind
  BY <1>3
<1>5. \A j \in Inums : A[j][N] \in Blocks \cup {0}
  BY <1>2, IndirectType
<1>6. ind \in Blocks /\ ind # b
  <2>1. A[i][N] # b
    BY <1>2, <1>3, NotIndirect
  <2>2. A[i][N] \in Blocks \cup {0}
    BY <1>3, <1>5
  <2> QED BY <1>4, <2>1, <2>2
<1>7. indirect \in [Blocks -> [1..NINDIRECT -> Blocks \cup {0}]]
  BY <1>1 DEF InodeTypes
<1> HIDE DEF i
<1>8. /\ indirect' \in [Blocks -> [1..NINDIRECT -> Blocks \cup {0}]]
      /\ indirect'[ind] = [indirect[ind] EXCEPT ![m] = b]
      /\ \A c \in Blocks : c # b /\ c # ind => indirect'[c] = indirect[c]
  <2>1. [indirect[ind] EXCEPT ![m] = b] \in [1..NINDIRECT -> Blocks \cup {0}]
    BY <1>6, <1>7
  <2>2. indirect' = [[indirect EXCEPT ![b] = NoPtrs] EXCEPT ![ind] = [indirect[ind] EXCEPT ![m] = b]]
    BY <1>6, <1>7
  <2> DEFINE g == [indirect[ind] EXCEPT ![m] = b]
             h == [indirect EXCEPT ![b] = NoPtrs]
  <2>3. h \in [Blocks -> [1..NINDIRECT -> Blocks \cup {0}]] /\ \A c \in Blocks : c # b => h[c] = indirect[c]
    BY <1>7, NoPtrsIs
  <2>4. g \in [1..NINDIRECT -> Blocks \cup {0}] /\ indirect' = [h EXCEPT ![ind] = g]
    BY <2>1, <2>2
  <2> HIDE DEF g, h
  <2>5. indirect' \in [Blocks -> [1..NINDIRECT -> Blocks \cup {0}]]
    BY ONLY <1>6, <2>3, <2>4
  <2>6. indirect'[ind] = g
    BY ONLY <1>6, <2>3, <2>4
  <2>7. \A c \in Blocks : c # b /\ c # ind => indirect'[c] = indirect[c]
    BY ONLY <1>6, <2>3, <2>4
  <2> QED BY <2>5, <2>6, <2>7 DEF g
<1>0. PICK P2 : P2 = indirect'
  OBVIOUS
<1>9. PtrsKept(A, indirect, P2, Inums \ {i})
  <2>1. \A j \in Inums : A[j][N] # b
    BY <1>2, NotIndirect
  <2>2. \A j \in Inums : j # i => A[j][N] # ind
    BY <1>2, <1>3, <1>4, OneIndirect
  <2> QED BY <1>0, <1>5, <1>8, <2>1, <2>2 DEF PtrsKept
<1>10. Moved(A, indirect, A, P2, <<i, N + m>>, b) /\ At(A, indirect, <<i, N + m>>) = 0
  <2>1. indirect[ind] \in [1..NINDIRECT -> Blocks \cup {0}] /\ P2[ind] = [indirect[ind] EXCEPT ![m] = b]
    BY <1>0, <1>6, <1>7, <1>8
  <2>2. PtrSet(A, indirect, P2, i, m, b)
    BY <1>4, <2>1 DEF PtrSet
  <2>3. Moved(A, indirect, A, P2, <<i, N + m>>, b) /\ At(A, indirect, <<i, N + m>>) = indirect[A[i][N]][m]
    BY <1>3, <1>9, <2>2, PtrSlot, ZenonT(40)
  <2> QED BY <1>4, <2>3
<1>11. OneOwner(A, indirect', bitmap')
  <2>1. OneOwner(A, P2, bitmap \cup {b})
    BY <1>2, <1>10, Gain
  <2> QED BY <1>0, <2>1
<1>12. Control' /\ Counts' /\ Locks' /\ Cached' /\ Kept' /\ Alone' /\ Links' /\ Creation' /\ IsAddrs(A)'
  BY <1>2, RestFrame
<1>13. InodeTypes'
  BY <1>1, <1>8 DEF InodeTypes
<1>14. BlocksOwned'
  BY <1>2, <1>11, <1>12 DEF BlocksOwned
<1> QED BY <1>12, <1>13, <1>14 DEF InodeInv

LEMMA BmapKeeps ==
  ASSUME InodeInv, NEW p \in Callers, bmap(p), Blocks # bitmap
  PROVE  InodeInv'
<1> DEFINE d == icache[ip[p]].d
           unset == {i \in 1..NDIRECT : d.addrs[i] = 0}
           ind == d.addrs[NDIRECT + 1]
<1>1. InodeTypes
  BY DEF InodeInv
<1>2. ipc[p] = "use" /\ UNCHANGED <<dir, dlock, ipc, iop, name, ip, panic>>
  BY DEF bmap
<1>3. PICK b \in Blocks :
        /\ balloc(b)
        /\ \/ /\ unset # {}
              /\ iupdate(ip[p], [d EXCEPT !.addrs[Min(unset)] = b])
              /\ indirect' = [indirect EXCEPT ![b] = NoPtrs]
           \/ /\ unset = {} /\ ind = 0
              /\ iupdate(ip[p], [d EXCEPT !.addrs[NDIRECT + 1] = b])
              /\ indirect' = [indirect EXCEPT ![b] = NoPtrs]
           \/ /\ unset = {} /\ ind # 0
              /\ \E j \in 1..NINDIRECT :
                   /\ indirect[ind][j] = 0
                   /\ \A i \in 1..(j - 1) : indirect[ind][i] # 0
                   /\ indirect' = [indirect EXCEPT ![b] = NoPtrs, ![ind][j] = b]
              /\ UNCHANGED <<icache, dinode>>
  BY DEF bmap
<1>4. b \in Blocks /\ b \notin bitmap /\ bitmap' = bitmap \cup {b}
  BY <1>1, <1>2, <1>3, BallocFinds
<1>5. NDIRECT + 1 \in 1..(NDIRECT + 1)
  BY InodeSizes
<1>6. CASE unset # {}
  <2>1. unset \in SUBSET Nat
    BY InodeSizes
  <2>2. Min(unset) \in unset
    BY <1>6, <2>1, MinIs
  <2>3. Min(unset) \in 1..(NDIRECT + 1) /\ d.addrs[Min(unset)] = 0
    BY <2>2, InodeSizes
  <2> QED BY <1>2, <1>3, <1>4, <1>6, <2>3, GrowKeeps
<1>7. CASE unset = {} /\ ind = 0
  BY <1>2, <1>3, <1>4, <1>5, <1>7, GrowKeeps
<1>8. CASE unset = {} /\ ind # 0
  <2>1. PICK j \in 1..NINDIRECT :
          indirect[ind][j] = 0 /\ indirect' = [indirect EXCEPT ![b] = NoPtrs, ![ind][j] = b]
    BY <1>3, <1>8
  <2>2. UNCHANGED <<icache, dinode>>
    BY <1>3, <1>8
  <2> QED BY <1>2, <1>4, <1>8, <2>1, <2>2, PointKeeps
<1> QED BY <1>6, <1>7, <1>8
-----------------------------------------------------------------------------
(* itrunc().                                                               *)

\* While itrunc() runs, the entry has the inode's addresses.
LEMMA TruncAddrs ==
  ASSUME InodeInv, NEW p \in Callers, ipc[p] = "trunc"
  PROVE  /\ HasEntry(p) /\ Holds(p) /\ ip[p] \in Entries /\ Inum(p) \in Inums /\ Inum(p) # 0
         /\ icache[ip[p]].inum = Inum(p) /\ icache[ip[p]].ref > 0
         /\ icache[ip[p]] \in CacheEntries /\ icache[ip[p]].d \in Dinodes
         /\ icache[ip[p]].d.addrs \in Addresses
         /\ \A q \in Callers : q # p /\ HasEntry(q) => Inum(q) # Inum(p) /\ ip[q] # ip[p]
         /\ \A q \in Callers : Holds(q) => HasEntry(q)
<1>1. HasEntry(p) /\ Holds(p) /\ \A q \in Callers : Holds(q) => HasEntry(q)
  BY DEF HasEntry, Holds
<1>2. ip[p] \in Entries /\ Inum(p) \in Inums /\ Inum(p) # 0 /\ icache[ip[p]].ref > 0
  BY <1>1, InUse
<1>3. icache[ip[p]] \in CacheEntries /\ icache[ip[p]].d \in Dinodes /\ icache[ip[p]].d.addrs \in Addresses
  BY <1>2, EntryTypes, DinodeTypes DEF InodeInv
<1>4. \A q \in Callers : q # p /\ HasEntry(q) => ip[q] # ip[p]
  BY DEF InodeInv, Alone
<1>5. \A q \in Callers : q # p /\ HasEntry(q) => Inum(q) # Inum(p)
  BY <1>1, <1>4, SameEntry
<1> QED BY <1>1, <1>2, <1>3, <1>4, <1>5 DEF Inum

\* Only the addresses in the entry of an inode that is being freed, and blocks,
\* change.
LEMMA TruncFrame ==
  ASSUME InodeInv, NEW p \in Callers, ipc[p] = "trunc", NEW a \in Addresses,
         icache' = [icache EXCEPT ![ip[p]].d.addrs = a],
         UNCHANGED <<dinode, dir, dlock, ipc, iop, name, ip>>
  PROVE  /\ icache' \in [Entries -> CacheEntries]
         /\ Control' /\ Counts' /\ Locks' /\ Cached' /\ Kept' /\ Alone' /\ Links' /\ Creation'
         /\ \A A, A2 : IsAddrs(A) /\ A2 = [A EXCEPT ![Inum(p)] = a] =>
              IsAddrs(A2)' /\ A2 \in [Inums -> Addresses]
<1>1. InodeTypes /\ Control /\ Counts /\ Locks /\ Cached /\ Kept /\ Alone /\ Links /\ Creation
  BY DEF InodeInv
<1> DEFINE e == ip[p]
           i == Inum(p)
<1>2. /\ HasEntry(p) /\ Holds(p) /\ e \in Entries /\ i \in Inums
      /\ icache[e].inum = i /\ icache[e].ref > 0
      /\ icache[e] \in CacheEntries /\ icache[e].d \in Dinodes
      /\ \A q \in Callers : q # p /\ HasEntry(q) => Inum(q) # i /\ ip[q] # e
      /\ \A q \in Callers : Holds(q) => HasEntry(q)
  BY TruncAddrs
<1>3. icache \in [Entries -> CacheEntries]
  BY <1>1 DEF InodeTypes
<1>4. /\ icache' \in [Entries -> CacheEntries] /\ icache'[e].d.addrs = a
      /\ \A f \in Entries :
           /\ icache'[f].ref = icache[f].ref /\ icache'[f].inum = icache[f].inum
           /\ icache'[f].valid = icache[f].valid /\ icache'[f].lock = icache[f].lock
           /\ f # e => icache'[f] = icache[f]
  <2>1. [icache[e].d EXCEPT !.addrs = a] \in Dinodes /\ [icache[e].d EXCEPT !.addrs = a].addrs = a
    BY <1>2 DEF Dinodes
  <2>2. icache' = [icache EXCEPT ![e].d = [icache[e].d EXCEPT !.addrs = a]]
    BY <1>2, <1>3
  <2> DEFINE d == [icache[e].d EXCEPT !.addrs = a]
  <2>3. d \in Dinodes /\ d.addrs = a /\ icache' = [icache EXCEPT ![e].d = d]
    BY <2>1, <2>2
  <2>4. e \in Entries /\ icache[e] \in CacheEntries /\ icache \in [Entries -> CacheEntries]
    BY <1>2, <1>3
  <2> HIDE DEF d, e
  <2> QED BY ONLY <2>3, <2>4 DEF CacheEntries
<1>5. \A q \in Callers : HasEntry(q) => ip[q] \in Entries /\ Inum(q) \in Inums /\ Inum(q)' = Inum(q)
  BY <1>4, InUse DEF Inum
<1> HIDE DEF e, i
<1>6. UNCHANGED <<dinode, dir, dlock, ipc, iop, name, ip>> /\ ip[p] = e /\ Inum(p) = i /\ ipc[p] = "trunc"
  BY DEF e, i
<1>7. Control'
  BY <1>1, <1>6 DEF Control, HasEntry, InDir
<1>8. Counts'
  BY <1>1, <1>4, <1>6, CountsFrame
<1>9. Locks'
  BY <1>1, <1>4, <1>6 DEF Locks, Holds
<1>10. Cached'
  <2>1. ASSUME NEW f \in Entries, icache'[f].ref > 0, icache'[f].valid,
               \A q \in Callers : Frees(q)' => ip'[q] # f
        PROVE  icache'[f].d = dinode'[icache'[f].inum] /\ icache'[f].d.type = 1
    <3>1. f # e /\ \A q \in Callers : Frees(q) => ip[q] # f
      BY <2>1, <1>6 DEF Frees
    <3> QED BY <2>1, <3>1, <1>1, <1>4, <1>6 DEF Cached
  <2>2. \A q \in Callers : Knows(q)' => Knows(q) /\ HasEntry(q)
    BY <1>6 DEF Knows, HasEntry
  <2> QED BY <1>1, <1>4, <1>5, <1>6, <2>1, <2>2 DEF Cached
<1>11. Kept'
  <2>1. \A q \in Callers : Needs(q)' => Needs(q) /\ HasEntry(q)
    BY <1>6 DEF Needs, HasEntry
  <2>2. \A q \in Callers : /\ ipc'[q] = "trunc" => ipc[q] = "trunc" /\ HasEntry(q)
                           /\ ipc'[q] = "freed" => ipc[q] = "freed" /\ HasEntry(q) /\ ip[q] # e
    BY <1>2, <1>6 DEF HasEntry
  <2> QED BY <1>1, <1>4, <1>5, <1>6, <2>1, <2>2 DEF Kept
<1>12. Alone'
  BY <1>1, <1>6 DEF Alone, HasEntry
<1>13. Links'
  <2>1. \A q \in Callers : (Unlinking(q)' => Unlinking(q) /\ HasEntry(q)) /\ (ipc[q] = "unlinked" => HasEntry(q))
    BY <1>6 DEF Unlinking, HasEntry
  <2> QED BY <1>1, <1>5, <1>6, <2>1 DEF Links
<1>14. Creation'
  <2> SUFFICES ASSUME NEW q \in Callers, Making(q)'
               PROVE  /\ dir'[name'[q]] = 0 /\ dinode'[Made(q)'] = Fresh
                      /\ \A r \in Callers : r # q /\ HasEntry(r)' /\ Inum(r)' = Made(q)' =>
                           ipc'[r] \in {"freed", "unput", "deref"}
    BY DEF Creation
  <2>1. Making(q) /\ Made(q)' = Made(q)
    BY <1>5, <1>6 DEF Making, Made, HasEntry
  <2>2. \A r \in Callers : HasEntry(r)' => HasEntry(r) /\ Inum(r)' = Inum(r)
    BY <1>5, <1>6 DEF HasEntry
  <2> QED BY <2>1, <2>2, <1>1, <1>6 DEF Creation
<1>15. ASSUME NEW A, NEW A2, IsAddrs(A), A2 = [A EXCEPT ![i] = a]
       PROVE  IsAddrs(A2)' /\ A2 \in [Inums -> Addresses]
  <2>1. A \in [Inums -> Addresses]
    BY <1>15 DEF IsAddrs
  <2>2. A2 \in [Inums -> Addresses] /\ A2[i] = a /\ \A j \in Inums : j # i => A2[j] = A[j]
    BY <1>2, <1>15, <2>1
  <2>3. \A q \in Callers : ipc[q] = "trunc" => HasEntry(q)
    BY DEF HasEntry
  <2>4. ASSUME NEW j \in Inums, \A q \in Callers : ipc'[q] = "trunc" => Inum(q)' # j
        PROVE  A2[j] = dinode'[j].addrs
    <3>1. \A q \in Callers : ipc[q] = "trunc" => Inum(q) # j
      BY <2>3, <2>4, <1>5, <1>6
    <3> QED BY <3>1, <2>2, <1>6, <1>15 DEF IsAddrs
  <2>5. ASSUME NEW q \in Callers, ipc'[q] = "trunc" PROVE A2[Inum(q)'] = icache'[ip'[q]].d.addrs
    <3>1. ipc[q] = "trunc" /\ HasEntry(q) /\ Inum(q)' = Inum(q) /\ Inum(q) \in Inums /\ ip[q] \in Entries
      BY <2>3, <2>5, <1>5, <1>6
    <3>2. CASE q = p
      BY <3>1, <3>2, <2>2, <1>4, <1>6
    <3>3. CASE q # p
      BY <3>1, <3>3, <2>2, <1>2, <1>4, <1>6, <1>15 DEF IsAddrs
    <3> QED BY <3>2, <3>3
  <2> QED BY <2>2, <2>4, <2>5 DEF IsAddrs
<1> QED BY <1>4, <1>7, <1>8, <1>9, <1>10, <1>11, <1>12, <1>13, <1>14, <1>15 DEF i

\* A block is taken from the inode: it was in use, and is of nobody now.
LEMMA ShrinkKeeps ==
  ASSUME InodeInv, NEW p \in Callers, ipc[p] = "trunc", NEW k \in 1..(NDIRECT + 1),
         icache[ip[p]].d.addrs[k] # 0, bfree(icache[ip[p]].d.addrs[k]),
         k = NDIRECT + 1 => \A j \in 1..NINDIRECT : indirect[icache[ip[p]].d.addrs[k]][j] = 0,
         icache' = [icache EXCEPT ![ip[p]].d.addrs[k] = 0],
         UNCHANGED <<indirect, dinode, dir, dlock, ipc, iop, name, ip>>
  PROVE  InodeInv'
<1>1. InodeTypes /\ BlocksOwned
  BY DEF InodeInv
<1> DEFINE e == ip[p]
           i == Inum(p)
<1>2. /\ e \in Entries /\ i \in Inums /\ icache[e] \in CacheEntries /\ icache[e].d \in Dinodes
      /\ icache[e].d.addrs \in Addresses
  BY TruncAddrs
<1>3. PICK a, b : a = [icache[e].d.addrs EXCEPT ![k] = 0] /\ b = icache[e].d.addrs[k]
  OBVIOUS
<1>4. a \in Addresses /\ a[k] = 0 /\ (\A l \in 1..(NDIRECT + 1) : l # k => a[l] = icache[e].d.addrs[l])
  BY <1>2, <1>3 DEF Addresses
<1>5. b \in Blocks
  BY <1>2, <1>3 DEF Addresses
<1>6. icache' = [icache EXCEPT ![e].d.addrs = a]
  BY <1>3
<1>7. PICK A \in [Inums -> Addresses] : IsAddrs(A) /\ OneOwner(A, indirect, bitmap)
  BY <1>1 DEF BlocksOwned
<1>8. PICK A2 : A2 = [A EXCEPT ![i] = a]
  OBVIOUS
<1>9. /\ icache' \in [Entries -> CacheEntries]
      /\ Control' /\ Counts' /\ Locks' /\ Cached' /\ Kept' /\ Alone' /\ Links' /\ Creation'
      /\ IsAddrs(A2)' /\ A2 \in [Inums -> Addresses]
  BY <1>4, <1>6, <1>7, <1>8, TruncFrame, ZenonT(40)
<1>10. A[i] = icache[e].d.addrs
  BY <1>7 DEF IsAddrs
<1>11. AddrSet(A, A2, i, k, 0)
  BY <1>2, <1>4, <1>7, <1>8, <1>10 DEF AddrSet
<1>12. PtrsKept(A, indirect, indirect, Inums \ {i}) /\ PtrsKept(A, indirect, indirect, {i})
  BY DEF PtrsKept
<1>13. IndirectFits(A, indirect, indirect, i, k, 0)
  BY <1>10, <1>12 DEF Hollow, IndirectFits
<1>14. Moved(A, indirect, A2, indirect, <<i, k>>, 0) /\ At(A, indirect, <<i, k>>) = A[i][k]
  BY <1>2, <1>11, <1>12, <1>13, AddrSlot, ZenonT(40)
<1>15. At(A, indirect, <<i, k>>) = b
  BY <1>3, <1>10, <1>14
<1>16. OneOwner(A2, indirect, bitmap \ {b}) /\ b \in bitmap
  BY <1>5, <1>7, <1>14, <1>15, Lose
<1>17. bitmap' = bitmap \ {b} /\ panic' = panic
  BY <1>3, <1>16 DEF bfree
<1>18. InodeTypes'
  BY <1>1, <1>9, <1>17 DEF InodeTypes
<1>19. BlocksOwned'
  BY <1>9, <1>16, <1>17 DEF BlocksOwned
<1> QED BY <1>9, <1>18, <1>19 DEF InodeInv

\* A block is taken from the indirect block.
LEMMA UnpointKeeps ==
  ASSUME InodeInv, NEW p \in Callers, ipc[p] = "trunc", NEW m \in 1..NINDIRECT,
         NEW ind, ind = icache[ip[p]].d.addrs[NDIRECT + 1], ind # 0, indirect[ind][m] # 0,
         bfree(indirect[ind][m]), indirect' = [indirect EXCEPT ![ind][m] = 0],
         UNCHANGED <<icache, dinode, dir, dlock, ipc, iop, name, ip>>
  PROVE  InodeInv'
<1>1. InodeTypes /\ BlocksOwned
  BY DEF InodeInv
<1> DEFINE e == ip[p]
           i == Inum(p)
           N == NDIRECT + 1
<1>2. e \in Entries /\ i \in Inums /\ icache[e].d.addrs \in Addresses
  BY TruncAddrs
<1>3. PICK A \in [Inums -> Addresses] : IsAddrs(A) /\ OneOwner(A, indirect, bitmap)
  BY <1>1 DEF BlocksOwned
<1>4. A[i] = icache[e].d.addrs /\ A[i][N] = ind
  BY <1>3 DEF IsAddrs
<1>5. \A j \in Inums : A[j][N] \in Blocks \cup {0}
  BY <1>3, IndirectType
<1>6. ind \in Blocks
  BY <1>2, <1>4, <1>5
<1>7. indirect \in [Blocks -> [1..NINDIRECT -> Blocks \cup {0}]] /\ indirect[ind] \in [1..NINDIRECT -> Blocks \cup {0}]
  BY <1>1, <1>6 DEF InodeTypes
<1>8. PICK b, P2 : b = indirect[ind][m] /\ P2 = indirect'
  OBVIOUS
<1>9. b \in Blocks
  BY <1>7, <1>8
<1> HIDE DEF i, e
<1>10. /\ P2 \in [Blocks -> [1..NINDIRECT -> Blocks \cup {0}]]
       /\ P2[ind] = [indirect[ind] EXCEPT ![m] = 0]
       /\ \A c \in Blocks : c # ind => P2[c] = indirect[c]
  BY <1>6, <1>7, <1>8
<1>11. PtrsKept(A, indirect, P2, Inums \ {i})
  <2>1. \A j \in Inums : j # i => A[j][N] # ind
    BY <1>2, <1>3, <1>4, OneIndirect
  <2> QED BY <1>5, <1>10, <2>1 DEF PtrsKept
<1>12. PtrSet(A, indirect, P2, i, m, 0)
  BY <1>4, <1>7, <1>10 DEF PtrSet
<1>13. Moved(A, indirect, A, P2, <<i, N + m>>, 0) /\ At(A, indirect, <<i, N + m>>) = indirect[A[i][N]][m]
  <2>1. i \in Inums /\ m \in 1..NINDIRECT
    BY <1>2
  <2> QED BY <2>1, <1>11, <1>12, PtrSlot, ZenonT(40)
<1>14. At(A, indirect, <<i, N + m>>) = b
  BY <1>4, <1>8, <1>13
<1>15. OneOwner(A, P2, bitmap \ {b}) /\ b \in bitmap
  BY <1>3, <1>9, <1>13, <1>14, Lose
<1>16. bitmap' = bitmap \ {b} /\ panic' = panic
  BY <1>8, <1>15 DEF bfree
<1>17. Control' /\ Counts' /\ Locks' /\ Cached' /\ Kept' /\ Alone' /\ Links' /\ Creation' /\ IsAddrs(A)'
  BY <1>3, RestFrame
<1>18. InodeTypes'
  BY <1>1, <1>8, <1>10, <1>16 DEF InodeTypes
<1>19. BlocksOwned'
  BY <1>3, <1>8, <1>15, <1>16, <1>17 DEF BlocksOwned
<1> QED BY <1>17, <1>18, <1>19 DEF InodeInv

\* An inode that owns nothing is free on the disk.
LEMMA EmptyKeeps ==
  ASSUME InodeInv, NEW p \in Callers, ipc[p] = "trunc", Owned(icache[ip[p]].d) = {},
         iupdate(ip[p], FreeInode), Goto(p, "freed"),
         UNCHANGED <<bitmap, indirect, dir, dlock, iop, name, ip, panic>>
  PROVE  InodeInv'
<1>1. InodeTypes /\ Control /\ Counts /\ Locks /\ Cached /\ Kept /\ Alone /\ Links /\ Creation
      /\ BlocksOwned
  BY DEF InodeInv
<1> DEFINE e == ip[p]
           i == Inum(p)
<1>2. /\ HasEntry(p) /\ Holds(p) /\ e \in Entries /\ i \in Inums /\ i # 0
      /\ icache[e].inum = i /\ icache[e].ref > 0
      /\ icache[e] \in CacheEntries /\ icache[e].d.addrs \in Addresses
      /\ \A q \in Callers : q # p /\ HasEntry(q) => Inum(q) # i /\ ip[q] # e
      /\ \A q \in Callers : Holds(q) => HasEntry(q)
  BY TruncAddrs
<1>3. icache \in [Entries -> CacheEntries] /\ dinode \in [Inums -> Dinodes]
  BY <1>1 DEF InodeTypes
<1>4. icache[e].d.addrs = NoAddrs
  <2>1. Nonzero(icache[e].d.addrs) = {}
    BY DEF Owned
  <2>2. \A k \in 1..(NDIRECT + 1) : icache[e].d.addrs[k] = 0
    BY <1>2, <2>1 DEF Nonzero, Addresses
  <2> QED BY <1>2, <2>2 DEF NoAddrs, Addresses
<1>5. icache' = [icache EXCEPT ![e].d = FreeInode] /\ dinode' = [dinode EXCEPT ![i] = FreeInode]
  BY <1>2 DEF iupdate
<1>6. /\ icache' \in [Entries -> CacheEntries] /\ icache'[e].d = FreeInode
      /\ \A f \in Entries :
           /\ icache'[f].ref = icache[f].ref /\ icache'[f].inum = icache[f].inum
           /\ icache'[f].valid = icache[f].valid /\ icache'[f].lock = icache[f].lock
           /\ f # e => icache'[f] = icache[f]
      /\ dinode' \in [Inums -> Dinodes]
      /\ \A j \in Inums : dinode'[j] = IF j = i THEN FreeInode ELSE dinode[j]
  BY <1>2, <1>3, <1>5, FreeTypes DEF CacheEntries
<1>7. \A q \in Callers : HasEntry(q) => ip[q] \in Entries /\ Inum(q) \in Inums /\ Inum(q)' = Inum(q)
  BY <1>6, InUse DEF Inum
<1> HIDE DEF e, i
<1>8. UNCHANGED <<bitmap, indirect, dir, dlock, iop, name, ip, panic>> /\ ip[p] = e /\ Inum(p) = i
  BY DEF e, i
<1>9. /\ ipc[p] = "trunc" /\ ipc'[p] = "freed" /\ ipc' \in [Callers -> Stages]
      /\ \A q \in Callers : q # p => ipc'[q] = ipc[q]
  BY <1>1 DEF InodeTypes, Goto, Stages
<1>10. \A q \in Callers : HasEntry(q)' <=> HasEntry(q)
  BY <1>9 DEF HasEntry
<1>11. InodeTypes'
  BY <1>1, <1>6, <1>8, <1>9 DEF InodeTypes
<1>12. Control'
  <2>1. \A q \in Callers : InDir(q)' <=> InDir(q)
    BY <1>8, <1>9 DEF InDir
  <2> QED BY <1>1, <1>8, <1>9, <1>10, <2>1 DEF Control
<1>13. Counts'
  BY <1>1, <1>6, <1>8, <1>9, CountsFrame
<1>14. Locks'
  <2>1. \A q \in Callers : Holds(q)' <=> Holds(q)
    BY <1>9 DEF Holds
  <2> QED BY <1>1, <1>6, <1>8, <2>1 DEF Locks
<1>15. Cached'
  <2>1. ASSUME NEW f \in Entries, icache'[f].ref > 0, icache'[f].valid,
               \A q \in Callers : Frees(q)' => ip'[q] # f
        PROVE  icache'[f].d = dinode'[icache'[f].inum] /\ icache'[f].d.type = 1
    <3>1. Frees(p)' /\ \A q \in Callers : Frees(q)' <=> Frees(q)
      BY <1>9 DEF Frees
    <3>2. f # e /\ \A q \in Callers : Frees(q) => ip[q] # f
      BY <2>1, <3>1, <1>8
    <3>3. icache[f].inum # i /\ icache[f].inum \in Inums
      BY <2>1, <3>2, <1>1, <1>2, <1>6 DEF Counts
    <3>4. icache[f].d = dinode[icache[f].inum] /\ icache[f].d.type = 1
      BY <2>1, <3>2, <1>1, <1>6 DEF Cached
    <3> QED BY <3>2, <3>3, <3>4, <1>6
  <2>2. \A q \in Callers : Knows(q)' => Knows(q) /\ HasEntry(q)
    BY <1>9 DEF Knows, HasEntry
  <2> QED BY <1>1, <1>6, <1>7, <1>8, <2>1, <2>2 DEF Cached
<1>16. Kept'
  <2>1. \A q \in Callers : Needs(q)' => Needs(q) /\ HasEntry(q) /\ q # p
    BY <1>9 DEF Needs, HasEntry
  <2>2. \A q \in Callers : /\ ipc'[q] = "trunc" => ipc[q] = "trunc" /\ HasEntry(q) /\ q # p
                           /\ ipc'[q] = "freed" /\ q # p => ipc[q] = "freed" /\ HasEntry(q)
    BY <1>9 DEF HasEntry
  <2>3. \A j \in Inums : dinode'[j].type = 0 => dinode'[j] = FreeInode
    BY <1>1, <1>6 DEF Kept
  <2>4. \A q \in Callers : Needs(q)' => dinode'[Inum(q)'].type = 1
    BY <1>1, <1>2, <1>6, <1>7, <2>1 DEF Kept
  <2>5. \A q \in Callers : ipc'[q] = "trunc" => dinode'[Inum(q)'].nlink = 0
    BY <1>1, <1>2, <1>6, <1>7, <2>2 DEF Kept
  <2>6. ASSUME NEW q \in Callers, ipc'[q] = "freed"
        PROVE  /\ icache'[ip'[q]].d = FreeInode
               /\ dinode'[Inum(q)'].nlink = 0 /\ dinode'[Inum(q)'].addrs = NoAddrs
    <3>1. CASE q = p
      <4>1. Inum(p)' = i /\ ip'[p] = e
        BY <1>2, <1>7, <1>8
      <4> QED BY <3>1, <4>1, <1>2, <1>6, FreeTypes
    <3>2. CASE q # p
      <4>1. ipc[q] = "freed" /\ HasEntry(q) /\ Inum(q) # i /\ ip[q] # e
        BY <2>2, <2>6, <3>2, <1>2
      <4>2. icache'[ip'[q]] = icache[ip[q]] /\ Inum(q)' = Inum(q) /\ dinode'[Inum(q)] = dinode[Inum(q)]
        BY <4>1, <1>6, <1>7, <1>8
      <4> QED BY <4>1, <4>2, <1>1 DEF Kept
    <3> QED BY <3>1, <3>2
  <2> QED BY <2>3, <2>4, <2>5, <2>6 DEF Kept
<1>17. Alone'
  <2> SUFFICES ASSUME NEW q \in Callers, NEW r \in Callers, q # r, HasEntry(r)', ip'[r] = ip'[q]
               PROVE  /\ ipc'[q] # "trunc"
                      /\ ipc'[q] = "freed" => ipc'[r] = "ilock" /\ iop'[r] = "create"
    BY DEF Alone
  <2>1. HasEntry(r) /\ ip[r] = ip[q]
    BY <1>8, <1>10
  <2>2. q # p
    BY <2>1, <1>2, <1>8
  <2>3. CASE r = p
    <3>1. ~HasEntry(q)
      BY <2>1, <2>2, <2>3, <1>2, <1>8
    <3>2. ipc[q] \notin {"trunc", "freed"}
      BY <3>1 DEF HasEntry
    <3> QED BY <2>2, <3>2, <1>9
  <2>4. CASE r # p
    BY <2>1, <2>2, <2>4, <1>1, <1>8, <1>9 DEF Alone
  <2> QED BY <2>3, <2>4
<1>18. \A n \in Names : dir[n] # i
  <2>1. dinode[i].nlink = 0
    BY <1>1, <1>8, <1>9 DEF Kept
  <2> QED BY <2>1, <1>1, <1>2 DEF Links
<1>19. Links'
  <2>1. \A q \in Callers : /\ Unlinking(q)' => Unlinking(q) /\ HasEntry(q)
                           /\ ipc'[q] = "unlinked" => ipc[q] = "unlinked" /\ HasEntry(q) /\ q # p
    BY <1>8, <1>9 DEF Unlinking, HasEntry
  <2>2. \A n \in Names : dir[n] # 0 => dir[n] \in Inums
    BY <1>1 DEF InodeTypes
  <2>3. ASSUME NEW q \in Callers, ipc'[q] = "unlinked"
        PROVE  dinode'[Inum(q)'].nlink = 1 /\ \A n \in Names : dir'[n] # Inum(q)'
    BY <2>1, <2>3, <1>1, <1>2, <1>6, <1>7, <1>8 DEF Links
  <2>4. \A n \in Names : dir'[n] # 0 => dinode'[dir'[n]].type = 1 /\ dinode'[dir'[n]].nlink = 1
    BY <1>1, <1>6, <1>8, <1>18, <2>2 DEF Links
  <2>5. \A q \in Callers : Unlinking(q)' => dir'[name'[q]] = Inum(q)'
    BY <1>1, <1>7, <1>8, <2>1 DEF Links
  <2> QED BY <1>1, <1>8, <2>3, <2>4, <2>5 DEF Links
<1>20. Creation'
  <2> SUFFICES ASSUME NEW q \in Callers, Making(q)'
               PROVE  /\ dir'[name'[q]] = 0 /\ dinode'[Made(q)'] = Fresh
                      /\ \A r \in Callers : r # q /\ HasEntry(r)' /\ Inum(r)' = Made(q)' =>
                           ipc'[r] \in {"freed", "unput", "deref"}
    BY DEF Creation
  <2>1. q # p /\ Making(q) /\ Made(q)' = Made(q)
    BY <1>7, <1>8, <1>9 DEF Making, Made, HasEntry
  <2>2. Made(q) # i
    BY <2>1, <1>1, <1>2, <1>8, <1>9 DEF Creation
  <2>3. Made(q) \in Inums
    <3>1. ipc[q] = "ialloc" \/ HasEntry(q)
      BY <2>1 DEF Making, HasEntry
    <3> QED BY <3>1, <1>1, <1>7 DEF Made, Control, HasEntry
  <2>4. dir'[name'[q]] = 0 /\ dinode'[Made(q)'] = Fresh
    BY <2>1, <2>2, <2>3, <1>1, <1>6, <1>8 DEF Creation
  <2>5. ASSUME NEW r \in Callers, r # q, HasEntry(r)', Inum(r)' = Made(q)'
        PROVE  ipc'[r] \in {"freed", "unput", "deref"}
    <3>1. HasEntry(r) /\ Inum(r) = Made(q)
      BY <2>1, <2>5, <1>7, <1>10
    <3>2. ipc[r] \in {"freed", "unput", "deref"}
      BY <3>1, <2>1, <2>5, <1>1 DEF Creation
    <3> QED BY <3>2, <1>9
  <2> QED BY <2>4, <2>5
<1>21. BlocksOwned'
  <2>1. PICK A \in [Inums -> Addresses] : IsAddrs(A) /\ OneOwner(A, indirect, bitmap)
    BY <1>1 DEF BlocksOwned
  <2>2. A[i] = NoAddrs
    BY <2>1, <1>4, <1>8, <1>9 DEF IsAddrs
  <2>3. \A q \in Callers : /\ ipc[q] = "trunc" => HasEntry(q)
                           /\ ipc'[q] = "trunc" <=> ipc[q] = "trunc" /\ q # p
    BY <1>9 DEF HasEntry
  <2>4. ASSUME NEW j \in Inums, \A q \in Callers : ipc'[q] = "trunc" => Inum(q)' # j
        PROVE  A[j] = dinode'[j].addrs
    <3>1. CASE j = i
      BY <3>1, <2>2, <1>6, FreeTypes
    <3>2. CASE j # i
      <4>1. \A q \in Callers : ipc[q] = "trunc" => Inum(q) # j
        BY <2>3, <2>4, <3>2, <1>7, <1>8
      <4> QED BY <3>2, <4>1, <2>1, <1>6 DEF IsAddrs
    <3> QED BY <3>1, <3>2
  <2>5. ASSUME NEW q \in Callers, ipc'[q] = "trunc" PROVE A[Inum(q)'] = icache'[ip'[q]].d.addrs
    <3>1. ipc[q] = "trunc" /\ HasEntry(q) /\ q # p /\ Inum(q)' = Inum(q) /\ ip[q] \in Entries
      BY <2>3, <2>5, <1>7
    <3> QED BY <3>1, <2>1, <1>2, <1>6, <1>8 DEF IsAddrs
  <2>6. IsAddrs(A)'
    BY <2>1, <2>4, <2>5 DEF IsAddrs
  <2>7. OneOwner(A, indirect, bitmap)'
    BY <2>1, <1>8
  <2> QED BY <2>6, <2>7 DEF BlocksOwned
<1> QED BY <1>11, <1>12, <1>13, <1>14, <1>15, <1>16, <1>17, <1>19, <1>20, <1>21 DEF InodeInv

LEMMA ItruncKeeps ==
  ASSUME InodeInv, NEW p \in Callers, itrunc(p)
  PROVE  InodeInv'
<1> DEFINE d == icache[ip[p]].d
           ind == d.addrs[NDIRECT + 1]
           direct == {i \in 1..NDIRECT : d.addrs[i] # 0}
           ptrs == IF ind = 0 THEN {} ELSE {j \in 1..NINDIRECT : indirect[ind][j] # 0}
<1>1. ipc[p] = "trunc" /\ UNCHANGED <<dir, dlock, iop, name, ip>>
  BY DEF itrunc
<1>2. \/ /\ direct # {}
         /\ bfree(d.addrs[Min(direct)])
         /\ icache' = [icache EXCEPT ![ip[p]].d.addrs[Min(direct)] = 0]
         /\ UNCHANGED <<indirect, dinode, ipc>>
      \/ /\ direct = {} /\ ptrs # {}
         /\ bfree(indirect[ind][Min(ptrs)])
         /\ indirect' = [indirect EXCEPT ![ind][Min(ptrs)] = 0]
         /\ UNCHANGED <<icache, dinode, ipc>>
      \/ /\ direct = {} /\ ptrs = {} /\ ind # 0
         /\ bfree(ind)
         /\ icache' = [icache EXCEPT ![ip[p]].d.addrs[NDIRECT + 1] = 0]
         /\ UNCHANGED <<indirect, dinode, ipc>>
      \/ /\ Owned(d) = {}
         /\ iupdate(ip[p], FreeInode)
         /\ Goto(p, "freed")
         /\ UNCHANGED <<bitmap, indirect, panic>>
  BY DEF itrunc
<1>3. NDIRECT + 1 \in 1..(NDIRECT + 1)
  BY InodeSizes
<1>4. CASE /\ direct # {}
           /\ bfree(d.addrs[Min(direct)])
           /\ icache' = [icache EXCEPT ![ip[p]].d.addrs[Min(direct)] = 0]
           /\ UNCHANGED <<indirect, dinode, ipc>>
  <2>1. direct \in SUBSET Nat
    BY InodeSizes
  <2>2. Min(direct) \in direct
    BY <1>4, <2>1, MinIs
  <2>3. Min(direct) \in 1..(NDIRECT + 1) /\ d.addrs[Min(direct)] # 0 /\ Min(direct) # NDIRECT + 1
    BY <2>2, InodeSizes, SMTT(30)
  <2> QED BY <1>1, <1>4, <2>3, ShrinkKeeps
<1>5. CASE /\ direct = {} /\ ptrs # {}
           /\ bfree(indirect[ind][Min(ptrs)])
           /\ indirect' = [indirect EXCEPT ![ind][Min(ptrs)] = 0]
           /\ UNCHANGED <<icache, dinode, ipc>>
  <2>0. ind # 0 /\ ptrs = {j \in 1..NINDIRECT : indirect[ind][j] # 0}
    BY <1>5
  <2>1. ptrs \in SUBSET Nat /\ ind # 0
    BY <2>0, InodeSizes
  <2>2. Min(ptrs) \in ptrs
    BY <1>5, <2>1, MinIs
  <2>3. Min(ptrs) \in 1..NINDIRECT /\ indirect[ind][Min(ptrs)] # 0
    BY <2>1, <2>2
  <2> QED BY <1>1, <1>5, <2>1, <2>3, UnpointKeeps
<1>6. CASE /\ direct = {} /\ ptrs = {} /\ ind # 0
           /\ bfree(ind)
           /\ icache' = [icache EXCEPT ![ip[p]].d.addrs[NDIRECT + 1] = 0]
           /\ UNCHANGED <<indirect, dinode, ipc>>
  <2>1. \A j \in 1..NINDIRECT : indirect[ind][j] = 0
    BY <1>6
  <2> QED BY <1>1, <1>3, <1>6, <2>1, ShrinkKeeps
<1>7. CASE /\ Owned(d) = {}
           /\ iupdate(ip[p], FreeInode)
           /\ Goto(p, "freed")
           /\ UNCHANGED <<bitmap, indirect, panic>>
  BY <1>1, <1>7, EmptyKeeps
<1> QED BY <1>2, <1>4, <1>5, <1>6, <1>7
-----------------------------------------------------------------------------
(* The theorems.                                                           *)

\* The addresses that Current() shows are those that count.
LEMMA CurrentAddrs ==
  ASSUME InodeInv, NEW A, IsAddrs(A), NEW i \in Inums
  PROVE  /\ Current(i).addrs = A[i]
         /\ dinode[i].nlink = 1 => Current(i) = dinode[i]
<1>1. InodeTypes /\ Control /\ Counts /\ Locks /\ Cached /\ Kept
  BY DEF InodeInv
<1> DEFINE has == {e \in Entries : icache[e].ref > 0 /\ icache[e].inum = i
                                    /\ icache[e].valid /\ icache[e].lock # Nobody}
<1>2. Current(i) = IF has = {} THEN dinode[i] ELSE icache[Min(has)].d
  BY DEF Current
<1>3. ASSUME NEW q \in Callers, Frees(q), Inum(q) = i PROVE ip[q] \in has
  <2>1. HasEntry(q) /\ Holds(q)
    BY <1>3 DEF Frees, HasEntry, Holds
  <2>2. ip[q] \in Entries /\ icache[ip[q]].ref > 0
    BY <2>1, InUse
  <2>3. icache[ip[q]].valid
    BY <1>1, <1>3 DEF Cached, Knows, Frees
  <2>4. icache[ip[q]].lock # Nobody
    BY <1>1, <2>1, <2>2, InodeSizes DEF Locks
  <2> QED BY <1>3, <2>2, <2>3, <2>4 DEF Inum
<1>4. CASE has = {}
  <2>1. \A q \in Callers : ipc[q] = "trunc" => Inum(q) # i
    BY <1>3, <1>4 DEF Frees
  <2> QED BY <2>1, <1>2, <1>4 DEF IsAddrs
<1>5. CASE has # {}
  <2>1. has \in SUBSET Nat
    BY InodeSizes DEF Entries
  <2>2. PICK e \in has : Current(i) = icache[e].d
    BY <1>2, <1>5, <2>1, MinIs
  <2>3. e \in Entries /\ icache[e].ref > 0 /\ icache[e].inum = i /\ icache[e].valid
    OBVIOUS
  <2>4. \A q \in Callers : Frees(q) /\ Inum(q) = i => ip[q] = e
    BY <1>1, <1>3, <2>3 DEF Counts
  <2>5. \A q \in Callers : ip[q] = e => Inum(q) = i
    BY <2>3 DEF Inum
  <2>6. CASE \E q \in Callers : Frees(q) /\ ip[q] = e
    <3>1. PICK q \in Callers : Frees(q) /\ ip[q] = e
      BY <2>6
    <3>2. CASE ipc[q] = "trunc"
      BY <3>1, <3>2, <2>2, <2>5, <1>1 DEF IsAddrs, Kept
    <3>3. CASE ipc[q] = "freed"
      <4>1. icache[e].d = FreeInode /\ dinode[i].nlink = 0 /\ dinode[i].addrs = NoAddrs
        BY <3>1, <3>3, <2>5, <1>1 DEF Kept
      <4>2. \A r \in Callers : ipc[r] = "trunc" => Inum(r) # i
        <5> SUFFICES ASSUME NEW r \in Callers, ipc[r] = "trunc", Inum(r) = i PROVE FALSE
          OBVIOUS
        <5>1. Holds(r) /\ Holds(q) /\ Inum(r) = Inum(q)
          BY <3>1, <3>3, <2>5 DEF Holds
        <5>2. r = q
          BY <5>1, OneHolder
        <5> QED BY <3>3, <5>2
      <4>3. A[i] = NoAddrs
        BY <4>1, <4>2 DEF IsAddrs
      <4> QED BY <4>1, <4>3, <2>2, FreeTypes
    <3> QED BY <3>1, <3>2, <3>3 DEF Frees
  <2>7. CASE \A q \in Callers : Frees(q) => ip[q] # e
    <3>1. icache[e].d = dinode[i]
      BY <2>3, <2>7, <1>1 DEF Cached
    <3>2. \A q \in Callers : ipc[q] = "trunc" => Inum(q) # i
      BY <2>4, <2>7 DEF Frees
    <3> QED BY <3>1, <3>2, <2>2 DEF IsAddrs
  <2> QED BY <2>6, <2>7
<1> QED BY <1>4, <1>5

\* What an inode with the addresses A[i] owns is what is at its places.
LEMMA OwnedIs ==
  ASSUME InodeTypes, NEW A \in [Inums -> Addresses], NEW i \in Inums, NEW d, d.addrs = A[i], NEW b
  PROVE  b \in Owned(d) <=> b \in Blocks /\ \E s \in Slots : s[1] = i /\ At(A, indirect, s) = b
<1> DEFINE N == NDIRECT + 1
           ind == A[i][N]
<1>1. N \in Nat /\ NINDIRECT \in Nat /\ 0 \notin Blocks
  BY InodeSizes
<1>2. A[i] \in [1..N -> Blocks \cup {0}] /\ ind \in Blocks \cup {0}
  BY IndirectType DEF Addresses
<1>3. ind # 0 => indirect[ind] \in [1..NINDIRECT -> Blocks \cup {0}]
  BY <1>2 DEF InodeTypes
<1>4. b \in Owned(d) <=> b # 0 /\ \/ \E k \in 1..N : A[i][k] = b
                                  \/ ind # 0 /\ \E j \in 1..NINDIRECT : indirect[ind][j] = b
  <2>1. Nonzero(d.addrs) = {A[i][k] : k \in 1..N} \ {0}
    BY <1>2 DEF Nonzero
  <2>2. ind # 0 => Nonzero(indirect[ind]) = {indirect[ind][j] : j \in 1..NINDIRECT} \ {0}
    BY <1>3 DEF Nonzero
  <2>3. Owned(d) = Nonzero(d.addrs) \cup (IF ind = 0 THEN {} ELSE Nonzero(indirect[ind]))
    BY DEF Owned
  <2> HIDE DEF N, ind
  <2> QED BY <2>1, <2>2, <2>3
<1>5. \A k \in 1..N : <<i, k>> \in Slots /\ At(A, indirect, <<i, k>>) = A[i][k]
  BY <1>1 DEF Slots, At
<1>6. ASSUME NEW j \in 1..NINDIRECT, ind # 0
      PROVE  <<i, N + j>> \in Slots /\ At(A, indirect, <<i, N + j>>) = indirect[ind][j]
  <2>1. N + j \in 1..(N + NINDIRECT) /\ ~(N + j <= N) /\ (N + j) - N = j
    BY <1>1
  <2> QED BY <1>6, <2>1 DEF Slots, At
<1>7. ASSUME b \in Owned(d) PROVE b \in Blocks /\ \E s \in Slots : s[1] = i /\ At(A, indirect, s) = b
  <2>1. CASE \E k \in 1..N : A[i][k] = b
    <3>1. PICK k \in 1..N : A[i][k] = b
      BY <2>1
    <3>2. <<i, k>>[1] = i
      OBVIOUS
    <3>3. b \in Blocks
      BY <3>1, <1>2, <1>4, <1>7
    <3> QED BY <3>1, <3>2, <3>3, <1>5
  <2>2. CASE ind # 0 /\ \E j \in 1..NINDIRECT : indirect[ind][j] = b
    <3>1. PICK j \in 1..NINDIRECT : indirect[ind][j] = b
      BY <2>2
    <3>2. <<i, N + j>>[1] = i
      OBVIOUS
    <3>3. b \in Blocks
      BY <2>2, <3>1, <1>3, <1>4, <1>7
    <3>4. <<i, N + j>> \in Slots /\ At(A, indirect, <<i, N + j>>) = b
      BY <2>2, <3>1, <1>6
    <3> QED BY <3>2, <3>3, <3>4
  <2> QED BY <2>1, <2>2, <1>4, <1>7
<1>8. ASSUME b \in Blocks, NEW s \in Slots, s[1] = i, At(A, indirect, s) = b PROVE b \in Owned(d)
  <2>1. PICK l \in 1..(N + NINDIRECT) : s = <<i, l>>
    BY <1>8 DEF Slots
  <2>2. b # 0
    BY <1>1, <1>8
  <2>3. b = IF l <= N THEN A[i][l] ELSE IF ind = 0 THEN 0 ELSE indirect[ind][l - N]
    BY <1>8, <2>1 DEF At
  <2>4. CASE l <= N
    <3>1. l \in 1..N
      BY <2>4, <1>1
    <3> QED BY <3>1, <2>2, <2>3, <2>4, <1>4
  <2>5. CASE ~(l <= N)
    <3>1. l - N \in 1..NINDIRECT
      BY <2>5, <1>1
    <3>2. ind # 0 /\ indirect[ind][l - N] = b
      BY <2>2, <2>3, <2>5
    <3> QED BY <3>1, <3>2, <2>2, <1>4
  <2> QED BY <2>4, <2>5
<1> QED BY <1>7, <1>8

LEMMA InodeInvSound == InodeInv => InodesSound
<1> SUFFICES ASSUME InodeInv PROVE InodesSound
  OBVIOUS
<1>1. InodeTypes /\ Control /\ Counts /\ Locks /\ Cached /\ Kept /\ Links /\ BlocksOwned
  BY DEF InodeInv
<1>2. PICK A \in [Inums -> Addresses] : IsAddrs(A) /\ OneOwner(A, indirect, bitmap)
  BY <1>1 DEF BlocksOwned
<1>3. panic = ""
  BY <1>1 DEF InodeTypes
<1>4. \A e, f \in Entries : e # f /\ icache[e].ref > 0 /\ icache[f].ref > 0 =>
        icache[e].inum # icache[f].inum
  BY <1>1 DEF Counts
<1>5. ASSUME NEW e \in Entries
      PROVE  /\ icache[e].ref = Cardinality({p \in Callers : ip[p] = e /\ ipc[p] # "ialloc"})
             /\ icache[e].ref > 0 /\ icache[e].valid /\ icache[e].lock = Nobody =>
                  icache[e].d = dinode[icache[e].inum]
  <2>1. icache[e].ref = Cardinality({p \in Callers : ip[p] = e /\ ipc[p] # "ialloc"})
    BY <1>1 DEF Counts, Users
  <2>2. ASSUME icache[e].lock = Nobody PROVE \A p \in Callers : Frees(p) => ip[p] # e
    <3> SUFFICES ASSUME NEW p \in Callers, Frees(p), ip[p] = e PROVE FALSE
      OBVIOUS
    <3>1. icache[e].lock = p
      BY <1>1 DEF Locks, Holds, Frees
    <3> QED BY <2>2, <3>1, InodeSizes
  <2> QED BY <2>1, <2>2, <1>1 DEF Cached
<1>6. \A n \in Names : dir[n] # 0 => Current(dir[n]).nlink = 1
  <2> SUFFICES ASSUME NEW n \in Names, dir[n] # 0 PROVE Current(dir[n]).nlink = 1
    OBVIOUS
  <2>1. dir[n] \in Inums /\ dinode[dir[n]].nlink = 1
    BY <1>1 DEF InodeTypes, Links
  <2>2. Current(dir[n]) = dinode[dir[n]]
    BY <1>2, <2>1, CurrentAddrs
  <2> QED BY <2>1, <2>2
<1>7. ASSUME NEW i \in Inums, NEW b
      PROVE  b \in Owned(Current(i)) <=> b \in Blocks /\ \E s \in Slots : s[1] = i /\ At(A, indirect, s) = b
  <2>1. Current(i).addrs = A[i]
    BY <1>2, CurrentAddrs
  <2> QED BY <1>1, <1>2, <2>1, OwnedIs
<1>8. bitmap = UNION {Owned(Current(i)) : i \in Inums}
  <2>1. ASSUME NEW b \in bitmap PROVE \E i \in Inums : b \in Owned(Current(i))
    <3>1. b \in Blocks
      BY <1>1 DEF InodeTypes
    <3>2. PICK s \in Slots : At(A, indirect, s) = b
      BY <1>2, <3>1 DEF OneOwner
    <3>3. s[1] \in Inums
      BY DEF Slots
    <3> QED BY <1>7, <3>1, <3>2, <3>3
  <2>2. ASSUME NEW i \in Inums, NEW b, b \in Owned(Current(i)) PROVE b \in bitmap
    BY <1>2, <1>7, <2>2 DEF OneOwner
  <2> QED BY <2>1, <2>2
<1>9. ASSUME NEW i \in Inums, NEW j \in Inums, i # j
      PROVE  Owned(Current(i)) \cap Owned(Current(j)) = {}
  <2> SUFFICES ASSUME NEW b, b \in Owned(Current(i)), b \in Owned(Current(j)) PROVE FALSE
    OBVIOUS
  <2>1. PICK s \in Slots : s[1] = i /\ At(A, indirect, s) = b
    BY <1>7
  <2>2. PICK t \in Slots : t[1] = j /\ At(A, indirect, t) = b
    BY <1>7
  <2>3. b # 0
    BY <1>7, InodeSizes
  <2>4. s = t
    BY <1>2, <2>1, <2>2, <2>3 DEF OneOwner
  <2> QED BY <1>9, <2>1, <2>2, <2>4
<1> QED BY <1>3, <1>4, <1>5, <1>6, <1>8, <1>9 DEF InodesSound

\* After a panic nothing moves.
Halted == panic # "" /\ InodesSound

LEMMA SoundFrame ==
  ASSUME InodesSound,
         UNCHANGED <<dinode, bitmap, indirect, icache, dir, ipc, ip>>,
         panic' \in {"", "ialloc: no inodes", "balloc: out of blocks"},
         panic' = "ialloc: no inodes" => \A i \in Inums : dinode[i].type # 0,
         panic' = "balloc: out of blocks" => bitmap = Blocks
  PROVE  InodesSound'
<1>1. ASSUME NEW i PROVE Current(i)' = Current(i)
  BY DEF Current
<1>2. ASSUME NEW i PROVE Owned(Current(i))' = Owned(Current(i))
  BY <1>1 DEF Owned, Nonzero
<1>3. (UNION {Owned(Current(i)) : i \in Inums})' = UNION {Owned(Current(i)) : i \in Inums}
  BY <1>2
<1>4. /\ panic' \in {"", "ialloc: no inodes", "balloc: out of blocks"}
      /\ panic' = "ialloc: no inodes" => \A i \in Inums : dinode'[i].type # 0
      /\ panic' = "balloc: out of blocks" => bitmap' = Blocks
  OBVIOUS
<1>5. (\A e, f \in Entries : e # f /\ icache[e].ref > 0 /\ icache[f].ref > 0 =>
         icache[e].inum # icache[f].inum)'
  BY DEF InodesSound
<1>6. (\A e \in Entries :
         /\ icache[e].ref = Cardinality({p \in Callers : ip[p] = e /\ ipc[p] # "ialloc"})
         /\ icache[e].ref > 0 /\ icache[e].valid /\ icache[e].lock = Nobody =>
              icache[e].d = dinode[icache[e].inum])'
  BY DEF InodesSound
<1>7. (\A n \in Names : dir[n] # 0 => Current(dir[n]).nlink = 1)'
  <2> SUFFICES ASSUME NEW n \in Names, dir'[n] # 0 PROVE Current(dir[n])'.nlink = 1
    OBVIOUS
  <2>1. Current(dir[n])' = Current(dir[n])
    BY DEF Current
  <2>2. Current(dir[n]).nlink = 1
    BY DEF InodesSound
  <2> QED BY <2>1, <2>2
<1>8. (bitmap = UNION {Owned(Current(i)) : i \in Inums})'
  BY <1>3 DEF InodesSound
<1>9. (\A i, j \in Inums : i # j => Owned(Current(i)) \cap Owned(Current(j)) = {})'
  BY <1>2 DEF InodesSound
<1> QED BY <1>4, <1>5, <1>6, <1>7, <1>8, <1>9 DEF InodesSound

LEMMA PanicHalts ==
  ASSUME InodeInv,
         UNCHANGED <<dinode, bitmap, indirect, icache, dir, dlock, ipc, iop, name, ip>>,
         \/ panic' = "ialloc: no inodes" /\ \A i \in Inums : dinode[i].type # 0
         \/ panic' = "balloc: out of blocks" /\ bitmap = Blocks
  PROVE  Halted'
<1>1. InodesSound
  BY InodeInvSound
<1>2. InodesSound'
  BY <1>1, SoundFrame
<1> QED BY <1>2 DEF Halted

\* A step that does not panic keeps the invariant, the two that may leave all
\* else as it is.
LEMMA InodeStepKeeps == InodeInv /\ [INext]_ivars => InodeInv' \/ Halted'
<1> SUFFICES ASSUME InodeInv, [INext]_ivars PROVE InodeInv' \/ Halted'
  OBVIOUS
<1>1. CASE UNCHANGED ivars
  <2>1. UNCHANGED <<dinode, bitmap, indirect, icache, dir, dlock, ipc, iop, name, ip, panic>>
    BY <1>1 DEF ivars
  <2>2. InodeTypes /\ BlocksOwned
    BY DEF InodeInv
  <2>3. Control' /\ Counts' /\ Locks' /\ Cached' /\ Kept' /\ Alone' /\ Links' /\ Creation'
        /\ \A A : IsAddrs(A)' <=> IsAddrs(A)
    BY <2>1, RestFrame
  <2>4. InodeTypes'
    BY <2>1, <2>2 DEF InodeTypes
  <2>5. BlocksOwned'
    BY <2>1, <2>2, <2>3 DEF BlocksOwned
  <2> QED BY <2>3, <2>4, <2>5 DEF InodeInv
<1>2. CASE INext
  <2>1. PICK p \in Callers : IStep(p)
    BY <1>2 DEF INext
  <2>2. PICK n \in Names : TRUE
    BY InodeSizes
  <2>3. ASSUME NEW c \in {"create", "open", "unlink"}, NEW m \in Names, namei(p, c, m) PROVE InodeInv'
    BY <2>3, PlaceKeeps
  <2>4. CASE missing(p) \/ relock(p) \/ close(p)
    BY <2>2, <2>4, PlaceKeeps
  <2>19. CASE full(p)
    <3>1. /\ panic' = "ialloc: no inodes" /\ \A i \in Inums : dinode[i].type # 0
          /\ UNCHANGED <<dinode, bitmap, indirect, icache, dir, dlock, ipc, iop, name, ip>>
      BY <2>19 DEF full, idisk
    <3> QED BY <3>1, PanicHalts
  <2>5. CASE found(p)
    BY <2>5, FoundKeeps
  <2>6. CASE ialloc(p)
    BY <2>6, IallocKeeps
  <2>7. CASE fetched(p)
    BY <2>7, FetchedKeeps
  <2>8. CASE ilock(p)
    BY <2>8, IlockKeeps
  <2>9. CASE create(p)
    BY <2>9, CreateKeeps
  <2>10. CASE unlink(p)
    BY <2>10, UnlinkKeeps
  <2>11. CASE unlinked(p)
    BY <2>11, UnlinkedKeeps
  <2>12. CASE iunlock(p) \/ unput(p)
    BY <2>12, LockKeeps
  <2>13. CASE iput(p)
    BY <2>13, LockKeeps, IputKeeps
  <2>14. CASE bmap(p) /\ Blocks # bitmap
    BY <2>14, BmapKeeps
  <2>20. CASE bmap(p) /\ Blocks = bitmap
    <3>1. /\ panic' = "balloc: out of blocks" /\ bitmap = Blocks
          /\ UNCHANGED <<dinode, bitmap, indirect, icache, dir, dlock, ipc, iop, name, ip>>
      BY <2>20 DEF bmap, idisk
    <3> QED BY <3>1, PanicHalts
  <2>15. CASE itrunc(p)
    BY <2>15, ItruncKeeps
  <2>16. CASE invalidate(p)
    BY <2>16, InvalidateKeeps
  <2>17. CASE deref(p)
    BY <2>17, DerefKeeps
  <2>18. ASSUME NEW q \in Callers, idup(p, q) PROVE InodeInv'
    BY <2>18, IdupKeeps
  <2> QED BY <2>1, <2>3, <2>4, <2>5, <2>6, <2>7, <2>8, <2>9, <2>10, <2>11, <2>12, <2>13,
             <2>14, <2>15, <2>16, <2>17, <2>18, <2>19, <2>20 DEF IStep
<1> QED BY <1>1, <1>2

LEMMA HaltedStays == Halted /\ [INext]_ivars => Halted'
<1> SUFFICES ASSUME Halted, [INext]_ivars PROVE Halted'
  OBVIOUS
<1>1. UNCHANGED <<dinode, bitmap, indirect, icache, dir, dlock, ipc, iop, name, ip, panic>>
  BY DEF Halted, INext, ivars
<1>2. InodesSound
  BY DEF Halted
<1>3. /\ panic \in {"", "ialloc: no inodes", "balloc: out of blocks"}
      /\ panic = "ialloc: no inodes" => \A i \in Inums : dinode[i].type # 0
      /\ panic = "balloc: out of blocks" => bitmap = Blocks
  BY <1>2 DEF InodesSound
<1>4. InodesSound'
  BY <1>1, <1>2, <1>3, SoundFrame
<1> QED BY <1>1, <1>4 DEF Halted

\* Whatever calls make, open, extend, share and remove files at once, the inode
\* cache, the inodes on the disk, the directory and the bitmap fit together
\* until ialloc() or balloc() finds nothing free and panics: the inductive
\* invariant of fs.c's inodes.
THEOREM InodesInvariant == ISpec => [](InodeInv \/ Halted)
<1>1. iinit => InodeInv
  BY InitInodeInv
<1>2. InodeInv /\ [INext]_ivars => InodeInv' \/ Halted'
  BY InodeStepKeeps
<1>3. Halted /\ [INext]_ivars => Halted'
  BY HaltedStays
<1> QED BY <1>1, <1>2, <1>3, PTL DEF ISpec

\* ilock(), iget() and bfree() never panic, ialloc() only with every inode in use
\* and balloc() only with every block in a file; reference counts are exact, no
\* name is of an inode without a link, no block has two owners, and the bitmap
\* is what is owned: for any number of calls, inodes and blocks.
THEOREM InodesAreSound == ISpec => []InodesSound
<1>1. InodeInv => InodesSound
  BY InodeInvSound
<1>2. Halted => InodesSound
  BY DEF Halted
<1> QED BY <1>1, <1>2, InodesInvariant, PTL
-----------------------------------------------------------------------------
(* Checked files.                                                          *)

\* The blocks of the file, and what is known of them.
FileTypes ==
  /\ size \in 0..MAXFILE
  /\ fdata \in [All -> 0..255] /\ wrote \in [All -> 0..255]
  /\ tag \in [Direct -> 0..255] /\ dtag \in [Direct -> 0..255]
  /\ itag \in [Indirect -> 0..255]
  /\ kept \in SUBSET Direct
  /\ result[1] = "read" => result[2] \in All

\* The tags that readi() looks at say what was written: those of direct blocks
\* as long as the inode has not been read again, and the first in the indirect
\* block, which is on the disk with every write.
Tagged ==
  /\ \A d \in kept : tag[d] = wrote[d]
  /\ NDIRECT + 1 \in All => itag[NDIRECT + 1] = wrote[NDIRECT + 1]

\* The inductive invariant.
FileInv == FileTypes /\ Tagged /\ VerdictRight

LEMMA BlocksOfFile ==
  /\ NDIRECT \in Nat /\ NINDIRECT \in Nat /\ MAXFILE \in Nat
  /\ \A n : n \in All <=> n \in Direct \/ n \in Indirect
  /\ \A n \in Direct : n \in Nat /\ n <= NDIRECT
  /\ \A n \in Indirect : n \in Nat /\ n > NDIRECT
  /\ NDIRECT + 1 \in All => NDIRECT + 1 \in Indirect
BY LayoutAssumption DEF MAXFILE, All, Direct, Indirect

LEMMA FInitKeeps ==
  ASSUME FInit
  PROVE  FileInv
<1>1. FileTypes
  <2>1. size \in 0..MAXFILE
    BY BlocksOfFile DEF FInit
  <2>2. result[1] # "read"
    BY DEF FInit, NoResult
  <2> QED BY <2>1, <2>2 DEF FInit, FileTypes
<1>2. Tagged
  BY BlocksOfFile DEF FInit, Tagged
<1>3. VerdictRight
  BY DEF FInit, VerdictRight, NoResult
<1> QED BY <1>1, <1>2, <1>3 DEF FileInv

\* A call that leaves no result leaves no verdict to be wrong.
LEMMA NoVerdict ==
  ASSUME result' = NoResult
  PROVE  VerdictRight' /\ (result'[1] = "read" => result'[2] \in All)
BY DEF VerdictRight, NoResult

\* Nothing changes that the invariant is about, unless the tags are read again
\* and none is known to be right any more.
LEMMA SameFile ==
  ASSUME FileInv, UNCHANGED <<size, fdata, dtag, itag, result, wrote>>,
         \/ tag' = tag /\ kept' = kept
         \/ tag' = dtag /\ kept' = {}
  PROVE  FileInv'
<1>1. FileTypes'
  BY DEF FileInv, FileTypes
<1>2. Tagged'
  BY DEF FileInv, Tagged
<1>3. VerdictRight'
  BY DEF FileInv, VerdictRight
<1> QED BY <1>1, <1>2, <1>3 DEF FileInv

LEMMA WriteBlockKeeps ==
  ASSUME FileInv, NEW b \in All, NEW s \in Sums, writei(b, s)
  PROVE  FileInv'
<1>1. CASE b \in locked
  BY <1>1, SameFile DEF writei
<1>2. CASE b \notin locked
  <2>1. /\ fdata' = [fdata EXCEPT ![b] = s] /\ wrote' = [wrote EXCEPT ![b] = s]
        /\ tag' = IF b \in Direct THEN [tag EXCEPT ![b] = s] ELSE tag
        /\ itag' = IF b \in Indirect THEN [itag EXCEPT ![b] = s] ELSE itag
        /\ size' = IF b > size THEN b ELSE size
        /\ dtag' = IF b > size THEN tag' ELSE dtag
        /\ kept' = kept \cup (Direct \cap {b})
        /\ result' = NoResult
    BY <1>2 DEF writei
  <2>2. s \in 0..255
    BY SumsAssumption
  <2>3. FileTypes /\ Tagged
    BY DEF FileInv
  <2>4. b \in 0..MAXFILE
    BY BlocksOfFile DEF All
  <2>5. tag' \in [Direct -> 0..255]
    BY <2>1, <2>2, <2>3 DEF FileTypes
  <2>6. FileTypes'
    BY <2>1, <2>2, <2>3, <2>4, <2>5, NoVerdict DEF FileTypes
  <2>7. Tagged'
    <3>1. ASSUME NEW d \in kept' PROVE tag'[d] = wrote'[d]
      <4>1. d \in Direct /\ d \in All
        BY <2>1, <2>3, BlocksOfFile DEF FileTypes
      <4>2. CASE d = b
        BY <4>1, <4>2, <2>1, <2>3 DEF FileTypes
      <4>3. CASE d # b
        BY <4>1, <4>3, <2>1, <2>3 DEF FileTypes, Tagged
      <4> QED BY <4>2, <4>3
    <3>2. ASSUME NDIRECT + 1 \in All PROVE itag'[NDIRECT + 1] = wrote'[NDIRECT + 1]
      <4>1. NDIRECT + 1 \in Indirect
        BY <3>2, BlocksOfFile
      <4>2. CASE NDIRECT + 1 = b
        BY <3>2, <4>1, <4>2, <2>1, <2>3 DEF FileTypes
      <4>3. CASE NDIRECT + 1 # b
        BY <3>2, <4>1, <4>3, <2>1, <2>3 DEF FileTypes, Tagged
      <4> QED BY <4>2, <4>3
    <3> QED BY <3>1, <3>2 DEF Tagged
  <2> QED BY <2>1, <2>6, <2>7, NoVerdict DEF FileInv
<1> QED BY <1>1, <1>2

\* A block is judged by the tag that is found: the one written where Tagged
\* says so, and 0 behind the first indirect block.
LEMMA ReadBlockKeeps ==
  ASSUME FileInv, NEW b \in All, readi(b)
  PROVE  FileInv'
<1>1. CASE b \in locked
  BY <1>1, SameFile DEF readi
<1>2. CASE b \notin locked
  <2> DEFINE v == IF fdata[b] < 128 /\ fdata[b] = Found(b) THEN 1 ELSE -1
  <2>1. /\ UNCHANGED <<size, fdata, tag, dtag, itag, wrote, kept>>
        /\ result' = <<"read", b, v>>
    BY <1>2 DEF readi
  <2>2. FileTypes /\ Tagged
    BY DEF FileInv
  <2>3. result'[1] = "read" /\ result'[2] = b /\ result'[3] = v
    BY <2>1
  <2>4. FileTypes'
    BY <2>1, <2>2, <2>3 DEF FileTypes
  <2>5. Tagged'
    BY <2>1, <2>2 DEF Tagged
  <2>6. fdata[b] \in 0..255
    BY <2>2 DEF FileTypes
  <2>7. v = 1 <=> (fdata[b] < 128 /\ fdata[b] = Found(b))
    OBVIOUS
  <2>8. ASSUME b \in kept \cup {NDIRECT + 1} PROVE Found(b) = wrote[b]
    <3>1. CASE b \in kept
      BY <3>1, <2>2 DEF FileTypes, Tagged, Found
    <3>2. CASE b = NDIRECT + 1
      <4>1. b \notin Direct
        BY <3>2, BlocksOfFile
      <4> QED BY <3>2, <4>1, <2>2 DEF Tagged, Found
    <3> QED BY <2>8, <3>1, <3>2
  <2>9. ASSUME b > NDIRECT + 1 PROVE Found(b) = 0
    <3>1. b \notin Direct /\ b # NDIRECT + 1
      BY <2>9, BlocksOfFile
    <3> QED BY <3>1 DEF Found
  <2>10. VerdictRight'
    <3> HIDE DEF v
    <3>1. b \in kept \cup {NDIRECT + 1} =>
            ((v = 1) <=> (fdata[b] = wrote[b] /\ fdata[b] < 128))
      BY <2>7, <2>8
    <3>2. b > NDIRECT + 1 => ((v = 1) <=> (fdata[b] = 0))
      BY <2>6, <2>7, <2>9
    <3>3. result'[1] # "stat"
      BY <2>3
    <3>4. fdata' = fdata /\ wrote' = wrote /\ kept' = kept
      BY <2>1
    <3> QED BY <2>3, <3>1, <3>2, <3>3, <3>4 DEF VerdictRight
  <2> QED BY <2>4, <2>5, <2>10 DEF FileInv
<1> QED BY <1>1, <1>2

LEMMA StatKeeps ==
  ASSUME FileInv, stati
  PROVE  FileInv'
<1>1. UNCHANGED <<size, fdata, tag, dtag, itag, locked, wrote, kept>>
  BY DEF stati
<1>2. CASE result' = <<"stat", 0, tag>>
  <2>1. result'[1] = "stat" /\ result'[3] = tag
    BY <1>2
  <2>2. FileTypes'
    BY <1>1, <2>1 DEF FileInv, FileTypes
  <2>3. Tagged'
    BY <1>1 DEF FileInv, Tagged
  <2>4. VerdictRight'
    <3>1. \A d \in kept' : result'[3][d] = wrote'[d]
      BY <1>1, <2>1 DEF FileInv, Tagged
    <3> QED BY <2>1, <3>1 DEF VerdictRight
  <2> QED BY <2>2, <2>3, <2>4 DEF FileInv
<1>3. CASE result' = NoResult
  <2>1. FileTypes'
    BY <1>1, <1>3, NoVerdict DEF FileInv, FileTypes
  <2>2. Tagged'
    BY <1>1 DEF FileInv, Tagged
  <2> QED BY <1>3, <2>1, <2>2, NoVerdict DEF FileInv
<1>4. CASE result' = result
  BY <1>1, <1>4, SameFile
<1> QED BY <1>2, <1>3, <1>4 DEF stati

LEMMA RemoveKeeps ==
  ASSUME FileInv, remove
  PROVE  FileInv'
<1>1. result' = NoResult
  BY DEF remove
<1>2. CASE UNCHANGED <<size, fdata, tag, dtag, itag, wrote, kept>>
  <2>1. FileTypes'
    BY <1>1, <1>2, NoVerdict DEF FileInv, FileTypes
  <2>2. Tagged'
    BY <1>2 DEF FileInv, Tagged
  <2> QED BY <1>1, <2>1, <2>2, NoVerdict DEF FileInv
<1>3. CASE /\ size' = 0 /\ fdata' = [b \in All |-> 0] /\ wrote' = fdata'
           /\ tag' = [b \in Direct |-> 0] /\ dtag' = tag'
           /\ itag' = [b \in Indirect |-> 0] /\ kept' = {}
  <2>1. FileTypes'
    BY <1>1, <1>3, BlocksOfFile, NoVerdict DEF FileTypes
  <2>2. Tagged'
    BY <1>3, BlocksOfFile DEF Tagged
  <2> QED BY <1>1, <2>1, <2>2, NoVerdict DEF FileInv
<1> QED BY <1>2, <1>3 DEF remove

LEMMA DamageKeeps ==
  ASSUME FileInv, NEW b \in All, NEW s \in Sums, damage(b, s)
  PROVE  FileInv'
<1>1. /\ fdata' = [fdata EXCEPT ![b] = s] /\ result' = NoResult
      /\ UNCHANGED <<size, tag, dtag, itag, wrote, kept>>
  BY DEF damage
<1>2. FileTypes'
  <2>1. s \in 0..255
    BY SumsAssumption
  <2> QED BY <1>1, <2>1, NoVerdict DEF FileInv, FileTypes
<1>3. Tagged'
  BY <1>1 DEF FileInv, Tagged
<1> QED BY <1>1, <1>2, <1>3, NoVerdict DEF FileInv

LEMMA RebootKeeps ==
  ASSUME FileInv, reboot
  PROVE  FileInv'
<1>1. /\ result' = NoResult /\ tag' = dtag /\ kept' = {}
      /\ UNCHANGED <<size, fdata, dtag, itag, wrote>>
  BY DEF reboot
<1>2. FileTypes'
  BY <1>1, NoVerdict DEF FileInv, FileTypes
<1>3. Tagged'
  BY <1>1 DEF FileInv, Tagged
<1> QED BY <1>1, <1>2, <1>3, NoVerdict DEF FileInv

LEMMA FNextKeeps ==
  ASSUME FileInv, [FNext]_fvars
  PROVE  FileInv'
<1>1. CASE UNCHANGED fvars
  BY <1>1, SameFile DEF fvars
<1>2. ASSUME NEW b \in All, NEW s \in Sums, writei(b, s) PROVE FileInv'
  BY <1>2, WriteBlockKeeps
<1>3. ASSUME NEW b \in All, NEW s \in Sums, damage(b, s) PROVE FileInv'
  BY <1>3, DamageKeeps
<1>4. ASSUME NEW b \in All, readi(b) PROVE FileInv'
  BY <1>4, ReadBlockKeeps
<1>5. CASE stati
  BY <1>5, StatKeeps
<1>6. CASE reread
  BY <1>6, SameFile DEF reread
<1>7. CASE remove
  BY <1>7, RemoveKeeps
<1>8. CASE reboot
  BY <1>8, RebootKeeps
<1> QED BY <1>1, <1>2, <1>3, <1>4, <1>5, <1>6, <1>7, <1>8 DEF FNext

\* The tags of a checked file, for any sums that are written and any layout:
\* what the cached inode and the indirect block say of the blocks that writei()
\* was called for, through damage, rereading, removal and reboots.
THEOREM FileInvariant == FSpec => []FileInv
<1>1. FInit => FileInv
  BY FInitKeeps
<1>2. FileInv /\ [FNext]_fvars => FileInv'
  BY FNextKeeps
<1> QED BY <1>1, <1>2, PTL DEF FSpec

\* readi() accepts a direct block whose inode stayed in the cache, and the first
\* indirect one, exactly if it holds what was written and its sum is below 128;
\* behind that it accepts a sum of 0 and nothing else; and stati() folds the sums
\* that were written.
THEOREM VerdictsAreRight == FSpec => []VerdictRight
<1>1. FileInv => VerdictRight
  BY DEF FileInv
<1> QED BY <1>1, FileInvariant, PTL
-----------------------------------------------------------------------------
(* The buffer cache.                                                       *)

BufStages == {"idle", "lock", "sleeplock", "hold", "iderw", "sleepdisk", "done", "brelse"}

\* Who holds the sleep lock, and who has asked or is about to ask the disk.
Holding == {"hold", "done", "iderw", "sleepdisk"}
Asking == {"iderw", "sleepdisk"}

Buffer == [blockno : Sectors \cup {NoBlock}, valid : BOOLEAN, dirty : BOOLEAN,
           refcnt : Nat, owner : Clients \cup {None}, data : Int, bad : BOOLEAN]

Types ==
  /\ buf \in [Bufs -> Buffer]
  /\ lru \in [Bufs -> Bufs]
  /\ idequeue \in Seq(Bufs)
  /\ active <=> idequeue # <<>>
  /\ disk \in [Sectors -> Int] /\ block \in [Sectors -> Int]
  /\ bpc \in [Clients -> BufStages] /\ at \in [Clients -> Bufs \cup {None}]
  /\ panicked \in BOOLEAN

\* Every buffer is in the list.
Listed == \A b \in Bufs : \E i \in Bufs : lru[i] = b

\* A block has one buffer.  A buffer that somebody refers to, or that has
\* contents, is a block's.
Named ==
  /\ \A b, c \in Bufs :
       b # c /\ buf[b].blockno # NoBlock => buf[b].blockno # buf[c].blockno
  /\ \A p \in Clients : at[p] # None => buf[at[p]].blockno # NoBlock
  /\ \A b \in Bufs : buf[b].valid => buf[b].blockno # NoBlock

\* The references are the processes between bget() and brelse().
Counted ==
  /\ \A p \in Clients : bpc[p] = "idle" <=> at[p] = None
  /\ \A b \in Bufs : buf[b].refcnt = Cardinality(Refers(b))

\* The owner of a sleep lock is between acquiresleep() and releasesleep(); a
\* sleeper has one to wait for.
BufOwned ==
  /\ \A p \in Clients : bpc[p] \in Holding => buf[at[p]].owner = p
  /\ \A b \in Bufs : buf[b].owner # None => /\ at[buf[b].owner] = b
                                            /\ bpc[buf[b].owner] \in Holding
  /\ \A p \in Clients : bpc[p] = "sleeplock" => buf[at[p]].owner # None

\* A buffer has the block's contents once it is read; the disk has them unless
\* a dirty buffer does.
Contents ==
  /\ \A b \in Bufs : buf[b].valid /\ ~buf[b].bad => buf[b].data = block[buf[b].blockno]
  /\ \A b \in Bufs : buf[b].dirty => buf[b].valid /\ ~buf[b].bad
  /\ \A p \in Clients : bpc[p] = "hold" => buf[at[p]].valid
  /\ \A k \in Sectors :
       disk[k] = block[k] \/ \E b \in Bufs : buf[b].blockno = k /\ buf[b].dirty

\* The queue holds the buffers of those that sleep on the disk, each once; the
\* data of the first, if it is written, have gone to the disk.
Queue ==
  /\ \A i, j \in 1..Len(idequeue) : idequeue[i] = idequeue[j] => i = j
  /\ \A i \in 1..Len(idequeue) :
       \E p \in Clients : bpc[p] = "sleepdisk" /\ at[p] = idequeue[i]
  /\ \A p \in Clients :
       bpc[p] = "sleepdisk" => \E i \in 1..Len(idequeue) : idequeue[i] = at[p]
  /\ idequeue # <<>> =>
       disk[buf[idequeue[1]].blockno] = block[buf[idequeue[1]].blockno]

\* The dirty buffers that nobody is writing are pinned by the log.
AtRest ==
  {b \in Bufs : buf[b].dirty /\ \A p \in Clients : at[p] = b => bpc[p] \notin Asking}

Pins == Cardinality(AtRest) <= Pinned

Room == NBUF >= Pinned + Cardinality(Clients) => ~panicked

\* The inductive invariant.
IInv ==
  Types /\ Listed /\ Named /\ Counted /\ BufOwned /\ Contents /\ Queue /\ Pins /\ Room
-----------------------------------------------------------------------------
(* Facts about a state.                                                    *)

LEMMA Sizes ==
  /\ NBUF \in Nat \ {0} /\ Pinned \in Nat /\ Values \in Nat \ {0}
  /\ IsFiniteSet(Clients) /\ Cardinality(Clients) \in Nat
  /\ None \notin Clients /\ None \notin Bufs /\ NoBlock \notin Sectors
  /\ Bufs \subseteq Nat /\ IsFiniteSet(Bufs) /\ Cardinality(Bufs) = NBUF
<1>1. Cardinality(Clients) \in Nat
  BY CacheAssumption, FS_CardinalityType
<1>2. IsFiniteSet(1..NBUF) /\ Cardinality(1..NBUF) = NBUF
  BY CacheAssumption, FS_Interval
<1> QED BY <1>1, <1>2, CacheAssumption DEF None, NoBlock, Bufs

LEMMA RefersFinite ==
  ASSUME NEW b
  PROVE  IsFiniteSet(Refers(b)) /\ Refers(b) \subseteq Clients
<1>1. Refers(b) \subseteq Clients
  BY DEF Refers
<1> QED BY <1>1, Sizes, FS_Subset

\* A buffer without a reference is nobody's.
LEMMA NoReference ==
  ASSUME Counted, NEW b \in Bufs, buf[b].refcnt = 0
  PROVE  \A p \in Clients : at[p] # b
<1>1. Cardinality(Refers(b)) = 0
  BY DEF Counted
<1>2. Refers(b) = {}
  BY <1>1, RefersFinite, FS_EmptySet
<1> QED BY <1>2 DEF Refers

\* A buffer's sleep lock has one holder.
LEMMA OneBufHolder ==
  ASSUME Types, BufOwned, NEW p \in Clients, bpc[p] \in Holding,
         NEW q \in Clients, bpc[q] \in Holding, at[q] = at[p]
  PROVE  q = p
BY DEF BufOwned

\* What is in the fields of a buffer.
LEMMA Fields ==
  ASSUME Types, NEW b \in Bufs
  PROVE  /\ buf[b].blockno \in Sectors \cup {NoBlock}
         /\ buf[b].valid \in BOOLEAN /\ buf[b].dirty \in BOOLEAN /\ buf[b].bad \in BOOLEAN
         /\ buf[b].refcnt \in Nat /\ buf[b].owner \in Clients \cup {None}
         /\ buf[b].data \in Int
BY DEF Types, Buffer

\* Who is not idle has a buffer, and the buffer a block.
LEMMA HasBuffer ==
  ASSUME Types, Named, Counted, NEW p \in Clients, bpc[p] # "idle"
  PROVE  at[p] \in Bufs /\ buf[at[p]].blockno \in Sectors
<1>1. at[p] # None
  BY DEF Counted
<1>2. at[p] \in Bufs
  BY <1>1 DEF Types
<1>3. buf[at[p]].blockno # NoBlock
  BY <1>1 DEF Named
<1> QED BY <1>2, <1>3, Fields

\* What is transferred for a buffer leaves its block's contents on the disk.
LEMMA TransferIs ==
  ASSUME Types, Named, Contents, NEW b \in Bufs, buf[b].blockno \in Sectors
  PROVE  /\ Transfer(b, disk) \in [Sectors -> Int]
         /\ Transfer(b, disk)[buf[b].blockno] = block[buf[b].blockno]
         /\ \A k \in Sectors : k # buf[b].blockno => Transfer(b, disk)[k] = disk[k]
<1>1. disk \in [Sectors -> Int] /\ buf[b].data \in Int
  BY Fields DEF Types
<1>2. CASE buf[b].dirty
  <2>1. buf[b].data = block[buf[b].blockno]
    BY <1>2 DEF Contents
  <2> QED BY <1>1, <1>2, <2>1 DEF Transfer
<1>3. CASE ~buf[b].dirty
  <2>1. \A c \in Bufs : buf[c].blockno = buf[b].blockno => c = b
    BY Sizes DEF Named
  <2>2. disk[buf[b].blockno] = block[buf[b].blockno]
    BY <1>3, <2>1 DEF Contents
  <2> QED BY <1>1, <1>3, <2>2 DEF Transfer
<1> QED BY <1>2, <1>3

\* The pinned buffers do not become more.
LEMMA PinsShrink ==
  ASSUME Pins, AtRest' \subseteq AtRest
  PROVE  Pins'
<1>1. AtRest \subseteq Bufs
  BY DEF AtRest
<1>2. IsFiniteSet(AtRest)
  BY <1>1, Sizes, FS_Subset
<1>3. Cardinality(AtRest') <= Cardinality(AtRest) /\ IsFiniteSet(AtRest')
  BY <1>2, FS_Subset
<1>4. Cardinality(AtRest) \in Nat /\ Cardinality(AtRest') \in Nat
  BY <1>2, <1>3, FS_CardinalityType
<1> QED BY <1>3, <1>4, Sizes DEF Pins

\* There is a buffer for a process that has none, if there are as many as the
\* log pins and one for each process.
LEMMA SomeFree ==
  ASSUME Types, Counted, Pins, NEW p \in Clients, bpc[p] = "idle",
         NBUF >= Pinned + Cardinality(Clients)
  PROVE  \E b \in Bufs : buf[b].refcnt = 0 /\ ~buf[b].dirty
<1> DEFINE OtherBufs == {q \in Clients : at[q] \in Bufs}
           Busy == {b \in Bufs : \E q \in Clients : at[q] = b}
<1>1. SUFFICES ASSUME \A b \in Bufs : buf[b].refcnt # 0 \/ buf[b].dirty PROVE FALSE
  OBVIOUS
<1>2. Bufs = AtRest \cup Busy
  <2>1. ASSUME NEW b \in Bufs, b \notin Busy PROVE b \in AtRest
    <3>1. Refers(b) = {}
      BY <2>1 DEF Refers
    <3>2. buf[b].refcnt = 0
      BY <3>1, FS_EmptySet DEF Counted
    <3> QED BY <1>1, <2>1, <3>2 DEF AtRest
  <2> QED BY <2>1 DEF AtRest
<1>3. IsFiniteSet(Clients \ {p}) /\ Cardinality(Clients \ {p}) = Cardinality(Clients) - 1
  BY Sizes, FS_RemoveElement
<1>4. OtherBufs \subseteq Clients \ {p}
  BY Sizes DEF Counted
<1>5. IsFiniteSet(OtherBufs) /\ Cardinality(OtherBufs) <= Cardinality(Clients) - 1
  BY <1>3, <1>4, FS_Subset
<1>6. IsFiniteSet(Busy) /\ Cardinality(Busy) <= Cardinality(OtherBufs)
  <2> DEFINE f == [q \in OtherBufs |-> at[q]]
  <2>1. f \in Surjection(OtherBufs, Busy)
    BY DEF Surjection
  <2> HIDE DEF f, OtherBufs, Busy
  <2> QED BY <1>5, <2>1, FS_Surjection
<1>7. AtRest \subseteq Bufs
  BY DEF AtRest
<1>8. IsFiniteSet(AtRest)
  BY <1>7, Sizes, FS_Subset
<1> HIDE DEF OtherBufs, Busy
<1>9. Cardinality(Bufs) = Cardinality(AtRest) + Cardinality(Busy) - Cardinality(AtRest \cap Busy)
  BY <1>2, <1>6, <1>8, FS_Union
<1>10. IsFiniteSet(AtRest \cap Busy)
  BY <1>8, FS_Intersection
<1>11. /\ Cardinality(AtRest) \in Nat /\ Cardinality(Busy) \in Nat
       /\ Cardinality(AtRest \cap Busy) \in Nat /\ Cardinality(OtherBufs) \in Nat
  BY <1>5, <1>6, <1>8, <1>10, FS_CardinalityType
<1> QED BY <1>5, <1>6, <1>9, <1>11, Sizes DEF Pins

\* bget() finds a last one among the free places of the list.
LEMMA LastOf ==
  ASSUME NEW S \in SUBSET Bufs, S # {}
  PROVE  (CHOOSE i \in S : \A j \in S : j <= i) \in S
<1> DEFINE T == {NBUF - i : i \in S}
<1>1. T \in SUBSET Nat /\ T # {}
  <2>1. \A i \in S : i \in Int /\ NBUF - i \in Nat
    BY Sizes DEF Bufs
  <2>2. PICK i \in S : TRUE
    OBVIOUS
  <2>3. NBUF - i \in T
    OBVIOUS
  <2> QED BY <2>1, <2>3
<1>2. PICK x \in T : \A y \in T : x <= y
  BY <1>1, LeastExists
<1>3. PICK i \in S : x = NBUF - i
  BY <1>2
<1>4. ASSUME NEW j \in S PROVE j <= i
  <2>1. NBUF - j \in T
    OBVIOUS
  <2>2. x <= NBUF - j
    BY <1>2, <2>1
  <2> QED BY <1>3, <2>2, Sizes DEF Bufs
<1> QED BY <1>4

\* brelse() keeps every buffer in the list.
LEMMA MoveKeeps ==
  ASSUME Types, Listed, NEW b \in Bufs
  PROVE  /\ MoveToHead(b) \in [Bufs -> Bufs]
         /\ \A c \in Bufs : \E i \in Bufs : MoveToHead(b)[i] = c
<1> DEFINE i == CHOOSE j \in 1..NBUF : lru[j] = b
<1>1. i \in 1..NBUF /\ lru[i] = b
  BY DEF Listed, Bufs
<1>2. MoveToHead(b) =
        [j \in 1..NBUF |-> IF j = 1 THEN b ELSE IF j <= i THEN lru[j - 1] ELSE lru[j]]
  BY DEF MoveToHead
<1> HIDE DEF i
<1>3. MoveToHead(b) \in [Bufs -> Bufs]
  <2>1. ASSUME NEW j \in 1..NBUF, j # 1 PROVE lru[j] \in Bufs /\ lru[j - 1] \in Bufs
    <3>1. j - 1 \in 1..NBUF
      BY <2>1, Sizes
    <3> QED BY <3>1 DEF Types, Bufs
  <2>2. \A j \in 1..NBUF :
          (IF j = 1 THEN b ELSE IF j <= i THEN lru[j - 1] ELSE lru[j]) \in Bufs
    BY <2>1
  <2> QED BY <1>2, <2>2 DEF Bufs
<1>4. ASSUME NEW c \in Bufs PROVE \E j \in Bufs : MoveToHead(b)[j] = c
  <2>1. CASE c = b
    BY <1>2, <2>1, Sizes DEF Bufs
  <2>2. CASE c # b
    <3>1. PICK j \in 1..NBUF : lru[j] = c
      BY DEF Listed, Bufs
    <3>2. CASE j < i
      <4>1. j + 1 \in 1..NBUF /\ MoveToHead(b)[j + 1] = c
        BY <1>1, <1>2, <3>1, <3>2, Sizes
      <4> QED BY <4>1 DEF Bufs
    <3>3. CASE j > i
      <4>1. MoveToHead(b)[j] = c
        BY <1>1, <1>2, <3>1, <3>3, Sizes
      <4> QED BY <3>1, <4>1 DEF Bufs
    <3>4. j # i
      BY <1>1, <2>2, <3>1
    <3> QED BY <1>1, <3>1, <3>2, <3>3, <3>4, Sizes
  <2> QED BY <2>1, <2>2
<1> QED BY <1>3, <1>4
-----------------------------------------------------------------------------
(* The initial state and the steps.                                        *)

LEMMA InitIInv == binit => IInv
<1> SUFFICES ASSUME binit PROVE IInv
  OBVIOUS
<1>1. Types
  <2>1. buf \in [Bufs -> Buffer]
    BY DEF binit, FreeBuf, Buffer
  <2>2. lru \in [Bufs -> Bufs]
    BY Sizes DEF binit, Bufs
  <2>3. bpc \in [Clients -> BufStages] /\ at \in [Clients -> Bufs \cup {None}]
    BY DEF binit, BufStages
  <2>4. disk \in [Sectors -> Int] /\ block \in [Sectors -> Int]
    BY DEF binit
  <2>5. idequeue \in Seq(Bufs) /\ (active <=> idequeue # <<>>)
    <3>1. idequeue = <<>> /\ active = FALSE
      BY DEF binit
    <3>2. idequeue \in Seq(Bufs)
      BY <3>1
    <3>3. active <=> idequeue # <<>>
      BY <3>1, Zenon
    <3> QED BY <3>2, <3>3
  <2>6. panicked \in BOOLEAN
    BY DEF binit
  <2> QED BY <2>1, <2>2, <2>3, <2>4, <2>5, <2>6 DEF Types
<1>2. Listed
  <2>1. ASSUME NEW b \in Bufs PROVE \E i \in Bufs : lru[i] = b
    <3>1. NBUF + 1 - b \in Bufs /\ lru[NBUF + 1 - b] = b
      BY Sizes DEF binit, Bufs
    <3> QED BY <3>1
  <2> QED BY <2>1 DEF Listed
<1>3. \A b \in Bufs : buf[b] = FreeBuf
  BY DEF binit
<1>4. Named /\ BufOwned /\ Contents
  BY <1>3, Sizes DEF binit, FreeBuf, Named, BufOwned, Contents, Holding
<1>5. Counted
  <2>1. \A b \in Bufs : Refers(b) = {}
    BY Sizes DEF binit, Refers
  <2> QED BY <1>3, <2>1, FS_EmptySet DEF binit, Counted, FreeBuf
<1>6. Queue
  BY DEF binit, Queue
<1>7. AtRest = {}
  BY <1>3 DEF AtRest, FreeBuf
<1>8. Pins
  BY <1>7, FS_EmptySet, Sizes DEF Pins
<1>9. Room
  BY DEF binit, Room
<1> QED BY <1>1, <1>2, <1>4, <1>5, <1>6, <1>8, <1>9 DEF IInv

\* The processes that refer to a buffer stay the same if at does.
LEMMA SameRefers ==
  ASSUME Counted, at' = at,
         \A q \in Clients : bpc'[q] = "idle" <=> bpc[q] = "idle",
         \A c \in Bufs : buf'[c].refcnt = buf[c].refcnt
  PROVE  Counted'
<1>1. \A c : Refers(c)' = Refers(c)
  BY DEF Refers
<1> QED BY <1>1 DEF Counted

LEMMA AcquireKeeps ==
  ASSUME IInv, NEW p \in Clients, acquiresleep(p)
  PROVE  IInv'
<1> USE DEF IInv
<1> DEFINE b == at[p]
<1>1. /\ bpc[p] = "lock" /\ at' = at /\ disk' = disk /\ block' = block /\ lru' = lru
      /\ idequeue' = idequeue /\ active' = active /\ panicked' = panicked
  BY DEF acquiresleep, counts
<1>2. b \in Bufs /\ buf[b].blockno \in Sectors
  BY <1>1, HasBuffer
<1>3. CASE buf[b].owner # None
  <2>1. buf' = buf /\ bpc' = [bpc EXCEPT ![p] = "sleeplock"]
    BY <1>3 DEF acquiresleep, Become
  <2>2. bpc'[p] = "sleeplock" /\ \A q \in Clients : q # p => bpc'[q] = bpc[q]
    BY <2>1 DEF Types
  <2>3. Types'
    BY <1>1, <2>1 DEF Types, BufStages
  <2>4. Listed' /\ Named' /\ Room'
    BY <1>1, <2>1 DEF Listed, Named, Room
  <2>5. Counted'
    BY <1>1, <2>1, <2>2, SameRefers
  <2>6. BufOwned'
    BY <1>1, <1>3, <2>1, <2>2, Fields DEF BufOwned, Holding
  <2>7. Contents' /\ Queue'
    BY <1>1, <2>1, <2>2 DEF Contents, Queue
  <2>8. Pins'
    <3>1. AtRest' \subseteq AtRest
      BY <1>1, <2>1, <2>2 DEF AtRest, Asking
    <3> QED BY <3>1, PinsShrink
  <2> QED BY <2>3, <2>4, <2>5, <2>6, <2>7, <2>8
<1>4. CASE buf[b].owner = None
  <2> DEFINE to == IF buf[b].valid THEN "hold" ELSE "iderw"
  <2>1. buf' = [buf EXCEPT ![b].owner = p] /\ bpc' = [bpc EXCEPT ![p] = to]
    BY <1>4 DEF acquiresleep, Become
  <2>2. bpc'[p] = to /\ \A q \in Clients : q # p => bpc'[q] = bpc[q]
    BY <2>1 DEF Types
  <2>3. /\ buf' \in [Bufs -> Buffer] /\ buf'[b].owner = p
        /\ \A c \in Bufs : c # b => buf'[c] = buf[c]
        /\ buf'[b].blockno = buf[b].blockno /\ buf'[b].valid = buf[b].valid
        /\ buf'[b].dirty = buf[b].dirty /\ buf'[b].refcnt = buf[b].refcnt
        /\ buf'[b].data = buf[b].data /\ buf'[b].bad = buf[b].bad
    BY <1>2, <2>1 DEF Types, Buffer
  <2>4. to \in {"hold", "iderw"}
    OBVIOUS
  <2>5. Types'
    <3>1. bpc' \in [Clients -> BufStages]
      BY <2>1, <2>4 DEF Types, BufStages
    <3> QED BY <1>1, <2>3, <3>1 DEF Types
  <2>12. \A c \in Bufs :
           /\ buf'[c].blockno = buf[c].blockno /\ buf'[c].valid = buf[c].valid
           /\ buf'[c].dirty = buf[c].dirty /\ buf'[c].refcnt = buf[c].refcnt
           /\ buf'[c].data = buf[c].data /\ buf'[c].bad = buf[c].bad
    BY <2>3
  <2>13. \A q \in Clients : at[q] # None => at[q] \in Bufs
    BY DEF Types
  <2>6. Listed' /\ Named' /\ Room'
    BY <1>1, <2>12, <2>13 DEF Listed, Named, Room
  <2>7. Counted'
    BY <1>1, <2>2, <2>4, <2>12, SameRefers
  <2>8. BufOwned'
    <3>1. \A q \in Clients : bpc[q] \in Holding => at[q] # b /\ at[q] \in Bufs
      BY <1>2, <1>4, <2>13, Sizes DEF BufOwned, Counted, Holding
    <3>2. \A q \in Clients : bpc[q] \in Holding => q # p
      BY <1>1 DEF Holding
    <3>3. \A q \in Clients : bpc'[q] \in Holding => buf'[at'[q]].owner = q
      BY <1>1, <2>2, <2>3, <3>1 DEF BufOwned
    <3>4. ASSUME NEW c \in Bufs, buf'[c].owner # None
          PROVE  at'[buf'[c].owner] = c /\ bpc'[buf'[c].owner] \in Holding
      <4>1. CASE c = b
        BY <1>1, <2>2, <2>3, <2>4, <4>1 DEF Holding
      <4>2. CASE c # b
        BY <1>1, <2>2, <2>3, <3>2, <3>4, <4>2, Fields DEF BufOwned
      <4> QED BY <4>1, <4>2
    <3>5. ASSUME NEW q \in Clients, bpc'[q] = "sleeplock" PROVE buf'[at'[q]].owner # None
      <4>1. bpc[q] = "sleeplock"
        BY <2>2, <2>4, <3>5
      <4>2. at[q] # b /\ at[q] \in Bufs
        BY <1>4, <2>13, <4>1 DEF BufOwned, Counted
      <4> QED BY <1>1, <2>3, <4>1, <4>2 DEF BufOwned
    <3> QED BY <3>3, <3>4, <3>5 DEF BufOwned
  <2>9. Contents'
    <3>1. ASSUME NEW q \in Clients, bpc'[q] = "hold" PROVE buf'[at'[q]].valid
      <4>1. CASE q = p
        BY <1>1, <1>2, <2>2, <2>12, <3>1, <4>1
      <4>2. CASE q # p
        BY <1>1, <2>2, <2>12, <2>13, <3>1, <4>2 DEF Contents, Counted
      <4> QED BY <4>1, <4>2
    <3> QED BY <1>1, <2>12, <3>1 DEF Contents
  <2>10. Queue'
    <3>1. idequeue # <<>> => idequeue[1] \in Bufs
      BY DEF Types
    <3>2. \A q \in Clients : bpc'[q] = "sleepdisk" <=> bpc[q] = "sleepdisk"
      BY <1>1, <2>2, <2>4
    <3> QED BY <1>1, <2>12, <3>1, <3>2 DEF Queue
  <2>11. Pins'
    <3>1. AtRest' \subseteq AtRest
      BY <1>1, <2>2, <2>3 DEF AtRest, Asking
    <3> QED BY <3>1, PinsShrink
  <2> QED BY <2>5, <2>6, <2>7, <2>8, <2>9, <2>10, <2>11
<1> QED BY <1>3, <1>4

\* iderw() changes no buffer: it is queued, and started if it is the first.
LEMMA IderwKeeps ==
  ASSUME IInv, NEW p \in Clients, iderw(p)
  PROVE  IInv'
<1> USE DEF IInv
<1> DEFINE b == at[p]
<1>1. /\ bpc[p] = "iderw" /\ at' = at /\ buf' = buf /\ block' = block /\ lru' = lru
      /\ idequeue' = Append(idequeue, b) /\ active' = (active \/ idequeue = <<>>)
      /\ disk' = (IF idequeue = <<>> THEN Transfer(b, disk) ELSE disk)
      /\ bpc' = [bpc EXCEPT ![p] = "sleepdisk"] /\ panicked' = panicked
  BY DEF iderw, counts, Become
<1>2. b \in Bufs /\ buf[b].blockno \in Sectors
  BY <1>1, HasBuffer
<1>3. bpc'[p] = "sleepdisk" /\ \A q \in Clients : q # p => bpc'[q] = bpc[q]
  BY <1>1 DEF Types
<1>4. /\ idequeue' \in Seq(Bufs) /\ idequeue' # <<>> /\ Len(idequeue) \in Nat
      /\ Len(idequeue') = Len(idequeue) + 1 /\ idequeue'[Len(idequeue) + 1] = b
      /\ \A i \in 1..Len(idequeue) : idequeue'[i] = idequeue[i] /\ idequeue[i] \in Bufs
  BY <1>1, <1>2 DEF Types
<1>5. \A k \in Sectors : disk'[k] = disk[k] \/ disk'[k] = block[k]
  BY <1>1, <1>2, TransferIs
<1>6. Types'
  <2>1. disk' \in [Sectors -> Int]
    BY <1>1, <1>2, TransferIs DEF Types
  <2>2. bpc' \in [Clients -> BufStages]
    BY <1>1 DEF Types, BufStages
  <2>3. active' = TRUE
    BY <1>1 DEF Types
  <2> QED BY <1>1, <1>4, <2>1, <2>2, <2>3 DEF Types
<1>7. Listed' /\ Named' /\ Room'
  BY <1>1 DEF Listed, Named, Room
<1>8. Counted'
  BY <1>1, <1>3, SameRefers
<1>9. BufOwned'
  BY <1>1, <1>3 DEF BufOwned, Holding
<1>10. Contents'
  BY <1>1, <1>3, <1>5 DEF Contents
<1>11. Queue'
  <2>1. \A i \in 1..Len(idequeue) : idequeue[i] # b
    <3>1. ASSUME NEW i \in 1..Len(idequeue), idequeue[i] = b PROVE FALSE
      <4>1. PICK q \in Clients : bpc[q] = "sleepdisk" /\ at[q] = b
        BY <3>1 DEF Queue
      <4> QED BY <1>1, <4>1, OneBufHolder DEF Holding
    <3> QED BY <3>1
  <2>2. \A i, j \in 1..Len(idequeue') : idequeue'[i] = idequeue'[j] => i = j
    <3> DEFINE n == Len(idequeue)
    <3>1. \A i, j \in 1..n : idequeue[i] = idequeue[j] => i = j
      BY DEF Queue
    <3>2. \A i \in 1..Len(idequeue') : i = n + 1 \/ i \in 1..n
      BY <1>4
    <3>3. \A i \in 1..n : idequeue'[i] = idequeue[i] /\ idequeue'[i] # b
      BY <1>4, <2>1
    <3>4. idequeue'[n + 1] = b
      BY <1>4
    <3> HIDE DEF n, b
    <3> QED BY <3>1, <3>2, <3>3, <3>4
  <2>3. ASSUME NEW i \in 1..Len(idequeue')
        PROVE  \E q \in Clients : bpc'[q] = "sleepdisk" /\ at'[q] = idequeue'[i]
    <3>1. CASE i = Len(idequeue) + 1
      BY <1>1, <1>3, <1>4, <3>1
    <3>2. CASE i # Len(idequeue) + 1
      <4>1. i \in 1..Len(idequeue)
        BY <1>4, <3>2
      <4>2. PICK q \in Clients : bpc[q] = "sleepdisk" /\ at[q] = idequeue[i]
        BY <4>1 DEF Queue
      <4> QED BY <1>1, <1>3, <1>4, <4>1, <4>2
    <3> QED BY <3>1, <3>2
  <2>4. ASSUME NEW q \in Clients, bpc'[q] = "sleepdisk"
        PROVE  \E i \in 1..Len(idequeue') : idequeue'[i] = at'[q]
    <3>1. CASE q = p
      BY <1>1, <1>4, <3>1
    <3>2. CASE q # p
      <4>1. PICK i \in 1..Len(idequeue) : idequeue[i] = at[q]
        BY <1>3, <2>4, <3>2 DEF Queue
      <4> QED BY <1>1, <1>4, <4>1
    <3> QED BY <3>1, <3>2
  <2>5. disk'[buf'[idequeue'[1]].blockno] = block'[buf'[idequeue'[1]].blockno]
    <3>1. CASE idequeue = <<>>
      <4>1. idequeue'[1] = b
        BY <1>4, <3>1
      <4> QED BY <1>1, <1>2, <3>1, <4>1, TransferIs
    <3>2. CASE idequeue # <<>>
      <4>1. 1 \in 1..Len(idequeue)
        BY <1>4, <3>2 DEF Types
      <4> QED BY <1>1, <1>4, <3>2, <4>1 DEF Queue
    <3> QED BY <3>1, <3>2
  <2> QED BY <2>2, <2>3, <2>4, <2>5 DEF Queue
<1>12. Pins'
  <2>1. AtRest' \subseteq AtRest
    BY <1>1, <1>3 DEF AtRest, Asking
  <2> QED BY <2>1, PinsShrink
<1> QED BY <1>6, <1>7, <1>8, <1>9, <1>10, <1>11, <1>12

LEMMA OneBuffer ==
  ASSUME Types, NEW b \in Bufs, NEW x \in Buffer, buf' = [buf EXCEPT ![b] = x]
  PROVE  /\ buf' \in [Bufs -> Buffer] /\ buf'[b] = x
         /\ \A c \in Bufs : c # b => buf'[c] = buf[c]
<1>1. buf \in [Bufs -> Buffer]
  BY DEF Types
<1>2. buf'[b] = x /\ \A c \in Bufs : c # b => buf'[c] = buf[c]
  BY <1>1
<1>3. buf' \in [Bufs -> Buffer]
  BY <1>1
<1> QED BY <1>2, <1>3

\* A buffer that has been read or written.
LEMMA ServedBuffer ==
  ASSUME Types, NEW b \in Bufs, NEW error \in BOOLEAN, NEW v \in Int,
         buf' = [buf EXCEPT ![b].valid = TRUE, ![b].dirty = FALSE, ![b].bad = error,
                            ![b].data = v]
  PROVE  /\ buf' \in [Bufs -> Buffer]
         /\ \A c \in Bufs : c # b => buf'[c] = buf[c]
         /\ buf'[b].blockno = buf[b].blockno /\ buf'[b].refcnt = buf[b].refcnt
         /\ buf'[b].owner = buf[b].owner
         /\ buf'[b].valid = TRUE /\ buf'[b].dirty = FALSE
         /\ buf'[b].bad = error /\ buf'[b].data = v
<1> DEFINE x == [buf[b] EXCEPT !.valid = TRUE, !.dirty = FALSE, !.bad = error, !.data = v]
<1>1. buf[b] \in Buffer
  BY DEF Types
<1>2. x \in Buffer
  BY <1>1 DEF Buffer
<1>3. buf' = [buf EXCEPT ![b] = x]
  OBVIOUS
<1>4. /\ x.blockno = buf[b].blockno /\ x.refcnt = buf[b].refcnt /\ x.owner = buf[b].owner
      /\ x.valid = TRUE /\ x.dirty = FALSE /\ x.bad = error /\ x.data = v
  BY <1>1 DEF Buffer
<1> HIDE DEF x
<1>5. buf' \in [Bufs -> Buffer] /\ buf'[b] = x /\ \A c \in Bufs : c # b => buf'[c] = buf[c]
  BY <1>2, <1>3, OneBuffer
<1> QED BY <1>4, <1>5

\* The holder that waits for the disk has its buffer read or written: whatever
\* the request was, the buffer is then valid and clean, the block's contents
\* are on the disk, and in the buffer if they could be read.
LEMMA ServedKeeps ==
  ASSUME IInv, NEW p \in Clients, bpc[p] \in Asking,
         NEW to \in {"hold", "done"},
         bpc' = [bpc EXCEPT ![p] = to], at' = at, block' = block, lru' = lru,
         panicked' = panicked,
         buf' \in [Bufs -> Buffer],
         \A c \in Bufs : c # at[p] => buf'[c] = buf[c],
         buf'[at[p]].blockno = buf[at[p]].blockno,
         buf'[at[p]].refcnt = buf[at[p]].refcnt,
         buf'[at[p]].owner = buf[at[p]].owner,
         buf'[at[p]].valid, ~buf'[at[p]].dirty,
         ~buf'[at[p]].bad => buf'[at[p]].data = block[buf[at[p]].blockno],
         disk' \in [Sectors -> Int],
         disk'[buf[at[p]].blockno] = block[buf[at[p]].blockno],
         \A k \in Sectors : disk'[k] = disk[k] \/ disk'[k] = block[k]
  PROVE  /\ bpc' \in [Clients -> BufStages]
         /\ \A q \in Clients : bpc'[q] = IF q = p THEN to ELSE bpc[q]
         /\ Listed' /\ Named' /\ Counted' /\ BufOwned' /\ Contents' /\ Pins' /\ Room'
<1> USE DEF IInv
<1> DEFINE b == at[p]
<1>1. b \in Bufs /\ buf[b].blockno \in Sectors
  BY HasBuffer DEF Asking
<1>2. /\ \A c \in Bufs : c # b => buf'[c] = buf[c]
      /\ buf'[b].blockno = buf[b].blockno
      /\ buf'[b].valid /\ ~buf'[b].dirty
      /\ ~buf'[b].bad => buf'[b].data = block[buf[b].blockno]
  OBVIOUS
<1>3. bpc' \in [Clients -> BufStages] /\ \A q \in Clients : bpc'[q] = IF q = p THEN to ELSE bpc[q]
  BY DEF Types, BufStages
<1>4. /\ \A c \in Bufs : /\ buf'[c].blockno = buf[c].blockno
                         /\ buf'[c].refcnt = buf[c].refcnt /\ buf'[c].owner = buf[c].owner
      /\ \A q \in Clients : at[q] # None => at[q] \in Bufs
  BY DEF Types
<1>5. Listed' /\ Room'
  BY DEF Listed, Room
<1>6. Named'
  <2>1. \A c \in Bufs : buf'[c].valid => buf'[c].blockno # NoBlock
    BY <1>1, <1>2, Sizes DEF Named
  <2>2. \A q \in Clients : at'[q] # None => buf'[at'[q]].blockno # NoBlock
    BY <1>4 DEF Named
  <2>3. \A c, d \in Bufs :
          c # d /\ buf'[c].blockno # NoBlock => buf'[c].blockno # buf'[d].blockno
    BY <1>4 DEF Named
  <2> QED BY <2>1, <2>2, <2>3 DEF Named
<1>7. Counted'
  BY <1>3, <1>4, SameRefers DEF Asking
<1>8. BufOwned'
  <2>1. bpc[p] \in Holding /\ to \in Holding
    BY DEF Asking, Holding
  <2>2. \A q \in Clients : bpc'[q] \in Holding <=> bpc[q] \in Holding
    BY <1>3, <2>1
  <2>3. \A q \in Clients : bpc'[q] = "sleeplock" <=> bpc[q] = "sleeplock"
    BY <1>3 DEF Asking
  <2>4. \A q \in Clients : bpc[q] \in Holding \/ bpc[q] = "sleeplock" => at[q] \in Bufs
    BY <1>4 DEF Counted, Holding
  <2>5. \A c \in Bufs : buf[c].owner # None => buf[c].owner \in Clients
    BY Fields
  <2>6. \A q \in Clients : bpc'[q] \in Holding => buf'[at'[q]].owner = q
    BY <1>4, <2>2, <2>4 DEF BufOwned
  <2>7. \A c \in Bufs : buf'[c].owner # None => /\ at'[buf'[c].owner] = c
                                                /\ bpc'[buf'[c].owner] \in Holding
    BY <1>4, <2>2, <2>5 DEF BufOwned
  <2>8. \A q \in Clients : bpc'[q] = "sleeplock" => buf'[at'[q]].owner # None
    BY <1>4, <2>3, <2>4 DEF BufOwned
  <2> QED BY <2>6, <2>7, <2>8 DEF BufOwned
<1>9. Contents'
  <2>1. ASSUME NEW c \in Bufs
        PROVE  /\ buf'[c].valid /\ ~buf'[c].bad => buf'[c].data = block'[buf'[c].blockno]
               /\ buf'[c].dirty => buf'[c].valid /\ ~buf'[c].bad
    BY <1>2 DEF Contents
  <2>2. ASSUME NEW q \in Clients, bpc'[q] = "hold" PROVE buf'[at'[q]].valid
    <3>1. CASE at[q] = b
      BY <1>2, <3>1
    <3>2. CASE at[q] # b
      <4>1. bpc[q] = "hold" /\ at[q] \in Bufs
        BY <1>3, <1>4, <2>2, <3>2 DEF Counted
      <4> QED BY <1>2, <3>2, <4>1 DEF Contents
    <3> QED BY <3>1, <3>2
  <2>3. ASSUME NEW k \in Sectors, disk'[k] # block'[k]
        PROVE  \E c \in Bufs : buf'[c].blockno = k /\ buf'[c].dirty
    <3>1. disk[k] # block[k] /\ k # buf[b].blockno
      BY <2>3
    <3>2. PICK c \in Bufs : buf[c].blockno = k /\ buf[c].dirty
      BY <3>1 DEF Contents
    <3>3. c # b
      BY <3>1, <3>2
    <3> QED BY <1>2, <3>2, <3>3
  <2> QED BY <2>1, <2>2, <2>3 DEF Contents
<1>10. Pins'
  <2>1. ASSUME NEW c \in Bufs, c \in AtRest' PROVE c \in AtRest
    <3>1. c # b
      BY <1>2, <2>1 DEF AtRest
    <3>2. buf[c].dirty /\ \A q \in Clients : at[q] = c => q # p /\ bpc[q] \notin Asking
      BY <1>2, <1>3, <2>1, <3>1 DEF AtRest
    <3> QED BY <3>2 DEF AtRest
  <2>2. AtRest' \subseteq AtRest
    BY <2>1 DEF AtRest
  <2> QED BY <2>2, PinsShrink
<1> QED BY <1>3, <1>5, <1>6, <1>7, <1>8, <1>9, <1>10

LEMMA MemiderwKeeps ==
  ASSUME IInv, NEW p \in Clients, memiderw(p)
  PROVE  IInv'
<1> USE DEF IInv
<1> DEFINE b == at[p]
           to == IF buf[b].dirty THEN "done" ELSE "hold"
<1>1. /\ bpc[p] = "iderw" /\ at' = at /\ block' = block /\ lru' = lru
      /\ idequeue' = idequeue /\ active' = active /\ panicked' = panicked
      /\ disk' = Transfer(b, disk)
      /\ bpc' = [bpc EXCEPT ![p] = to]
      /\ buf' = [buf EXCEPT ![b].valid = TRUE, ![b].dirty = FALSE, ![b].bad = FALSE,
                            ![b].data = disk'[buf[b].blockno]]
  BY DEF memiderw, counts, Become
<1>2. b \in Bufs /\ buf[b].blockno \in Sectors
  BY <1>1, HasBuffer
<1>3. /\ disk' \in [Sectors -> Int]
      /\ disk'[buf[b].blockno] = block[buf[b].blockno]
      /\ \A k \in Sectors : disk'[k] = disk[k] \/ disk'[k] = block[k]
  BY <1>1, <1>2, TransferIs
<1>4. /\ buf' \in [Bufs -> Buffer]
      /\ \A c \in Bufs : c # b => buf'[c] = buf[c]
      /\ buf'[b].blockno = buf[b].blockno /\ buf'[b].refcnt = buf[b].refcnt
      /\ buf'[b].owner = buf[b].owner
      /\ buf'[b].valid = TRUE /\ buf'[b].dirty = FALSE
      /\ buf'[b].data = disk'[buf[b].blockno]
  <2>1. disk'[buf[b].blockno] \in Int
    BY <1>2, <1>3
  <2>2. FALSE \in BOOLEAN
    OBVIOUS
  <2> DEFINE v == disk'[buf[b].blockno]
  <2>3. Types /\ v \in Int /\ buf' = [buf EXCEPT ![b].valid = TRUE, ![b].dirty = FALSE,
                                               ![b].bad = FALSE, ![b].data = v]
    BY <1>1, <2>1
  <2>4. b \in Bufs BY <1>2
  <2> HIDE DEF v, b
  <2>5. /\ buf' \in [Bufs -> Buffer]
        /\ \A c \in Bufs : c # b => buf'[c] = buf[c]
        /\ buf'[b].blockno = buf[b].blockno /\ buf'[b].refcnt = buf[b].refcnt
        /\ buf'[b].owner = buf[b].owner
        /\ buf'[b].valid = TRUE /\ buf'[b].dirty = FALSE /\ buf'[b].data = v
    BY <2>2, <2>3, <2>4, ServedBuffer
  <2> QED BY <2>5 DEF v
<1>5. to \in {"hold", "done"} /\ bpc[p] \in Asking
  BY <1>1 DEF Asking
<1> HIDE DEF to
<1>6. /\ bpc' \in [Clients -> BufStages]
      /\ \A q \in Clients : bpc'[q] = IF q = p THEN to ELSE bpc[q]
      /\ Listed' /\ Named' /\ Counted' /\ BufOwned' /\ Contents' /\ Pins' /\ Room'
  BY <1>1, <1>3, <1>4, <1>5, ServedKeeps
<1>7. Types'
  BY <1>1, <1>3, <1>4, <1>6 DEF Types
<1>8. Queue'
  <2>1. \A q \in Clients : bpc'[q] = "sleepdisk" <=> bpc[q] = "sleepdisk"
    BY <1>1, <1>5, <1>6
  <2>2. ASSUME idequeue # <<>>
        PROVE  disk'[buf'[idequeue[1]].blockno] = block[buf'[idequeue[1]].blockno]
    <3>1. idequeue[1] \in Bufs /\ 1 \in 1..Len(idequeue)
      BY <2>2 DEF Types
    <3>2. buf'[idequeue[1]].blockno = buf[idequeue[1]].blockno
      BY <1>4, <3>1
    <3>3. PICK q \in Clients : bpc[q] = "sleepdisk" /\ at[q] = idequeue[1]
      BY <3>1 DEF Queue
    <3>4. buf[idequeue[1]].blockno \in Sectors
      BY <3>3, HasBuffer
    <3> QED BY <1>3, <2>2, <3>2, <3>4 DEF Queue
  <2> QED BY <1>1, <2>1, <2>2 DEF Queue
<1> QED BY <1>6, <1>7, <1>8

\* The interrupt for the first request, whose sleeper is its buffer's holder.
LEMMA IntrKeeps ==
  ASSUME IInv, NEW error \in BOOLEAN, ideintr(error)
  PROVE  IInv'
<1> USE DEF IInv
<1> DEFINE b == Head(idequeue)
           read == ~buf[b].dirty
           to == IF read THEN "hold" ELSE "done"
           v == IF read /\ ~error THEN disk[buf[b].blockno] ELSE buf[b].data
<1>1. /\ active /\ (error => read) /\ at' = at /\ block' = block /\ lru' = lru
      /\ panicked' = panicked
      /\ idequeue' = Tail(idequeue) /\ active' = (Len(idequeue) > 1)
      /\ disk' = (IF Len(idequeue) > 1 THEN Transfer(idequeue[2], disk) ELSE disk)
      /\ bpc' = Retry("sleepdisk", b, to)
  BY DEF ideintr, counts
<1>2. buf' = [buf EXCEPT ![b].valid = TRUE, ![b].dirty = FALSE, ![b].bad = error,
                         ![b].data = IF read /\ ~error THEN disk[buf[b].blockno] ELSE @]
  BY DEF ideintr
<1>3. /\ idequeue # <<>> /\ Len(idequeue) \in Nat \ {0} /\ b = idequeue[1]
      /\ \A i \in 1..Len(idequeue) : idequeue[i] \in Bufs
      /\ idequeue' \in Seq(Bufs) /\ Len(idequeue') = Len(idequeue) - 1
      /\ \A i \in 1..(Len(idequeue) - 1) : idequeue'[i] = idequeue[i + 1]
  BY <1>1 DEF Types
<1> HIDE DEF b
<1>4. PICK p \in Clients : bpc[p] = "sleepdisk" /\ at[p] = b
  BY <1>3 DEF Queue
<1>5. b \in Bufs /\ buf[b].blockno \in Sectors
  BY <1>4, HasBuffer
<1>6. /\ disk \in [Sectors -> Int] /\ disk[buf[b].blockno] = block[buf[b].blockno]
      /\ buf[b].data \in Int /\ buf[b].dirty \in BOOLEAN
  BY <1>3, <1>5, Fields DEF Queue, Types
<1>7. to \in {"hold", "done"} /\ v \in Int
  BY <1>5, <1>6
<1>8. ~error => v = block[buf[b].blockno]
  BY <1>5, <1>6 DEF Contents
<1>9. /\ buf' \in [Bufs -> Buffer]
      /\ \A c \in Bufs : c # b => buf'[c] = buf[c]
      /\ buf'[b].blockno = buf[b].blockno /\ buf'[b].refcnt = buf[b].refcnt
      /\ buf'[b].owner = buf[b].owner
      /\ buf'[b].valid = TRUE /\ buf'[b].dirty = FALSE
      /\ buf'[b].bad = error /\ buf'[b].data = v
  <2>1. buf' = [buf EXCEPT ![b].valid = TRUE, ![b].dirty = FALSE, ![b].bad = error,
                           ![b].data = v]
    BY <1>2, <1>5 DEF Types, Buffer
  <2> HIDE DEF v
  <2> QED BY <1>5, <1>7, <2>1, ServedBuffer
<1>10. /\ disk' \in [Sectors -> Int]
       /\ Len(idequeue) > 1 => disk'[buf[idequeue[2]].blockno] = block[buf[idequeue[2]].blockno]
       /\ \A k \in Sectors : disk'[k] = disk[k] \/ disk'[k] = block[k]
  <2>1. CASE Len(idequeue) > 1
    <3>1. 2 \in 1..Len(idequeue)
      BY <1>3, <2>1
    <3>2. PICK q \in Clients : bpc[q] = "sleepdisk" /\ at[q] = idequeue[2]
      BY <3>1 DEF Queue
    <3>3. idequeue[2] \in Bufs /\ buf[idequeue[2]].blockno \in Sectors
      BY <3>2, HasBuffer
    <3>4. disk' = Transfer(idequeue[2], disk)
      BY <1>1, <2>1
    <3> QED BY <3>3, <3>4, TransferIs
  <2>2. CASE ~(Len(idequeue) > 1)
    BY <1>1, <1>6, <2>2
  <2> QED BY <2>1, <2>2
<1>11. bpc' = [bpc EXCEPT ![p] = to]
  <2>1. ASSUME NEW q \in Clients PROVE (bpc[q] = "sleepdisk" /\ at[q] = b) <=> q = p
    BY <1>4, OneBufHolder DEF Holding
  <2>2. bpc' = [q \in Clients |-> IF bpc[q] = "sleepdisk" /\ at[q] = b THEN to ELSE bpc[q]]
    BY <1>1 DEF Retry
  <2> HIDE DEF to
  <2> QED BY <2>1, <2>2 DEF Types
<1>12. disk'[buf[b].blockno] = block[buf[b].blockno]
  BY <1>5, <1>6, <1>10
<1>13. bpc[p] \in Asking
  BY <1>4 DEF Asking
<1>14. ~buf'[b].bad => buf'[b].data = block[buf[b].blockno]
  BY <1>8, <1>9
<1>15. buf'[b].valid /\ ~buf'[b].dirty
  BY <1>9
<1> HIDE DEF to, v, read
<1>16. /\ bpc' \in [Clients -> BufStages]
       /\ \A q \in Clients : bpc'[q] = IF q = p THEN to ELSE bpc[q]
       /\ Listed' /\ Named' /\ Counted' /\ BufOwned' /\ Contents' /\ Pins' /\ Room'
  BY <1>1, <1>4, <1>7, <1>9, <1>10, <1>11, <1>12, <1>13, <1>14, <1>15, ServedKeeps
<1>17. Types'
  <2>1. active' <=> idequeue' # <<>>
    <3>1. Len(idequeue) > 1 <=> idequeue' # <<>>
      BY <1>3
    <3>2. active' = (Len(idequeue) > 1)
      BY <1>1
    <3> QED BY <3>1, <3>2
  <2> QED BY <1>1, <1>3, <1>9, <1>10, <1>16, <2>1 DEF Types
<1>18. Queue'
  <2>1. \A q \in Clients : bpc'[q] = "sleepdisk" <=> q # p /\ bpc[q] = "sleepdisk"
    BY <1>7, <1>16
  <2>2. ASSUME NEW i \in 1..Len(idequeue'), NEW j \in 1..Len(idequeue'),
               idequeue'[i] = idequeue'[j]
        PROVE  i = j
    <3>1. i + 1 \in 1..Len(idequeue) /\ j + 1 \in 1..Len(idequeue)
      BY <1>3
    <3>2. idequeue[i + 1] = idequeue[j + 1]
      BY <1>3, <2>2
    <3>3. i + 1 = j + 1
      BY <3>1, <3>2 DEF Queue
    <3> QED BY <3>3
  <2>3. ASSUME NEW i \in 1..Len(idequeue')
        PROVE  \E q \in Clients : bpc'[q] = "sleepdisk" /\ at'[q] = idequeue'[i]
    <3>1. i + 1 \in 1..Len(idequeue) /\ idequeue'[i] = idequeue[i + 1] /\ 1 \in 1..Len(idequeue)
      BY <1>3
    <3>2. PICK q \in Clients : bpc[q] = "sleepdisk" /\ at[q] = idequeue[i + 1]
      BY <3>1 DEF Queue
    <3>3. idequeue[i + 1] # idequeue[1]
      <4>1. i + 1 # 1
        OBVIOUS
      <4> QED BY <3>1, <4>1 DEF Queue
    <3>4. q # p
      BY <1>3, <1>4, <3>2, <3>3
    <3> QED BY <1>1, <2>1, <3>1, <3>2, <3>4
  <2>4. ASSUME NEW q \in Clients, bpc'[q] = "sleepdisk"
        PROVE  \E i \in 1..Len(idequeue') : idequeue'[i] = at'[q]
    <3>1. q # p /\ bpc[q] = "sleepdisk"
      BY <2>1, <2>4
    <3>2. PICK i \in 1..Len(idequeue) : idequeue[i] = at[q]
      BY <3>1 DEF Queue
    <3>3. at[q] # b
      BY <1>4, <3>1, OneBufHolder DEF Holding
    <3>4. i - 1 \in 1..Len(idequeue') /\ idequeue'[i - 1] = idequeue[i]
      BY <1>3, <3>2, <3>3
    <3> QED BY <1>1, <3>2, <3>4
  <2>5. ASSUME idequeue' # <<>>
        PROVE  disk'[buf'[idequeue'[1]].blockno] = block'[buf'[idequeue'[1]].blockno]
    <3>1. Len(idequeue) > 1
      BY <1>3, <2>5
    <3>2. idequeue'[1] = idequeue[2] /\ idequeue[2] \in Bufs
      BY <1>3, <3>1
    <3>3. buf'[idequeue[2]].blockno = buf[idequeue[2]].blockno
      BY <1>9, <3>2
    <3> QED BY <1>1, <1>10, <3>1, <3>2, <3>3
  <2> QED BY <2>2, <2>3, <2>4, <2>5 DEF Queue
<1> QED BY <1>16, <1>17, <1>18

\* The holder changes the contents of its block, in the buffer only.
LEMMA ChangedKeeps ==
  ASSUME IInv, NEW p \in Clients, bpc[p] = "hold",
         NEW to \in {"done", "iderw"}, NEW v \in Int,
         bpc' = [bpc EXCEPT ![p] = to],
         buf' = [buf EXCEPT ![at[p]].data = v, ![at[p]].dirty = TRUE, ![at[p]].bad = FALSE],
         block' = [block EXCEPT ![buf[at[p]].blockno] = v],
         at' = at, lru' = lru, idequeue' = idequeue, active' = active, disk' = disk,
         panicked' = panicked
  PROVE  /\ Types' /\ Listed' /\ Named' /\ Counted' /\ BufOwned' /\ Contents' /\ Queue' /\ Room'
         /\ \A c \in Bufs : c # at[p] => buf'[c] = buf[c]
         /\ \A q \in Clients : bpc'[q] = IF q = p THEN to ELSE bpc[q]
<1> USE DEF IInv
<1> DEFINE b == at[p]
           n == buf[b].blockno
           x == [buf[b] EXCEPT !.data = v, !.dirty = TRUE, !.bad = FALSE]
<1>1. b \in Bufs /\ n \in Sectors
  BY HasBuffer
<1>2. buf[b].valid
  BY DEF Contents
<1>3. /\ buf' \in [Bufs -> Buffer]
      /\ buf'[b].data = v /\ buf'[b].dirty /\ ~buf'[b].bad
      /\ \A c \in Bufs : c # b => buf'[c] = buf[c]
      /\ \A c \in Bufs : /\ buf'[c].blockno = buf[c].blockno /\ buf'[c].valid = buf[c].valid
                         /\ buf'[c].refcnt = buf[c].refcnt /\ buf'[c].owner = buf[c].owner
  <2>1. buf \in [Bufs -> Buffer] /\ buf[b] \in Buffer
    BY <1>1 DEF Types
  <2>2. buf' = [buf EXCEPT ![b] = x]
    OBVIOUS
  <2>3. x \in Buffer
    BY <2>1 DEF Buffer
  <2>4. /\ x.data = v /\ x.dirty /\ ~x.bad /\ x.blockno = buf[b].blockno
        /\ x.valid = buf[b].valid /\ x.refcnt = buf[b].refcnt /\ x.owner = buf[b].owner
    BY <2>1 DEF Buffer
  <2> HIDE DEF x
  <2>5. /\ buf' \in [Bufs -> Buffer] /\ buf'[b] = x
        /\ \A c \in Bufs : c # b => buf'[c] = buf[c]
    BY <1>1, <2>2, <2>3, OneBuffer
  <2> QED BY <2>4, <2>5
<1>4. bpc' \in [Clients -> BufStages] /\ \A q \in Clients : bpc'[q] = IF q = p THEN to ELSE bpc[q]
  BY DEF Types, BufStages
<1>5. block' \in [Sectors -> Int] /\ block'[n] = v /\ \A k \in Sectors : k # n => block'[k] = block[k]
  BY <1>1 DEF Types
<1>6. \A q \in Clients : at[q] # None => at[q] \in Bufs
  BY DEF Types
<1>7. \A c \in Bufs : c # b => buf[c].blockno # n
  BY <1>1, Sizes DEF Named
<1> HIDE DEF n
<1>8. Types'
  BY <1>3, <1>4, <1>5 DEF Types
<1>9. Listed' /\ Room'
  BY DEF Listed, Room
<1>10. Named'
  <2>1. \A c \in Bufs : buf'[c].valid => buf'[c].blockno # NoBlock
    BY <1>3 DEF Named
  <2>2. \A q \in Clients : at'[q] # None => buf'[at'[q]].blockno # NoBlock
    BY <1>3, <1>6 DEF Named
  <2>3. \A c, d \in Bufs :
          c # d /\ buf'[c].blockno # NoBlock => buf'[c].blockno # buf'[d].blockno
    BY <1>3 DEF Named
  <2> QED BY <2>1, <2>2, <2>3 DEF Named
<1>11. Counted'
  BY <1>3, <1>4, SameRefers
<1>12. BufOwned'
  <2>1. \A q \in Clients : bpc'[q] \in Holding <=> bpc[q] \in Holding
    BY <1>4 DEF Holding
  <2>2. \A q \in Clients : bpc'[q] = "sleeplock" <=> bpc[q] = "sleeplock"
    BY <1>4
  <2>3. \A q \in Clients : bpc[q] \in Holding \/ bpc[q] = "sleeplock" => at[q] \in Bufs
    BY <1>6 DEF Counted, Holding
  <2>4. \A c \in Bufs : buf[c].owner # None => buf[c].owner \in Clients
    BY Fields
  <2>5. \A q \in Clients : bpc'[q] \in Holding => buf'[at'[q]].owner = q
    BY <1>3, <2>1, <2>3 DEF BufOwned
  <2>6. \A c \in Bufs : buf'[c].owner # None => /\ at'[buf'[c].owner] = c
                                                /\ bpc'[buf'[c].owner] \in Holding
    BY <1>3, <2>1, <2>4 DEF BufOwned
  <2>7. \A q \in Clients : bpc'[q] = "sleeplock" => buf'[at'[q]].owner # None
    BY <1>3, <2>2, <2>3 DEF BufOwned
  <2> QED BY <2>5, <2>6, <2>7 DEF BufOwned
<1>13. Contents'
  <2>1. ASSUME NEW c \in Bufs
        PROVE  /\ buf'[c].valid /\ ~buf'[c].bad => buf'[c].data = block'[buf'[c].blockno]
               /\ buf'[c].dirty => buf'[c].valid /\ ~buf'[c].bad
    <3>1. CASE c = b
      BY <1>2, <1>3, <1>5, <3>1 DEF n
    <3>2. CASE c # b
      <4>1. buf'[c] = buf[c] /\ buf[c].blockno # n
        BY <1>3, <1>7, <3>2
      <4>2. buf[c].valid => buf[c].blockno \in Sectors
        BY Fields DEF Named
      <4> QED BY <1>5, <4>1, <4>2 DEF Contents
    <3> QED BY <3>1, <3>2
  <2>2. ASSUME NEW q \in Clients, bpc'[q] = "hold" PROVE buf'[at'[q]].valid
    BY <1>3, <1>4, <1>6, <2>2 DEF Contents, Counted
  <2>3. ASSUME NEW k \in Sectors, disk'[k] # block'[k]
        PROVE  \E c \in Bufs : buf'[c].blockno = k /\ buf'[c].dirty
    <3>1. CASE k = n
      BY <1>1, <1>3, <3>1 DEF n
    <3>2. CASE k # n
      <4>1. PICK c \in Bufs : buf[c].blockno = k /\ buf[c].dirty
        BY <1>5, <2>3, <3>2 DEF Contents
      <4>2. c # b
        BY <3>2, <4>1 DEF n
      <4> QED BY <1>3, <4>1, <4>2
    <3> QED BY <3>1, <3>2
  <2> QED BY <2>1, <2>2, <2>3 DEF Contents
<1>14. Queue'
  <2>1. \A q \in Clients : bpc'[q] = "sleepdisk" <=> bpc[q] = "sleepdisk"
    BY <1>4
  <2>2. ASSUME idequeue # <<>>
        PROVE  disk[buf'[idequeue[1]].blockno] = block'[buf'[idequeue[1]].blockno]
    <3>1. idequeue[1] \in Bufs /\ 1 \in 1..Len(idequeue)
      BY <2>2 DEF Types
    <3>2. PICK q \in Clients : bpc[q] = "sleepdisk" /\ at[q] = idequeue[1]
      BY <3>1 DEF Queue
    <3>3. idequeue[1] # b
      BY <3>2, OneBufHolder DEF Holding
    <3>4. buf[idequeue[1]].blockno \in Sectors
      BY <3>2, HasBuffer
    <3>5. /\ buf'[idequeue[1]].blockno = buf[idequeue[1]].blockno
          /\ buf[idequeue[1]].blockno # n
      BY <1>3, <1>7, <3>1, <3>3
    <3> QED BY <1>5, <2>2, <3>4, <3>5 DEF Queue
  <2> QED BY <2>1, <2>2 DEF Queue
<1> QED BY <1>3, <1>4, <1>8, <1>9, <1>10, <1>11, <1>12, <1>13, <1>14

\* What the log pins is within its limit; what bwrite() makes dirty it writes.
LEMMA WriteKeeps ==
  ASSUME IInv, NEW p \in Clients, log_write(p) \/ bwrite(p)
  PROVE  IInv'
<1> DEFINE b == at[p]
           new == (buf[b].data + 1) % Values
<1>1. Types /\ Pins /\ b \in Bufs /\ buf[b].data \in Int /\ new \in Int
  <2>1. bpc[p] = "hold"
    BY DEF log_write, bwrite
  <2>2. b \in Bufs
    BY <2>1, HasBuffer DEF IInv
  <2>3. buf[b].data \in Int
    BY <2>2, Fields DEF IInv
  <2> QED BY <2>2, <2>3, Sizes DEF IInv
<1> HIDE DEF new
<1>2. CASE log_write(p)
  <2>1. /\ bpc[p] = "hold" /\ bpc' = [bpc EXCEPT ![p] = "done"]
        /\ buf' = [buf EXCEPT ![b].data = new, ![b].dirty = TRUE, ![b].bad = FALSE]
        /\ block' = [block EXCEPT ![buf[b].blockno] = new]
        /\ at' = at /\ lru' = lru /\ idequeue' = idequeue /\ active' = active
        /\ disk' = disk /\ panicked' = panicked
        /\ Cardinality({c \in Bufs : buf[c].dirty} \cup {b}) <= Pinned
    BY <1>2 DEF log_write, Become, counts, new
  <2>2. /\ Types' /\ Listed' /\ Named' /\ Counted' /\ BufOwned' /\ Contents' /\ Queue' /\ Room'
        /\ \A c \in Bufs : c # b => buf'[c] = buf[c]
    BY <1>1, <2>1, ChangedKeeps
  <2>3. Pins'
    <3> DEFINE D == {c \in Bufs : buf[c].dirty} \cup {b}
    <3>1. D \subseteq Bufs
      BY <1>1
    <3>2. IsFiniteSet(D)
      BY <3>1, Sizes, FS_Subset
    <3>3. AtRest' \subseteq D
      BY <2>2 DEF AtRest
    <3>4. Cardinality(D) <= Pinned
      BY <2>1
    <3> HIDE DEF D
    <3>5. IsFiniteSet(AtRest') /\ Cardinality(AtRest') <= Cardinality(D)
      BY <3>2, <3>3, FS_Subset
    <3>6. Cardinality(AtRest') \in Nat /\ Cardinality(D) \in Nat
      BY <3>2, <3>5, FS_CardinalityType
    <3> QED BY <3>4, <3>5, <3>6, Sizes DEF Pins
  <2> QED BY <2>2, <2>3 DEF IInv
<1>3. CASE bwrite(p)
  <2> DEFINE v == IF buf[b].dirty THEN buf[b].data ELSE new
  <2>1. /\ bpc[p] = "hold" /\ bpc' = [bpc EXCEPT ![p] = "iderw"]
        /\ buf' = [buf EXCEPT ![b].data = v, ![b].dirty = TRUE, ![b].bad = FALSE]
        /\ block' = [block EXCEPT ![buf[b].blockno] = v]
        /\ at' = at /\ lru' = lru /\ idequeue' = idequeue /\ active' = active
        /\ disk' = disk /\ panicked' = panicked
    BY <1>3 DEF bwrite, Become, counts, new
  <2>2. v \in Int
    BY <1>1
  <2> HIDE DEF v
  <2>3. /\ Types' /\ Listed' /\ Named' /\ Counted' /\ BufOwned' /\ Contents' /\ Queue' /\ Room'
        /\ \A c \in Bufs : c # b => buf'[c] = buf[c]
        /\ \A q \in Clients : bpc'[q] = IF q = p THEN "iderw" ELSE bpc[q]
    BY <2>1, <2>2, ChangedKeeps
  <2>4. ASSUME NEW c \in Bufs, c \in AtRest' PROVE c \in AtRest
    <3>1. c # b
      BY <2>1, <2>3, <2>4 DEF AtRest, Asking
    <3>2. buf[c].dirty /\ \A q \in Clients : at[q] = c => q # p /\ bpc[q] \notin Asking
      BY <2>1, <2>3, <2>4, <3>1 DEF AtRest
    <3> QED BY <3>2 DEF AtRest
  <2>5. AtRest' \subseteq AtRest
    BY <2>4 DEF AtRest
  <2> QED BY <1>1, <2>3, <2>5, PinsShrink DEF IInv
<1> QED BY <1>2, <1>3

LEMMA ReleaseKeeps ==
  ASSUME IInv, NEW p \in Clients, releasesleep(p)
  PROVE  IInv'
<1> USE DEF IInv
<1> DEFINE b == at[p]
<1>1. /\ bpc[p] \in {"hold", "done"} /\ at' = at /\ disk' = disk /\ block' = block
      /\ lru' = lru /\ idequeue' = idequeue /\ active' = active /\ panicked' = panicked
      /\ buf' = [buf EXCEPT ![b].owner = None]
      /\ bpc' = [Retry("sleeplock", b, "lock") EXCEPT ![p] = "brelse"]
  BY DEF releasesleep, counts
<1>2. b \in Bufs /\ buf[b].blockno \in Sectors /\ bpc[p] \in Holding
  BY <1>1, HasBuffer DEF Holding
<1>3. /\ bpc' \in [Clients -> BufStages]
      /\ \A q \in Clients :
           bpc'[q] = IF q = p THEN "brelse"
                     ELSE IF bpc[q] = "sleeplock" /\ at[q] = b THEN "lock" ELSE bpc[q]
  BY <1>1 DEF Types, BufStages, Retry
<1>4. /\ buf' \in [Bufs -> Buffer] /\ buf'[b].owner = None
      /\ \A c \in Bufs : c # b => buf'[c] = buf[c]
      /\ \A c \in Bufs :
           /\ buf'[c].blockno = buf[c].blockno /\ buf'[c].valid = buf[c].valid
           /\ buf'[c].dirty = buf[c].dirty /\ buf'[c].refcnt = buf[c].refcnt
           /\ buf'[c].data = buf[c].data /\ buf'[c].bad = buf[c].bad
  <2> DEFINE x == [buf[b] EXCEPT !.owner = None]
  <2>1. buf[b] \in Buffer /\ buf' = [buf EXCEPT ![b] = x]
    BY <1>1, <1>2 DEF Types
  <2>2. x \in Buffer
    BY <2>1 DEF Buffer
  <2>3. /\ x.owner = None /\ x.blockno = buf[b].blockno /\ x.valid = buf[b].valid
        /\ x.dirty = buf[b].dirty /\ x.refcnt = buf[b].refcnt
        /\ x.data = buf[b].data /\ x.bad = buf[b].bad
    BY <2>1 DEF Buffer
  <2> HIDE DEF x
  <2>4. /\ buf' \in [Bufs -> Buffer] /\ buf'[b] = x
        /\ \A c \in Bufs : c # b => buf'[c] = buf[c]
    BY <1>2, <2>1, <2>2, OneBuffer
  <2> QED BY <2>3, <2>4
<1>5. \A q \in Clients : at[q] # None => at[q] \in Bufs
  BY DEF Types
<1>6. Types'
  BY <1>1, <1>3, <1>4 DEF Types
<1>7. Listed' /\ Named' /\ Room'
  BY <1>1, <1>4, <1>5 DEF Listed, Named, Room
<1>8. Counted'
  <2>1. \A q \in Clients : bpc'[q] = "idle" <=> bpc[q] = "idle"
    BY <1>1, <1>3
  <2> QED BY <1>1, <1>4, <2>1, SameRefers
<1>9. BufOwned'
  <2>1. ASSUME NEW q \in Clients, bpc'[q] \in Holding PROVE buf'[at'[q]].owner = q
    <3>1. q # p /\ bpc[q] \in Holding
      BY <1>3, <2>1 DEF Holding
    <3>2. at[q] # b /\ at[q] \in Bufs
      BY <1>2, <1>5, <3>1, OneBufHolder DEF Counted, Holding
    <3> QED BY <1>1, <1>4, <3>1, <3>2 DEF BufOwned
  <2>2. ASSUME NEW c \in Bufs, buf'[c].owner # None
        PROVE  at'[buf'[c].owner] = c /\ bpc'[buf'[c].owner] \in Holding
    <3>1. c # b /\ buf'[c] = buf[c]
      BY <1>4, <2>2
    <3>2. /\ buf[c].owner \in Clients /\ at[buf[c].owner] = c
          /\ bpc[buf[c].owner] \in Holding
      BY <2>2, <3>1, Fields DEF BufOwned
    <3>3. buf[c].owner # p /\ bpc[buf[c].owner] # "sleeplock"
      BY <3>1, <3>2 DEF Holding
    <3>4. bpc'[buf[c].owner] = bpc[buf[c].owner]
      BY <1>3, <3>2, <3>3
    <3> QED BY <1>1, <3>1, <3>2, <3>4
  <2>3. ASSUME NEW q \in Clients, bpc'[q] = "sleeplock" PROVE buf'[at'[q]].owner # None
    <3>1. bpc[q] = "sleeplock" /\ at[q] # b
      BY <1>3, <2>3
    <3>2. at[q] \in Bufs
      BY <1>5, <3>1 DEF Counted
    <3> QED BY <1>1, <1>4, <3>1, <3>2 DEF BufOwned
  <2> QED BY <2>1, <2>2, <2>3 DEF BufOwned
<1>10. Contents'
  <2>1. ASSUME NEW q \in Clients, bpc'[q] = "hold" PROVE buf'[at'[q]].valid
    <3>1. bpc[q] = "hold" /\ at[q] \in Bufs
      BY <1>3, <1>5, <2>1 DEF Counted
    <3> QED BY <1>1, <1>4, <3>1 DEF Contents
  <2> QED BY <1>1, <1>4, <2>1 DEF Contents
<1>11. Queue'
  <2>1. idequeue # <<>> => idequeue[1] \in Bufs
    BY DEF Types
  <2>2. \A q \in Clients : bpc'[q] = "sleepdisk" <=> bpc[q] = "sleepdisk"
    BY <1>1, <1>3
  <2> QED BY <1>1, <1>4, <2>1, <2>2 DEF Queue
<1>12. Pins'
  <2>1. \A q \in Clients : bpc'[q] \in Asking <=> bpc[q] \in Asking
    BY <1>1, <1>3 DEF Asking
  <2>2. AtRest' \subseteq AtRest
    BY <1>1, <1>4, <2>1 DEF AtRest
  <2> QED BY <2>2, PinsShrink
<1> QED BY <1>6, <1>7, <1>8, <1>9, <1>10, <1>11, <1>12

LEMMA BrelseKeeps ==
  ASSUME IInv, NEW p \in Clients, brelse(p)
  PROVE  IInv'
<1> USE DEF IInv
<1>17. PICK b \in Bufs : at[p] = b /\ buf[b].blockno \in Sectors
  <2>1. bpc[p] # "idle"
    BY DEF brelse
  <2> QED BY <2>1, HasBuffer
<1>1. /\ bpc[p] = "brelse" /\ disk' = disk /\ block' = block
      /\ idequeue' = idequeue /\ active' = active /\ panicked' = panicked
      /\ lru' = (IF buf[b].refcnt = 1 THEN MoveToHead(b) ELSE lru)
      /\ buf' = [buf EXCEPT ![b].refcnt = @ - 1]
      /\ at' = [at EXCEPT ![p] = None]
      /\ bpc' = [bpc EXCEPT ![p] = "idle"]
  BY <1>17 DEF brelse, Become, counts
<1>2. b \in Bufs /\ buf[b].blockno \in Sectors /\ at[p] = b
  BY <1>17
<1>3. /\ bpc' \in [Clients -> BufStages] /\ at' \in [Clients -> Bufs \cup {None}]
      /\ bpc'[p] = "idle" /\ at'[p] = None
      /\ \A q \in Clients : q # p => bpc'[q] = bpc[q] /\ at'[q] = at[q]
  BY <1>1 DEF Types, BufStages
<1>4. Refers(b)' = Refers(b) \ {p} /\ \A c \in Bufs : c # b => Refers(c)' = Refers(c)
  BY <1>2, <1>3, Sizes DEF Refers
<1>5. /\ buf[b].refcnt \in Nat \ {0}
      /\ Cardinality(Refers(b)') = buf[b].refcnt - 1
  <2>1. p \in Refers(b) /\ IsFiniteSet(Refers(b))
    BY <1>2, RefersFinite DEF Refers
  <2>2. Cardinality(Refers(b) \ {p}) = Cardinality(Refers(b)) - 1 /\ IsFiniteSet(Refers(b) \ {p})
    BY <2>1, FS_RemoveElement
  <2>3. buf[b].refcnt = Cardinality(Refers(b)) /\ buf[b].refcnt \in Nat
    BY <1>2, Fields DEF Counted
  <2>4. Cardinality(Refers(b) \ {p}) \in Nat
    BY <2>2, FS_CardinalityType
  <2> QED BY <1>4, <2>2, <2>3, <2>4
<1>6. /\ buf' \in [Bufs -> Buffer] /\ buf'[b].refcnt = buf[b].refcnt - 1
      /\ \A c \in Bufs : c # b => buf'[c] = buf[c]
      /\ \A c \in Bufs :
           /\ buf'[c].blockno = buf[c].blockno /\ buf'[c].valid = buf[c].valid
           /\ buf'[c].dirty = buf[c].dirty /\ buf'[c].owner = buf[c].owner
           /\ buf'[c].data = buf[c].data /\ buf'[c].bad = buf[c].bad
  <2> DEFINE x == [buf[b] EXCEPT !.refcnt = @ - 1]
  <2>1. buf[b] \in Buffer /\ buf' = [buf EXCEPT ![b] = x]
    BY <1>1, <1>2 DEF Types
  <2>2. x \in Buffer
    BY <1>5, <2>1 DEF Buffer
  <2>3. /\ x.refcnt = buf[b].refcnt - 1 /\ x.owner = buf[b].owner
        /\ x.blockno = buf[b].blockno /\ x.valid = buf[b].valid
        /\ x.dirty = buf[b].dirty /\ x.data = buf[b].data /\ x.bad = buf[b].bad
    BY <2>1 DEF Buffer
  <2> HIDE DEF x
  <2>4. /\ buf' \in [Bufs -> Buffer] /\ buf'[b] = x
        /\ \A c \in Bufs : c # b => buf'[c] = buf[c]
    BY <1>2, <2>1, <2>2, OneBuffer
  <2> QED BY <2>3, <2>4
<1>7. lru' \in [Bufs -> Bufs] /\ Listed'
  BY <1>1, <1>2, MoveKeeps DEF Types, Listed
<1>8. Types'
  BY <1>1, <1>3, <1>6, <1>7 DEF Types
<1>9. \A q \in Clients : at[q] # None => at[q] \in Bufs
  BY DEF Types
<1>10. Named'
  <2>1. \A q \in Clients : at'[q] # None => buf'[at'[q]].blockno # NoBlock
    BY <1>3, <1>6, <1>9 DEF Named
  <2> QED BY <1>6, <2>1 DEF Named
<1>11. Room'
  BY <1>1 DEF Room
<1>12. Counted'
  <2>1. \A q \in Clients : bpc'[q] = "idle" <=> at'[q] = None
    BY <1>3 DEF Counted
  <2>2. \A c \in Bufs : buf'[c].refcnt = Cardinality(Refers(c)')
    BY <1>4, <1>5, <1>6 DEF Counted
  <2> QED BY <2>1, <2>2 DEF Counted
<1>13. BufOwned'
  <2>1. \A q \in Clients : bpc'[q] \in Holding => q # p /\ bpc[q] \in Holding /\ at[q] \in Bufs
    BY <1>3, <1>9 DEF Holding, Counted
  <2>2. \A q \in Clients : bpc'[q] \in Holding => buf'[at'[q]].owner = q
    BY <1>3, <1>6, <2>1 DEF BufOwned
  <2>3. ASSUME NEW c \in Bufs, buf'[c].owner # None
        PROVE  at'[buf'[c].owner] = c /\ bpc'[buf'[c].owner] \in Holding
    <3>1. /\ buf[c].owner \in Clients /\ at[buf[c].owner] = c
          /\ bpc[buf[c].owner] \in Holding
      BY <1>6, <2>3, Fields DEF BufOwned
    <3>2. buf[c].owner # p
      BY <1>1, <3>1 DEF Holding
    <3> QED BY <1>3, <1>6, <3>1, <3>2
  <2>4. ASSUME NEW q \in Clients, bpc'[q] = "sleeplock" PROVE buf'[at'[q]].owner # None
    <3>1. q # p /\ bpc[q] = "sleeplock"
      BY <1>3, <2>4
    <3>2. at[q] \in Bufs
      BY <1>9, <3>1 DEF Counted
    <3> QED BY <1>3, <1>6, <3>1, <3>2 DEF BufOwned
  <2> QED BY <2>2, <2>3, <2>4 DEF BufOwned
<1>14. Contents'
  <2>1. ASSUME NEW q \in Clients, bpc'[q] = "hold" PROVE buf'[at'[q]].valid
    <3>1. q # p /\ bpc[q] = "hold" /\ at[q] \in Bufs
      BY <1>3, <1>9, <2>1 DEF Counted
    <3> QED BY <1>3, <1>6, <3>1 DEF Contents
  <2> QED BY <1>1, <1>6, <2>1 DEF Contents
<1>15. Queue'
  <2>1. idequeue # <<>> => idequeue[1] \in Bufs
    BY DEF Types
  <2>2. \A q \in Clients : bpc'[q] = "sleepdisk" <=> q # p /\ bpc[q] = "sleepdisk"
    BY <1>1, <1>3
  <2>3. \A q \in Clients : bpc[q] = "sleepdisk" => q # p /\ at'[q] = at[q]
    BY <1>1, <1>3
  <2> QED BY <1>1, <1>6, <2>1, <2>2, <2>3 DEF Queue
<1>16. Pins'
  <2>1. \A q \in Clients : bpc[q] \in Asking => q # p
    BY <1>1 DEF Asking
  <2>2. AtRest' \subseteq AtRest
    BY <1>3, <1>6, <2>1 DEF AtRest
  <2> QED BY <2>2, PinsShrink
<1> QED BY <1>7, <1>8, <1>10, <1>11, <1>12, <1>13, <1>14, <1>15, <1>16

\* p refers to buffer b, which is the block's or has been nobody's.
LEMMA GetKeeps ==
  ASSUME IInv, NEW p \in Clients, bpc[p] = "idle", NEW b \in Bufs, NEW x \in Buffer,
         buf' = [buf EXCEPT ![b] = x],
         at' = [at EXCEPT ![p] = b], bpc' = [bpc EXCEPT ![p] = "lock"],
         x.refcnt = buf[b].refcnt + 1, x.owner = buf[b].owner, x.dirty = buf[b].dirty,
         x.blockno \in Sectors, \A c \in Bufs : c # b => buf[c].blockno # x.blockno,
         x.valid => buf[b].valid,
         x.valid \/ buf[b].dirty \/ (\E q \in Clients : at[q] = b)
           => /\ x.valid = buf[b].valid /\ x.blockno = buf[b].blockno
              /\ x.bad = buf[b].bad /\ x.data = buf[b].data,
         lru' = lru, idequeue' = idequeue, active' = active, disk' = disk, block' = block,
         panicked' = panicked
  PROVE  IInv'
<1> USE DEF IInv
<1>1. /\ buf' \in [Bufs -> Buffer] /\ buf'[b] = x
      /\ \A c \in Bufs : c # b => buf'[c] = buf[c]
  BY OneBuffer
<1>2. /\ bpc' \in [Clients -> BufStages] /\ at' \in [Clients -> Bufs \cup {None}]
      /\ bpc'[p] = "lock" /\ at'[p] = b
      /\ \A q \in Clients : q # p => bpc'[q] = bpc[q] /\ at'[q] = at[q]
  BY DEF Types, BufStages
<1>3. at[p] = None /\ \A q \in Clients : at[q] # None => at[q] \in Bufs
  BY DEF Types, Counted
<1>4. \A c \in Bufs : /\ buf'[c].owner = buf[c].owner /\ buf'[c].dirty = buf[c].dirty
                      /\ buf'[c].valid => buf[c].valid
  BY <1>1
<1>5. \A c \in Bufs : (buf'[c].valid \/ buf[c].dirty \/ \E q \in Clients : at[q] = c)
                      => /\ buf'[c].valid = buf[c].valid /\ buf'[c].blockno = buf[c].blockno
                         /\ buf'[c].bad = buf[c].bad /\ buf'[c].data = buf[c].data
  BY <1>1
<1>6. Types'
  BY <1>1, <1>2 DEF Types
<1>7. Listed' /\ Room'
  BY DEF Listed, Room
<1>8. Named'
  <2>1. \A c, d \in Bufs :
          c # d /\ buf'[c].blockno # NoBlock => buf'[c].blockno # buf'[d].blockno
    BY <1>1 DEF Named
  <2>2. ASSUME NEW q \in Clients, at'[q] # None PROVE buf'[at'[q]].blockno # NoBlock
    <3>1. CASE q = p
      BY <1>1, <1>2, <3>1, Sizes
    <3>2. CASE q # p
      <4>1. at'[q] = at[q] /\ at[q] \in Bufs
        BY <1>2, <1>3, <2>2, <3>2
      <4>2. buf'[at[q]].blockno = buf[at[q]].blockno
        BY <1>5, <4>1
      <4> QED BY <2>2, <4>1, <4>2 DEF Named
    <3> QED BY <3>1, <3>2
  <2>3. \A c \in Bufs : buf'[c].valid => buf'[c].blockno # NoBlock
    BY <1>4, <1>5 DEF Named
  <2> QED BY <2>1, <2>2, <2>3 DEF Named
<1>9. Counted'
  <2>1. \A q \in Clients : bpc'[q] = "idle" <=> at'[q] = None
    BY <1>2, Sizes DEF Counted
  <2>2. Refers(b)' = Refers(b) \cup {p} /\ \A c \in Bufs : c # b => Refers(c)' = Refers(c)
    BY <1>2, <1>3, Sizes DEF Refers
  <2>3. p \notin Refers(b) /\ IsFiniteSet(Refers(b))
    BY <1>3, Sizes, RefersFinite DEF Refers
  <2>4. Cardinality(Refers(b) \cup {p}) = Cardinality(Refers(b)) + 1
    BY <2>3, FS_AddElement
  <2>5. \A c \in Bufs : buf'[c].refcnt = Cardinality(Refers(c)')
    BY <1>1, <2>2, <2>4 DEF Counted
  <2> QED BY <2>1, <2>5 DEF Counted
<1>10. BufOwned'
  <2>1. \A q \in Clients : bpc'[q] \in Holding <=> q # p /\ bpc[q] \in Holding
    BY <1>2 DEF Holding
  <2>2. \A q \in Clients : bpc[q] \in Holding => q # p /\ at[q] \in Bufs
    BY <1>3 DEF Holding, Counted
  <2>3. \A q \in Clients : bpc'[q] \in Holding => buf'[at'[q]].owner = q
    BY <1>2, <1>4, <2>1, <2>2 DEF BufOwned
  <2>4. ASSUME NEW c \in Bufs, buf'[c].owner # None
        PROVE  at'[buf'[c].owner] = c /\ bpc'[buf'[c].owner] \in Holding
    <3>1. /\ buf[c].owner \in Clients /\ at[buf[c].owner] = c
          /\ bpc[buf[c].owner] \in Holding
      BY <1>4, <2>4, Fields DEF BufOwned
    <3>2. buf[c].owner # p
      BY <2>2, <3>1
    <3> QED BY <1>2, <1>4, <3>1, <3>2
  <2>5. ASSUME NEW q \in Clients, bpc'[q] = "sleeplock" PROVE buf'[at'[q]].owner # None
    <3>1. q # p /\ bpc[q] = "sleeplock"
      BY <1>2, <2>5
    <3>2. at[q] \in Bufs
      BY <1>3, <3>1 DEF Counted
    <3> QED BY <1>2, <1>4, <3>1, <3>2 DEF BufOwned
  <2> QED BY <2>3, <2>4, <2>5 DEF BufOwned
<1>11. Contents'
  <2>1. ASSUME NEW c \in Bufs
        PROVE  /\ buf'[c].valid /\ ~buf'[c].bad => buf'[c].data = block'[buf'[c].blockno]
               /\ buf'[c].dirty => buf'[c].valid /\ ~buf'[c].bad
    BY <1>4, <1>5 DEF Contents
  <2>2. ASSUME NEW q \in Clients, bpc'[q] = "hold" PROVE buf'[at'[q]].valid
    <3>1. q # p /\ bpc[q] = "hold" /\ at[q] \in Bufs /\ at'[q] = at[q]
      BY <1>2, <1>3, <2>2 DEF Counted
    <3>2. buf[at[q]].valid
      BY <3>1 DEF Contents
    <3>3. buf'[at[q]].valid = buf[at[q]].valid
      BY <1>5, <3>1
    <3> QED BY <3>1, <3>2, <3>3
  <2>3. ASSUME NEW k \in Sectors, disk'[k] # block'[k]
        PROVE  \E c \in Bufs : buf'[c].blockno = k /\ buf'[c].dirty
    <3>1. PICK c \in Bufs : buf[c].blockno = k /\ buf[c].dirty
      BY <2>3 DEF Contents
    <3> QED BY <1>4, <1>5, <3>1
  <2> QED BY <2>1, <2>2, <2>3 DEF Contents
<1>12. Queue'
  <2>1. \A q \in Clients : bpc[q] = "sleepdisk" => q # p /\ at'[q] = at[q]
    BY <1>2
  <2>2. \A q \in Clients : bpc'[q] = "sleepdisk" <=> bpc[q] = "sleepdisk"
    BY <1>2
  <2>3. ASSUME idequeue # <<>>
        PROVE  buf'[idequeue[1]].blockno = buf[idequeue[1]].blockno
    <3>1. idequeue[1] \in Bufs /\ 1 \in 1..Len(idequeue)
      BY <2>3 DEF Types
    <3>2. PICK q \in Clients : bpc[q] = "sleepdisk" /\ at[q] = idequeue[1]
      BY <3>1 DEF Queue
    <3> QED BY <1>5, <3>1, <3>2
  <2> QED BY <2>1, <2>2, <2>3 DEF Queue
<1>13. Pins'
  <2>1. \A q \in Clients : bpc[q] \in Asking => q # p /\ bpc'[q] \in Asking /\ at'[q] = at[q]
    BY <1>2 DEF Asking
  <2>2. AtRest' \subseteq AtRest
    BY <1>4, <2>1 DEF AtRest
  <2> QED BY <2>2, PinsShrink
<1> QED BY <1>6, <1>7, <1>8, <1>9, <1>10, <1>11, <1>12, <1>13

LEMMA BgetKeeps ==
  ASSUME IInv, NEW p \in Clients, NEW k \in Sectors, bget(p, k)
  PROVE  IInv'
<1> DEFINE has == {b \in Bufs : buf[b].blockno = k}
           free == {i \in 1..NBUF : buf[lru[i]].refcnt = 0 /\ ~buf[lru[i]].dirty}
           last == lru[CHOOSE i \in free : \A j \in free : j <= i]
<1>1. /\ bpc[p] = "idle" /\ lru' = lru /\ idequeue' = idequeue /\ active' = active
      /\ disk' = disk /\ block' = block
  BY DEF bget
<1>2. ASSUME NEW b \in has,
             buf' = [buf EXCEPT ![b].refcnt = @ + 1], at' = [at EXCEPT ![p] = b],
             Become(p, "lock"), UNCHANGED panicked
      PROVE  IInv'
  <2> DEFINE x == [buf[b] EXCEPT !.refcnt = @ + 1]
  <2>1. b \in Bufs /\ buf[b] \in Buffer /\ buf' = [buf EXCEPT ![b] = x] /\ buf[b].blockno = k
    BY <1>2 DEF IInv, Types
  <2>2. x \in Buffer
    BY <2>1 DEF Buffer
  <2>3. /\ x.refcnt = buf[b].refcnt + 1 /\ x.owner = buf[b].owner /\ x.dirty = buf[b].dirty
        /\ x.blockno = buf[b].blockno /\ x.valid = buf[b].valid
        /\ x.bad = buf[b].bad /\ x.data = buf[b].data
    BY <2>1 DEF Buffer
  <2> HIDE DEF x, has, free
  <2>4. x.blockno \in Sectors /\ \A c \in Bufs : c # b => buf[c].blockno # x.blockno
    BY <2>1, <2>3, Sizes DEF IInv, Named
  <2>5. bpc' = [bpc EXCEPT ![p] = "lock"] /\ panicked' = panicked
    BY <1>2 DEF Become
  <2>6. /\ x.valid => buf[b].valid
        /\ x.valid \/ buf[b].dirty \/ (\E q \in Clients : at[q] = b)
             => /\ x.valid = buf[b].valid /\ x.blockno = buf[b].blockno
                /\ x.bad = buf[b].bad /\ x.data = buf[b].data
    BY <2>3
  <2>7. b \in Bufs /\ buf' = [buf EXCEPT ![b] = x] /\ at' = [at EXCEPT ![p] = b]
    BY <1>2, <2>1
  <2>8. x.refcnt = buf[b].refcnt + 1 /\ x.owner = buf[b].owner /\ x.dirty = buf[b].dirty
    BY <2>3
  <2> QED BY <1>1, <2>2, <2>4, <2>5, <2>6, <2>7, <2>8, GetKeeps
<1>3. ASSUME has = {}, free # {},
             buf' = [buf EXCEPT ![last].blockno = k, ![last].valid = FALSE,
                                ![last].dirty = FALSE, ![last].refcnt = 1],
             at' = [at EXCEPT ![p] = last], Become(p, "lock"), UNCHANGED panicked
      PROVE  IInv'
  <2>1. /\ last \in Bufs /\ buf[last].refcnt = 0 /\ ~buf[last].dirty
    <3>1. free \in SUBSET Bufs
      BY DEF Bufs
    <3>2. (CHOOSE i \in free : \A j \in free : j <= i) \in free
      <4> HIDE DEF free
      <4> QED BY <1>3, <3>1, LastOf
    <3> QED BY <3>1, <3>2 DEF IInv, Types
  <2> HIDE DEF last
  <2>2. PICK b \in Bufs : b = last
    BY <2>1
  <2> DEFINE x == [buf[b] EXCEPT !.blockno = k, !.valid = FALSE, !.dirty = FALSE, !.refcnt = 1]
  <2>3. buf[b] \in Buffer /\ buf' = [buf EXCEPT ![b] = x]
    BY <1>3, <2>2 DEF IInv, Types
  <2>4. x \in Buffer
    BY <2>3 DEF Buffer
  <2>5. /\ x.refcnt = 1 /\ x.owner = buf[b].owner /\ x.dirty = FALSE
        /\ x.blockno = k /\ x.valid = FALSE
    BY <2>3 DEF Buffer
  <2>6. \A c \in Bufs : buf[c].blockno # k
    BY <1>3
  <2>7. buf[b].refcnt = 0 /\ buf[b].dirty = FALSE
    BY <2>1, <2>2, Fields DEF IInv
  <2> HIDE DEF x, has, free
  <2>8. \A q \in Clients : at[q] # b
    BY <2>7, NoReference DEF IInv
  <2>9. bpc' = [bpc EXCEPT ![p] = "lock"] /\ panicked' = panicked /\ at' = [at EXCEPT ![p] = b]
    BY <1>3, <2>2 DEF Become
  <2>10. /\ x.refcnt = buf[b].refcnt + 1 /\ x.blockno \in Sectors
         /\ \A c \in Bufs : c # b => buf[c].blockno # x.blockno
    BY <2>5, <2>6, <2>7
  <2>11. x.dirty = buf[b].dirty /\ ~x.valid /\ ~buf[b].dirty
    BY <2>5, <2>7, Zenon
  <2>12. /\ x.valid => buf[b].valid
         /\ x.valid \/ buf[b].dirty \/ (\E q \in Clients : at[q] = b)
              => /\ x.valid = buf[b].valid /\ x.blockno = buf[b].blockno
                 /\ x.bad = buf[b].bad /\ x.data = buf[b].data
    BY <2>8, <2>11
  <2>13. x.owner = buf[b].owner /\ x.dirty = buf[b].dirty /\ buf' = [buf EXCEPT ![b] = x]
    BY <2>3, <2>5, <2>11
  <2> QED BY <1>1, <2>4, <2>9, <2>10, <2>12, <2>13, GetKeeps
<1>4. ASSUME free = {}, panicked' = TRUE, UNCHANGED <<buf, at, bpc>>
      PROVE  IInv'
  <2>1. ASSUME NEW b \in Bufs PROVE buf[b].refcnt # 0 \/ buf[b].dirty
    <3>1. PICK i \in Bufs : lru[i] = b
      BY DEF IInv, Listed
    <3>2. i \in 1..NBUF
      BY DEF Bufs
    <3> QED BY <1>4, <3>1, <3>2
  <2>2. ~(NBUF >= Pinned + Cardinality(Clients))
    BY <1>1, <2>1, SomeFree DEF IInv
  <2>3. Room'
    BY <2>2 DEF Room
  <2>4. Types' /\ Listed' /\ Named' /\ BufOwned' /\ Contents' /\ Queue'
    BY <1>1, <1>4 DEF IInv, Types, Listed, Named, BufOwned, Contents, Queue
  <2>5. Counted'
    BY <1>4, SameRefers DEF IInv
  <2>6. AtRest' \subseteq AtRest
    BY <1>4 DEF AtRest
  <2> QED BY <2>3, <2>4, <2>5, <2>6, PinsShrink DEF IInv
<1> QED BY <1>2, <1>3, <1>4 DEF bget

LEMMA NextKeeps == IInv /\ [CacheNext]_cachevars => IInv'
<1>1. ASSUME IInv, NEW p \in Clients, Step(p) PROVE IInv'
  <2>1. CASE \E k \in Sectors : InOrder(k) /\ bget(p, k)
    BY <1>1, <2>1, BgetKeeps
  <2> QED BY <1>1, <2>1, AcquireKeeps, IderwKeeps, MemiderwKeeps, WriteKeeps, ReleaseKeeps,
             BrelseKeeps DEF Step
<1>2. ASSUME IInv, NEW error \in BOOLEAN, ideintr(error) PROVE IInv'
  BY <1>2, IntrKeeps
<1>3. ASSUME IInv, UNCHANGED cachevars PROVE IInv'
  <2>1. /\ Types' /\ Listed' /\ Named' /\ BufOwned' /\ Contents' /\ Queue' /\ Room'
        /\ at' = at /\ bpc' = bpc /\ buf' = buf
    BY <1>3 DEF cachevars, counts, IInv, Types, Listed, Named, BufOwned, Contents, Queue, Room
  <2>2. Counted'
    BY <1>3, <2>1, SameRefers DEF IInv
  <2>3. AtRest' \subseteq AtRest
    BY <2>1 DEF AtRest
  <2> QED BY <1>3, <2>1, <2>2, <2>3, PinsShrink DEF IInv
<1> QED BY <1>1, <1>2, <1>3 DEF CacheNext
-----------------------------------------------------------------------------
(* The theorems.                                                           *)

\* The buffers, their references and locks, the queue of the driver and the
\* pinned buffers stay as the inductive invariant says.
THEOREM CacheInvariant == CacheSpec => []IInv
BY InitIInv, NextKeeps, PTL DEF CacheSpec

\* CacheSound: however bget(), brelse(), the sleep locks, the driver's queue and
\* its interrupt interleave, a block has one buffer with its latest contents,
\* references are counted, nobody sleeps on what is over, and bget() does not
\* run out of buffers if the log leaves one for each process.
THEOREM CacheIsSound == CacheSpec => []CacheSound
<1>1. ASSUME IInv PROVE CacheSound
  <2> USE <1>1 DEF IInv
  <2>1. ASSUME NEW b \in Bufs
        PROVE  Cardinality({p \in Refers(b) :
                              bpc[p] \in {"hold", "done", "iderw", "sleepdisk"}}) <= 1
    <3> DEFINE H == {p \in Refers(b) : bpc[p] \in {"hold", "done", "iderw", "sleepdisk"}}
    <3>1. H \subseteq {buf[b].owner}
      BY DEF Refers, BufOwned, Holding
    <3>2. IsFiniteSet({buf[b].owner}) /\ Cardinality({buf[b].owner}) = 1
      BY FS_Singleton
    <3>3. IsFiniteSet(H) /\ Cardinality(H) <= 1
      BY <3>1, <3>2, FS_Subset
    <3> QED BY <3>3
  <2>2. \A p \in Clients : bpc[p] = "sleepdisk" => \E i \in DOMAIN idequeue : idequeue[i] = at[p]
    <3>1. DOMAIN idequeue = 1..Len(idequeue)
      BY DEF Types
    <3> QED BY <3>1 DEF Queue
  <2> QED BY <2>1, <2>2 DEF CacheSound, Named, Counted, Contents, BufOwned, Room
<1> QED BY <1>1, CacheInvariant, PTL
=============================================================================
