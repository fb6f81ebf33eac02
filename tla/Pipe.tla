-------------------------------- MODULE Pipe --------------------------------
(***************************************************************************)
(* A pipe (pipe.c) shared by processes that fork, write, read, close their *)
(* ends and are killed.                                                    *)
(*                                                                         *)
(* p->lock is held from the moment a call runs until it sleeps or returns: *)
(* for the others on the pipe this is one step.  kill() does not take this *)
(* lock, so it is two for kill(): up to the test of p->killed, after which *)
(* the process dozes with the lock held, and sleep().  A system call can   *)
(* be preempted before it takes the lock: a process may be killed between  *)
(* its call and its first step.                                            *)
(***************************************************************************)
EXTENDS Integers, Sequences, FiniteSets

CONSTANTS
  Procs,      \* processes; process 1 makes the pipe
  PIPESIZE,   \* bytes in the ring
  Wrap,       \* nread and nwrite count modulo Wrap, a multiple of PIPESIZE
  Calls       \* bound: how many bytes a call may write or read

ASSUME PipeAssumption ==
  /\ 1 \in Procs
  /\ PIPESIZE \in Nat \ {0}
  /\ Wrap \in Nat /\ Wrap > PIPESIZE /\ Wrap % PIPESIZE = 0
  /\ Calls \subseteq Nat

VARIABLES
  data, nread, nwrite, readopen, writeopen,   \* struct pipe
  ends,       \* the ends that each process has open
  doing, left, \* what a process is doing, and how many bytes it has left
  killed,
  late,       \* history: who was killed between the test and the sleep
  sent, got,  \* history: bytes written and read, modulo Byte
  silent      \* history: a killed writer left bytes without waking a reader

pipe == <<data, nread, nwrite, readopen, writeopen>>
pipevars == <<pipe, ends, doing, left, killed, late, sent, got, silent>>

\* The i-th byte written is i modulo Byte, as far as its index tells them apart.
Byte == Wrap

pipealloc ==
  /\ data = [i \in 0..(PIPESIZE - 1) |-> 0]
  /\ nread = 0 /\ nwrite = 0
  /\ readopen = TRUE /\ writeopen = TRUE
  /\ ends = [p \in Procs |-> IF p = 1 THEN {"r", "w"} ELSE {}]
  /\ doing = [p \in Procs |-> IF p = 1 THEN "user" ELSE "unused"]
  /\ left = [p \in Procs |-> 0]
  /\ killed = {} /\ late = {}
  /\ sent = 0 /\ got = 0
  /\ silent = FALSE

Used == (nwrite - nread) % Wrap
Empty == nread = nwrite
Full == nwrite = (nread + PIPESIZE) % Wrap
Least(a, b) == IF a <= b THEN a ELSE b

\* Who has found that it must sleep, and does not sleep yet, has p->lock.
Dozing == {"doze nread", "doze nwrite"}
Unlocked == \A p \in Procs : doing[p] \notin Dozing

\* wakeup(chan): those that sleep on it run again.
Woken(chan, to) == [p \in Procs |-> IF doing[p] = chan THEN to ELSE doing[p]]
WakeReaders == Woken("sleep nread", "read")
WakeWriters == Woken("sleep nwrite", "write")

\* Mutant: the index into the ring is not taken modulo its size.
Put_NoMod(m) ==
  [i \in DOMAIN data |->
     LET j == i - nwrite IN IF j \in 0..(m - 1) THEN (sent + j) % Byte ELSE data[i]]

\* The ring after the next m bytes.
Put(m) ==
  [i \in DOMAIN data |->
     LET j == (i - nwrite) % PIPESIZE IN IF j < m THEN (sent + j) % Byte ELSE data[i]]

\* A writer that finds the ring full waits, unless it is in vain.
MustWait(p) == left[p] > PIPESIZE - Used /\ readopen /\ p \notin killed

call(p, op, end, n) ==
  /\ doing[p] = "user" /\ end \in ends[p]
  /\ doing' = [doing EXCEPT ![p] = op]
  /\ left' = [left EXCEPT ![p] = n]
  /\ UNCHANGED <<pipe, ends, killed, late, sent, got, silent>>

\* Mutant: a writer that has to wait does not say that there is something.
pipewrite_NoWake(p) ==
  LET m == Least(left[p], PIPESIZE - Used)
  IN  /\ doing[p] = "write" /\ Unlocked
      /\ data' = Put(m)
      /\ sent' = (sent + m) % Byte
      /\ nwrite' = (nwrite + m) % Wrap
      /\ left' = [left EXCEPT ![p] = IF MustWait(p) THEN @ - m ELSE 0]
      /\ \/ m = left[p]
            /\ doing' = [WakeReaders EXCEPT ![p] = "user"]
         \/ m < left[p] /\ ~MustWait(p)
            /\ doing' = [doing EXCEPT ![p] = "user"]
         \/ MustWait(p)
            /\ doing' = [doing EXCEPT ![p] = "doze nwrite"]
      /\ silent' = (silent \/ (m < left[p] /\ p \in killed))
      /\ UNCHANGED <<nread, readopen, writeopen, ends, killed, late, got>>

\* Fill the ring.  If bytes are left give up, without waking a reader, when
\* nobody can read or the process has been killed; else go to sleep.
pipewrite(p) ==
  LET m == Least(left[p], PIPESIZE - Used)
  IN  /\ doing[p] = "write" /\ Unlocked
      /\ data' = Put(m)
      /\ sent' = (sent + m) % Byte
      /\ nwrite' = (nwrite + m) % Wrap
      /\ left' = [left EXCEPT ![p] = IF MustWait(p) THEN @ - m ELSE 0]
      /\ \/ m = left[p]
            /\ doing' = [WakeReaders EXCEPT ![p] = "user"]
         \/ m < left[p] /\ ~MustWait(p)
            /\ doing' = [doing EXCEPT ![p] = "user"]
         \/ MustWait(p)
            /\ doing' = [WakeReaders EXCEPT ![p] = "doze nwrite"]
      /\ silent' = (silent \/ (m < left[p] /\ p \in killed))
      /\ UNCHANGED <<nread, readopen, writeopen, ends, killed, late, got>>

\* Wait for a byte, then take what there is.
piperead(p) ==
  LET m == Least(left[p], Used)
  IN  /\ doing[p] = "read" /\ Unlocked
      /\ \/ /\ Empty /\ writeopen
            /\ doing' = [doing EXCEPT ![p] =
                           IF p \in killed THEN "user" ELSE "doze nread"]
            /\ left' = [left EXCEPT ![p] = IF p \in killed THEN 0 ELSE @]
            /\ UNCHANGED <<nread, got>>
         \/ /\ ~Empty \/ ~writeopen
            /\ nread' = (nread + m) % Wrap
            /\ got' = (got + m) % Byte
            /\ left' = [left EXCEPT ![p] = 0]
            /\ doing' = [WakeWriters EXCEPT ![p] = "user"]
      /\ UNCHANGED <<data, nwrite, readopen, writeopen, ends, killed, late,
                     sent, silent>>

\* sleep(): ptable.lock is taken before p->lock is given up.
sleep_pipe(p) ==
  /\ doing[p] \in Dozing
  /\ doing' = [doing EXCEPT ![p] = IF @ = "doze nread" THEN "sleep nread"
                                  ELSE "sleep nwrite"]
  /\ UNCHANGED <<pipe, ends, left, killed, late, sent, got, silent>>

\* Mutant: who sleeps on the other end is not woken.
pipeclose_NoWake(p, end) ==
  LET others == UNION {ends[q] : q \in Procs \ {p}}
  IN  /\ doing[p] = "user" /\ end \in ends[p]
      /\ ends' = [ends EXCEPT ![p] = @ \ {end}]
      /\ readopen' = (readopen /\ (end = "w" \/ "r" \in others))
      /\ writeopen' = (writeopen /\ (end = "r" \/ "w" \in others))
      /\ UNCHANGED <<doing, data, nread, nwrite, left, killed, late, sent, got, silent>>

\* fileclose() of an end, and pipeclose() if it is the last such descriptor.
pipeclose(p, end) ==
  LET others == UNION {ends[q] : q \in Procs \ {p}}
  IN  /\ doing[p] = "user" /\ end \in ends[p]
      /\ ends' = [ends EXCEPT ![p] = @ \ {end}]
      /\ \/ end \in others
            /\ UNCHANGED <<readopen, writeopen, doing>>
         \/ end = "w" /\ end \notin others /\ Unlocked
            /\ writeopen' = FALSE /\ doing' = WakeReaders /\ UNCHANGED readopen
         \/ end = "r" /\ end \notin others /\ Unlocked
            /\ readopen' = FALSE /\ doing' = WakeWriters /\ UNCHANGED writeopen
      /\ UNCHANGED <<data, nread, nwrite, left, killed, late, sent, got, silent>>

fork_pipe(p, q) ==
  /\ doing[p] = "user" /\ p \notin killed
  /\ doing[q] = "unused" /\ \A o \in Procs : doing[o] = "unused" => q <= o
  /\ doing' = [doing EXCEPT ![q] = "user"]
  /\ ends' = [ends EXCEPT ![q] = ends[p]]
  /\ UNCHANGED <<pipe, left, killed, late, sent, got, silent>>

\* A sleeper runs.  Who is about to sleep does so all the same.
kill(p) ==
  /\ doing[p] # "unused" /\ p \notin killed
  /\ killed' = killed \cup {p}
  /\ late' = late \cup {q \in {p} : doing[q] \in Dozing}
  /\ doing' = [doing EXCEPT ![p] = CASE @ = "sleep nread" -> "read"
                                      [] @ = "sleep nwrite" -> "write"
                                      [] OTHER -> @]
  /\ UNCHANGED <<pipe, ends, left, sent, got, silent>>

Run(p) == pipewrite(p) \/ piperead(p) \/ sleep_pipe(p)
Close(p) == \E end \in {"r", "w"} : pipeclose(p, end)

\* A process that has been killed only closes its files (exit).
PipeNext ==
  \E p \in Procs :
    \/ Run(p) \/ Close(p) \/ kill(p) \/ \E q \in Procs : fork_pipe(p, q)
    \/ /\ p \notin killed
       /\ \E n \in Calls : call(p, "write", "w", n) \/ call(p, "read", "r", n)

\* The scheduler runs every process that can run; a killed one exits.
PipeSpec ==
  /\ pipealloc /\ [][PipeNext]_pipevars
  /\ \A p \in Procs : WF_pipevars(Run(p)) /\ WF_pipevars(p \in killed /\ Close(p))
-----------------------------------------------------------------------------
(* Properties.                                                             *)

\* The ring holds, in order, the bytes that were written and not read, although
\* its indices wrap around; a writer that sleeps can do nothing (the ring is
\* full and someone can read); so does a reader, unless a writer was killed
\* while it filled the ring: pipewrite() then returns without waking anyone.  A
\* killed process sleeps only if kill() came between its test and its sleep().
PipeSound ==
  /\ Used <= PIPESIZE
  /\ \A i \in 0..(Used - 1) : data[(nread + i) % PIPESIZE] = (got + i) % Byte
  /\ sent = (got + Used) % Byte
  /\ \A p \in Procs :
       /\ doing[p] = "sleep nwrite" => Full /\ readopen
       /\ doing[p] = "sleep nread" => writeopen
       /\ doing[p] \in {"sleep nread", "sleep nwrite"} /\ p \in killed => p \in late
       /\ doing[p] = "sleep nread" => Empty \/ silent
  /\ readopen = (\E p \in Procs : "r" \in ends[p])
  /\ writeopen = (\E p \in Procs : "w" \in ends[p])

\* p is killed, but not late, or in a call whose other end is closed.
Doomed(p) ==
  \/ p \in killed \ late
  \/ doing[p] \in {"write", "sleep nwrite"} /\ ~readopen
  \/ doing[p] \in {"read", "sleep nread"} /\ ~writeopen

\* A call comes back once the other end is closed, also that of a process whose
\* kill() was lost, or once its process is killed at any other moment than
\* between its test and its sleep(): close() and kill() wake who sleeps.
CallsEnd == \A p \in Procs : Doomed(p) ~> doing[p] = "user"

\* A call comes back once its process is killed: kill() will "Wake process from
\* sleep if necessary".  (Not one killed between test and sleep: see the run
\* pipe_kill.)
KilledCallsEnd == \A p \in Procs : p \in killed ~> doing[p] = "user"
=============================================================================
