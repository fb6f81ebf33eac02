------------------------------ MODULE BufCache ------------------------------
(***************************************************************************)
(* The buffer cache (bio.c), the sleep lock of a buffer (sleeplock.c) and  *)
(* the disk below it: the driver with its queue and interrupt (ide.c), or  *)
(* the disk in memory that can be linked in its place (memide.c).          *)
(*                                                                         *)
(* A step is a critical section of bcache.lock, of a sleep lock's spin     *)
(* lock or of idelock.  Processes read a block, change it, and either      *)
(* write it (bwrite) or leave it pinned for the log (log_write sets        *)
(* B_DIRTY), to be written by whoever holds it later.                      *)
(***************************************************************************)
EXTENDS Integers, Sequences, FiniteSets

CONSTANTS
  Clients,    \* processes
  NBUF,       \* buffers
  Sectors,    \* blocks of the disk
  Pinned,     \* blocks that the log may pin at a time
  Values,     \* bound: contents of a block are 0..(Values - 1)
  Reads       \* bound: calls of bget()

ASSUME CacheAssumption ==
  /\ NBUF \in Nat \ {0}
  /\ IsFiniteSet(Clients) /\ 0 \notin Clients
  /\ Sectors \subseteq Nat
  /\ Pinned \in Nat /\ Values \in Nat \ {0} /\ Reads \in Nat

VARIABLES
  driver,     \* "ide" or "mem", which is linked
  buf,        \* the buffers
  lru,        \* bcache.head's list, the most recently used first
  idequeue,   \* the requests, the active one first
  active,     \* the disk is at work
  disk,       \* what is on the disk
  bpc, at,     \* what each process is doing, and with which buffer
  block,      \* history: the contents of each block as its holders left it
  reads,      \* history: calls of bget()
  used,       \* history: the blocks that bget() was called for
  panicked

cachevars == <<driver, buf, lru, idequeue, active, disk, bpc, at, block, reads, used,
          panicked>>

counts == <<reads, used, panicked>>

Bufs == 1..NBUF
None == 0      \* no buffer, or no process
NoBlock == -1  \* dev = 0

\* owner: who holds the sleep lock.  bad: history, the data were not read.
FreeBuf == [blockno |-> NoBlock, valid |-> FALSE, dirty |-> FALSE, refcnt |-> 0,
            owner |-> None, data |-> 0, bad |-> FALSE]

\* binit() puts each buffer at the head of the list.
binit ==
  /\ driver \in {"ide", "mem"}
  /\ buf = [b \in Bufs |-> FreeBuf]
  /\ lru = [i \in 1..NBUF |-> NBUF + 1 - i]
  /\ idequeue = <<>>
  /\ active = FALSE
  /\ disk = [k \in Sectors |-> 0]
  /\ bpc = [p \in Clients |-> "idle"]
  /\ at = [p \in Clients |-> None]
  /\ block = disk
  /\ reads = 0
  /\ used = {}
  /\ panicked = FALSE
-----------------------------------------------------------------------------
(* Sleep and wakeup: a sleeper has the state "sleep" and the channel it    *)
(* sleeps on in its bpc.                                                    *)

Become(p, state) == bpc' = [bpc EXCEPT ![p] = state]

\* Those that sleep on b try again.
Retry(from, b, to) ==
  [p \in Clients |-> IF bpc[p] = from /\ at[p] = b THEN to ELSE bpc[p]]

\* Mutant: a buffer that the log has pinned is taken.
bget_Dirty(p, k) ==
  LET free == {i \in 1..NBUF : buf[lru[i]].refcnt = 0}
      b == lru[CHOOSE i \in free : \A j \in free : j <= i]
  IN  /\ bpc[p] = "idle"
      /\ free # {} /\ ~\E c \in Bufs : buf[c].blockno = k
      /\ buf' = [buf EXCEPT ![b] = [FreeBuf EXCEPT !.blockno = k, !.refcnt = 1,
                                                   !.data = buf[b].data]]
      /\ at' = [at EXCEPT ![p] = b]
      /\ Become(p, "lock")
      /\ reads < Reads /\ reads' = reads + 1 /\ used' = used \cup {k}
      /\ UNCHANGED <<driver, lru, idequeue, active, disk, block, panicked>>

\* The part of bget() under bcache.lock: the buffer that has the block, or the
\* least recently used one that is free, or a panic.
bget(p, k) ==
  LET has == {b \in Bufs : buf[b].blockno = k}
      free == {i \in 1..NBUF : buf[lru[i]].refcnt = 0 /\ ~buf[lru[i]].dirty}
  IN  /\ bpc[p] = "idle" /\ ~panicked
      /\ reads < Reads /\ reads' = reads + 1 /\ used' = used \cup {k}
      /\ \/ \E b \in has :
              /\ buf' = [buf EXCEPT ![b].refcnt = @ + 1]
              /\ at' = [at EXCEPT ![p] = b]
              /\ Become(p, "lock")
              /\ UNCHANGED panicked
         \/ /\ has = {} /\ free # {}
            /\ LET b == lru[CHOOSE i \in free : \A j \in free : j <= i]
               IN  /\ buf' = [buf EXCEPT ![b].blockno = k, ![b].valid = FALSE,
                                         ![b].dirty = FALSE, ![b].refcnt = 1]
                   /\ at' = [at EXCEPT ![p] = b]
            /\ Become(p, "lock")
            /\ UNCHANGED panicked
         \/ /\ has = {} /\ free = {}
            /\ panicked' = TRUE
            /\ UNCHANGED <<buf, at, bpc>>
      /\ UNCHANGED <<driver, lru, idequeue, active, disk, block>>

\* The rest of bget(): wait for the sleep lock.
acquiresleep(p) ==
  LET b == at[p]
  IN  /\ bpc[p] = "lock"
      /\ \/ /\ buf[b].owner # None
            /\ Become(p, "sleeplock")
            /\ UNCHANGED buf
         \/ /\ buf[b].owner = None
            /\ buf' = [buf EXCEPT ![b].owner = p]
            /\ Become(p, IF buf[b].valid THEN "hold" ELSE "iderw")
      /\ UNCHANGED <<driver, lru, idequeue, active, disk, at, block, counts>>

\* idestart(): a write takes the data with it.
Transfer(b, d) ==
  IF buf[b].dirty THEN [d EXCEPT ![buf[b].blockno] = buf[b].data] ELSE d

\* Queue the request, start it if it is the first, and sleep.
iderw(p) ==
  LET b == at[p]
  IN  /\ bpc[p] = "iderw" /\ driver = "ide"
      /\ idequeue' = Append(idequeue, b)
      /\ active' = (active \/ idequeue = <<>>)
      /\ disk' = IF idequeue = <<>> THEN Transfer(b, disk) ELSE disk
      /\ Become(p, "sleepdisk")
      /\ UNCHANGED <<driver, buf, lru, at, block, counts>>

\* The request is carried out at once.
memiderw(p) ==
  LET b == at[p]
  IN  /\ bpc[p] = "iderw" /\ driver = "mem"
      /\ disk' = Transfer(b, disk)
      /\ buf' = [buf EXCEPT ![b].valid = TRUE, ![b].dirty = FALSE,
                            ![b].bad = FALSE,
                            ![b].data = disk'[buf[b].blockno]]
      /\ Become(p, IF buf[b].dirty THEN "done" ELSE "hold")
      /\ UNCHANGED <<driver, lru, idequeue, active, at, block, counts>>

\* Mutant: the next request is not started.
ideintr_NoStart(error) ==
  LET b == Head(idequeue)
      read == ~buf[b].dirty
  IN  /\ active
      /\ error => read
      /\ idequeue' = Tail(idequeue)
      /\ active' = FALSE
      /\ buf' = [buf EXCEPT ![b].valid = TRUE, ![b].dirty = FALSE,
                            ![b].bad = error,
                            ![b].data = IF read /\ ~error
                                        THEN disk[buf[b].blockno] ELSE @]
      /\ bpc' = Retry("sleepdisk", b, IF read THEN "hold" ELSE "done")
      /\ UNCHANGED <<driver, lru, disk, at, block, counts>>

\* The interrupt: the first request is done, whether its data could be read or
\* not, and the next is started.
ideintr(error) ==
  LET b == Head(idequeue)
      read == ~buf[b].dirty
  IN  /\ active
      /\ error => read
      /\ idequeue' = Tail(idequeue)
      /\ active' = (Len(idequeue) > 1)
      /\ buf' = [buf EXCEPT ![b].valid = TRUE, ![b].dirty = FALSE,
                            ![b].bad = error,
                            ![b].data = IF read /\ ~error
                                        THEN disk[buf[b].blockno] ELSE @]
      /\ disk' = IF Len(idequeue) > 1 THEN Transfer(idequeue[2], disk) ELSE disk
      /\ bpc' = Retry("sleepdisk", b, IF read THEN "hold" ELSE "done")
      /\ UNCHANGED <<driver, lru, at, block, counts>>

\* The holder changes the data, once: the log pins the buffer (log_write), or
\* bwrite writes it.
log_write(p) ==
  LET b == at[p]
      v == (buf[b].data + 1) % Values
  IN  /\ bpc[p] = "hold"
      /\ Cardinality({c \in Bufs : buf[c].dirty} \cup {b}) <= Pinned
      /\ buf' = [buf EXCEPT ![b].data = v, ![b].dirty = TRUE, ![b].bad = FALSE]
      /\ block' = [block EXCEPT ![buf[b].blockno] = v]
      /\ Become(p, "done")
      /\ UNCHANGED <<driver, lru, idequeue, active, disk, at, counts>>

bwrite(p) ==
  LET b == at[p]
      v == IF buf[b].dirty THEN buf[b].data ELSE (buf[b].data + 1) % Values
  IN  /\ bpc[p] = "hold"
      /\ buf' = [buf EXCEPT ![b].data = v, ![b].dirty = TRUE, ![b].bad = FALSE]
      /\ block' = [block EXCEPT ![buf[b].blockno] = v]
      /\ Become(p, "iderw")
      /\ UNCHANGED <<driver, lru, idequeue, active, disk, at, counts>>

\* brelse() gives the sleep lock back, then the reference.
releasesleep(p) ==
  LET b == at[p]
  IN  /\ bpc[p] \in {"hold", "done"}
      /\ buf' = [buf EXCEPT ![b].owner = None]
      /\ bpc' = [Retry("sleeplock", b, "lock") EXCEPT ![p] = "brelse"]
      /\ UNCHANGED <<driver, lru, idequeue, active, disk, at, block, counts>>

\* b becomes the first of the list.
MoveToHead(b) ==
  LET i == CHOOSE j \in 1..NBUF : lru[j] = b
  IN  [j \in 1..NBUF |-> IF j = 1 THEN b ELSE IF j <= i THEN lru[j - 1] ELSE lru[j]]

brelse(p) ==
  LET b == at[p]
  IN  /\ bpc[p] = "brelse"
      /\ buf' = [buf EXCEPT ![b].refcnt = @ - 1]
      /\ lru' = IF buf[b].refcnt = 1 THEN MoveToHead(b) ELSE lru
      /\ at' = [at EXCEPT ![p] = None]
      /\ Become(p, "idle")
      /\ UNCHANGED <<driver, idequeue, active, disk, block, counts>>

\* Blocks are alike: they are first used in their order.
InOrder(k) == \A j \in Sectors : j < k => j \in used

Step(p) ==
  \/ \E k \in Sectors : InOrder(k) /\ bget(p, k)
  \/ acquiresleep(p) \/ iderw(p) \/ memiderw(p)
  \/ log_write(p) \/ bwrite(p) \/ releasesleep(p) \/ brelse(p)

CacheNext == (\E p \in Clients : Step(p)) \/ \E error \in BOOLEAN : ideintr(error)

\* The disk answers every request.
Disk == \E error \in BOOLEAN : ideintr(error)
CacheSpec == binit /\ [][CacheNext]_cachevars /\ WF_cachevars(Disk)
-----------------------------------------------------------------------------
(* Properties.                                                             *)

Refers(b) == {p \in Clients : at[p] = b}

\* A block has one buffer; its references are counted and its lock has one
\* owner; who holds it sees what the last holder left, unless the disk could
\* not read it; what no pinned buffer holds is on the disk; nobody sleeps on a
\* free lock or on a request that is done; a free buffer can be found as long
\* as the log leaves one for each process.
CacheSound ==
  /\ \A b, c \in Bufs :
       b # c /\ buf[b].blockno # NoBlock => buf[b].blockno # buf[c].blockno
  /\ \A b \in Bufs :
       /\ buf[b].refcnt = Cardinality(Refers(b))
       /\ Cardinality({p \in Refers(b) :
                         bpc[p] \in {"hold", "done", "iderw", "sleepdisk"}}) <= 1
       /\ buf[b].valid /\ ~buf[b].bad => buf[b].data = block[buf[b].blockno]
  /\ \A k \in Sectors :
       disk[k] = block[k] \/ \E b \in Bufs : buf[b].blockno = k /\ buf[b].dirty
  /\ \A p \in Clients :
       /\ bpc[p] = "sleeplock" => buf[at[p]].owner # None
       /\ bpc[p] = "sleepdisk" => \E i \in DOMAIN idequeue : idequeue[i] = at[p]
  /\ NBUF >= Pinned + Cardinality(Clients) => ~panicked

\* Every request is carried out: the queue is served to its end although new
\* requests come in behind it.
RequestsServed ==
  \A p \in Clients : bpc[p] = "sleepdisk" ~> bpc[p] \in {"hold", "done"}
=============================================================================
