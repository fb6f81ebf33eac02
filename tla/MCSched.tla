------------------------------- MODULE MCSched -------------------------------
(***************************************************************************)
(* For TLC, the places where CPUs wait for a lock and processes wait for   *)
(* the CPU, for each other or for the disk, side by side: LockOrder on one *)
(* CPU ("locks"), Sched on two without a clock ("cpu"), Pipe ("pipe") and  *)
(* BufCache ("disk").  A behaviour is one of a single part: the others     *)
(* keep their initial state.                                               *)
(***************************************************************************)
EXTENDS LockOrder, Sched

VARIABLES
  part,
  data, nread, nwrite, readopen, writeopen, ends, doing, left, killed, late, sent,
  got, silent,
  driver, buf, lru, idequeue, active, disk, pc, bat, block, reads, used, panicked

pvars == <<data, nread, nwrite, readopen, writeopen, ends, doing, left, killed,
           late, sent, got, silent>>
bvars == <<driver, buf, lru, idequeue, active, disk, pc, bat, block, reads, used,
           panicked>>

Users == {1, 2}

P == INSTANCE Pipe WITH
       Procs <- Users, PIPESIZE <- 2, Wrap <- 4, Calls <- 1..3
B == INSTANCE BufCache WITH
       Clients <- Users, NBUF <- 2, Sectors <- 1..3, Pinned <- 1, Values <- 2,
       Reads <- 3, at <- bat, bpc <- pc

SumInit ==
  /\ LockInit /\ Init /\ P!pipealloc /\ B!binit /\ driver = "ide"
  /\ part \in {"locks", "cpu", "pipe", "disk"}

SumNext ==
  /\ UNCHANGED part
  /\ \/ part = "locks" /\ LockNext /\ UNCHANGED <<vars, pvars, bvars>>
     \/ part = "cpu" /\ Next /\ UNCHANGED <<lockvars, pvars, bvars>>
     \/ part = "pipe" /\ P!PipeNext /\ UNCHANGED <<lockvars, vars, bvars>>
     \/ part = "disk" /\ B!CacheNext /\ UNCHANGED <<lockvars, vars, pvars>>

all == <<part, lockvars, vars, pvars, bvars>>

\* With the fairness of each part.
SumSpec ==
  /\ SumInit /\ [][SumNext]_all
  /\ \A c \in CPUs : /\ WF_vars(part = "cpu" /\ pass(c))
                     /\ WF_vars(part = "cpu" /\ Leaves(c))
  /\ WF_vars(part = "cpu" /\ tick)
  /\ \A p \in Users : /\ WF_pvars(part = "pipe" /\ P!Run(p))
                      /\ WF_pvars(part = "pipe" /\ p \in killed /\ P!Close(p))
  /\ WF_bvars(part = "disk" /\ B!Disk)
-----------------------------------------------------------------------------
(* Properties, beside those of LockOrder and Sched.                        *)

\* Pipe's CallsEnd: a call comes back after kill() and after the last close().
CallsEnd == P!CallsEnd

\* Pipe's PipeSound: bytes come in order, and a sleeper has a reason to sleep.
PipeSound == P!PipeSound

\* BufCache's RequestsServed: every disk request is carried out.
RequestsServed == B!RequestsServed
=============================================================================
