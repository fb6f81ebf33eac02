------------------------------- MODULE MCStore -------------------------------
(***************************************************************************)
(* For TLC, the parts of the kernel that keep something for others, side   *)
(* by side.  A behaviour is one of a single part: the others keep their    *)
(* initial state.                                                          *)
(*                                                                         *)
(*   shared   SharedMem                pipe   Pipe                         *)
(*   vm       VM                       ticks  Sched                        *)
(*   inode    Inode                    sums   CheckedFile                  *)
(*   cache    BufCache                                                     *)
(***************************************************************************)
EXTENDS Sched, SharedMem, Pipe, BufCache, VM, Inode, CheckedFile

VARIABLE part

SumInit ==
  /\ Init /\ shmem_init /\ pipealloc /\ userinit /\ iinit /\ FInit /\ binit
  /\ part \in {"shared", "pipe", "vm", "ticks", "inode", "sums", "cache"}
  /\ part # "cache" => driver = "ide"

SumNext ==
  /\ UNCHANGED part
  /\ \/ part = "shared" /\ ShmemNext /\ UNCHANGED <<vmvars, vars, ivars, fvars, cachevars, pipevars>>
     \/ part = "vm" /\ VMNext /\ UNCHANGED <<shmvars, vars, ivars, fvars, cachevars, pipevars>>
     \/ part = "ticks" /\ Next /\ UNCHANGED <<shmvars, vmvars, ivars, fvars, cachevars, pipevars>>
     \/ part = "inode" /\ INext /\ UNCHANGED <<shmvars, vmvars, vars, fvars, cachevars, pipevars>>
     \/ part = "sums" /\ FNext /\ UNCHANGED <<shmvars, vmvars, vars, ivars, cachevars, pipevars>>
     \/ part = "cache" /\ CacheNext /\ UNCHANGED <<shmvars, vmvars, vars, ivars, fvars, pipevars>>
     \/ part = "pipe" /\ PipeNext /\ UNCHANGED <<shmvars, vmvars, vars, ivars, fvars, cachevars>>

SumSpec ==
  SumInit /\ [][SumNext]_<<part, shmvars, vmvars, vars, ivars, fvars, cachevars, pipevars>>
=============================================================================
