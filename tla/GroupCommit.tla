---------------------------- MODULE GroupCommit ----------------------------
(***************************************************************************)
(* What the log of log.c promises to the file system above it: the updates *)
(* of the system calls that run between begin_op() and end_op() become     *)
(* durable together, only while no system call is in progress, and a crash *)
(* falls back to exactly the last durable contents.                        *)
(***************************************************************************)
CONSTANTS
  Ops,      \* the processes that run file-system system calls
  Blocks,   \* home blocks of the disk (bitmap, inode and data blocks)
  Vals,     \* contents of a block
  InitVal   \* the contents mkfs left in every block

VARIABLES
  durable,  \* what a reboot at this moment would find in the home blocks
  current,  \* what a running system call reads from the blocks
  open      \* the system calls between begin_op() and end_op()

vars == <<durable, current, open>>

Init ==
  /\ durable = [b \in Blocks |-> InitVal]
  /\ current = durable
  /\ open = {}

Begin(p) ==
  /\ p \notin open
  /\ open' = open \cup {p}
  /\ UNCHANGED <<durable, current>>

Write(p, b, v) ==
  /\ p \in open
  /\ current' = [current EXCEPT ![b] = v]
  /\ UNCHANGED <<durable, open>>

End(p) ==
  /\ p \in open
  /\ open' = open \ {p}
  /\ UNCHANGED <<durable, current>>

\* All the updates since the last commit become durable in one step.
Commit ==
  /\ open = {}
  /\ durable' = current
  /\ UNCHANGED <<current, open>>

\* A crash loses every update that was not durable and every running call.
Crash ==
  /\ open' = {}
  /\ current' = durable
  /\ UNCHANGED durable

Next ==
  \/ \E p \in Ops : Begin(p) \/ End(p)
  \/ \E p \in Ops, b \in Blocks, v \in Vals : Write(p, b, v)
  \/ Commit
  \/ Crash

Spec == Init /\ [][Next]_vars
=============================================================================
