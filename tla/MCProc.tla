------------------------------- MODULE MCProc -------------------------------
(***************************************************************************)
(* Proc for TLC, on two instances: one with kill() and calls of sleep(),   *)
(* for which liveness is checked too ("kill"), and a larger one without    *)
(* ("life").  Slots are not symmetric: allocproc(), wait() and kill() take *)
(* the first that fits.                                                    *)
(***************************************************************************)
EXTENDS Proc

VARIABLE part   \* which of the two

\* kill() of any pid but init's: exit() panics when init is killed.
AnyPidButInit == 2..MaxPid

Life == INSTANCE Proc WITH MaxPid <- 5, KillPids <- {}, Blocking <- FALSE

SumInit == Init /\ part \in {"kill", "life"}

SumNext ==
  \/ part = "kill" /\ Next /\ UNCHANGED part
  \/ part = "life" /\ Life!Next /\ UNCHANGED part

all == <<part, vars>>

\* With MaxPid processes in all, no slot beyond is ever occupied.
Occupied == 1..MaxPid

\* The fairness of Proc, for the part where it is assumed.
Killing(A) == part = "kill" /\ A
SumSpec ==
  /\ SumInit /\ [][SumNext]_all
  /\ \A s \in Occupied : /\ SF_vars(Killing(dispatch(s)))
                         /\ SF_vars(Killing(Continues(s)))
                         /\ WF_vars(Killing(yield(s)))
  /\ SF_vars(Killing(syscall(initproc))) /\ SF_vars(Killing(wait(initproc)))
  /\ SF_vars(Killing(sys_sleep(initproc) /\ pc'[initproc] = "user"))
  /\ WF_vars(Killing(wakeup))
-----------------------------------------------------------------------------
(* Properties, beside Proc's own invariants.                               *)

\* Proc's OrphansReaped: init reaps every zombie it is given.
InitReaps == part = "kill" => OrphansReaped

\* Proc's KilledDie: a killed process exits, if it waited in wait() or sys_sleep().
VictimsDie == part = "kill" => KilledDie
=============================================================================
