----------------------------- MODULE TaskQueue -----------------------------
(***************************************************************************)
(* What the detached task queue promises: every task that was accepted is  *)
(* run, once, in the order in which the tasks were accepted, and none is   *)
(* accepted after the stop.  Tasks are numbered as they are accepted.      *)
(***************************************************************************)
EXTENDS Naturals, Sequences

VARIABLES
    taken,   \* how many tasks were accepted
    ran,     \* the tasks that were run, in this order
    closed

queueVars == <<taken, ran, closed>>

QueueInit == taken = 0 /\ ran = <<>> /\ closed = FALSE

Accept == ~closed /\ taken' = taken + 1 /\ UNCHANGED <<ran, closed>>

Perform ==
    /\ Len(ran) < taken
    /\ ran' = Append(ran, Len(ran) + 1)
    /\ UNCHANGED <<taken, closed>>

Close == closed' = TRUE /\ UNCHANGED <<taken, ran>>

QueueNext == Accept \/ Perform \/ Close

QueueSpec == QueueInit /\ [][QueueNext]_queueVars

=============================================================================
