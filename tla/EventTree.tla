----------------------------- MODULE EventTree -----------------------------
(***************************************************************************)
(* What the base class of asynchronous events promises: events form a      *)
(* tree; an event that finishes takes every unfinished event below it with *)
(* it, in one step; nothing is destructed before it has finished; nothing  *)
(* finishes or is destructed twice.                                        *)
(***************************************************************************)
CONSTANTS Event, RootEvent, NoEvent

VARIABLES
    status,  \* of each event
    above    \* the event that created it

treeVars == <<status, above>>

TreeInit ==
    /\ status = [e \in Event |-> IF e = RootEvent THEN "running" ELSE "new"]
    /\ above = [e \in Event |-> NoEvent]

\* An event that exists begins a new one below it.  It may do so even after it
\* has finished: the handler that calls create_child may run that late.
Begin(p, c) ==
    /\ status[p] \in {"running", "finished"}
    /\ status[c] = "new"
    /\ status' = [status EXCEPT ![c] = "running"]
    /\ above' = [above EXCEPT ![c] = p]

\* The events of S finish together, and leave no running event below them.
Finish(S) ==
    /\ S # {}
    /\ \A e \in S : status[e] = "running"
    /\ \A c \in Event : status[c] = "running" /\ above[c] \in S => c \in S
    /\ status' = [e \in Event |-> IF e \in S THEN "finished" ELSE status[e]]
    /\ UNCHANGED above

\* Events that have finished are destructed; the root is kept by main().
Destruct(S) ==
    /\ S # {}
    /\ RootEvent \notin S
    /\ \A e \in S : status[e] = "finished"
    /\ status' = [e \in Event |-> IF e \in S THEN "destructed" ELSE status[e]]
    /\ UNCHANGED above

TreeNext ==
    \/ \E p, c \in Event : Begin(p, c)
    \/ \E S \in SUBSET Event : Finish(S) \/ Destruct(S)

TreeSpec == TreeInit /\ [][TreeNext]_treeVars

=============================================================================
