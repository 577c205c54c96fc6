------------------------------- MODULE AEvent -------------------------------
(***************************************************************************)
(* The base class of every asynchronous event, aev::AEventAbstract: who    *)
(* keeps an event alive, how stopping an event stops the events below it,  *)
(* and what the completion handlers of asio see of an event that has       *)
(* stopped meanwhile.                                                      *)
(*                                                                         *)
(* One thread runs one io_service through one strand, so a handler runs to *)
(* its end before the next one starts; what interleaves is the order in    *)
(* which outstanding operations complete and queued handlers are run.  The *)
(* code of a derived class is a frame on `stack`: it may make any of the   *)
(* calls the base class offers, any number of times, before it returns.    *)
(***************************************************************************)
EXTENDS Naturals, Sequences, FiniteSets

CONSTANTS Ev,           \* every event object that may ever be constructed
          Root,         \* the event main() holds and runs
          NoEv,         \* the null pointer
          Util,         \* objects derived from AEventUtilBase
          Hid,          \* slots for outstanding operations and their handlers
          HasTimeout,   \* events constructed with a timeout other than 0
          Aborting,     \* events whose exit signal makes their parent stop too
          Uncancelled   \* events whose _ev_stop leaves their operation pending

ASSUME AEventAssumption ==
    /\ Root \in Ev
    /\ NoEv \notin Ev
    /\ HasTimeout \subseteq Ev
    /\ Aborting \subseteq Ev
    /\ Uncancelled \subseteq Ev

VARIABLES
    life,             \* not yet constructed, live, or destructed
    parent,           \* the `this` bound into _finish_callback
    child_ev_list,    \* _child_ev_list
    my_ptr,           \* whether _my_ptr points to the event (or is null)
    stop_inited,
    handler,          \* operations with the io_service, handlers in its queue
    stack,            \* the calls that are running, innermost last
    manager,          \* AEventUtilBase::_event_manager
    registered_utils, \* _registered_utils
    finish_calls,     \* history: calls of _finish_callback, counted up to 2
    late              \* history: events begun below a parent that had stopped

vars == <<life, parent, child_ev_list, my_ptr, stop_inited, handler, stack,
          manager, registered_utils, finish_calls, late>>

-----------------------------------------------------------------------------
\* An operation is pending until the io_service has its result, then its
\* handler is queued with success ("ok") or with an error ("failed").  `holds`
\* says whether AEvHandlerWrapper carries a pointer to the event.
NoHandler == [ev |-> NoEv, op |-> "none", st |-> "none", holds |-> FALSE]

Handler ==
    [ev : Ev, op : {"timer", "io"}, st : {"pending", "ok", "failed"},
     holds : BOOLEAN]

\* `open` marks code of a derived class; the base class's own timer handler
\* makes no further call once it is entered.
Frame == [ev : Ev, holds : BOOLEAN, open : BOOLEAN]

Top == stack[Len(stack)]

Idle == stack = <<>>

Running(e) == ~Idle /\ Top.ev = e /\ Top.open

\* The objects a running call can reach: its own event, the parent (handlers
\* such as AEvAcceptor::_new_message_handler are bound to it), and whatever a
\* util manages.
Reachable == {Top.ev, parent[Top.ev]} \cup {manager[u] : u \in Util}

\* Mutant of HeldBy: AEvHandlerWrapper keeps no shared pointer.
HeldByMutantWeakHandlers(e, s) ==
    \/ e = Root
    \/ my_ptr[e]
    \/ \E p \in Ev : e \in child_ev_list[p]
    \/ \E i \in 1..Len(s) : s[i].ev = e /\ s[i].holds
    \/ \E u \in Util : manager[u] = e

\* The shared pointers that keep an event alive when `s` is the call stack.
HeldBy(e, s) ==
    \/ e = Root
    \/ my_ptr[e]
    \/ \E p \in Ev : e \in child_ev_list[p]
    \/ \E h \in Hid : handler[h].ev = e /\ handler[h].holds
    \/ \E i \in 1..Len(s) : s[i].ev = e /\ s[i].holds
    \/ \E u \in Util : manager[u] = e

\* What wrap_asio_cb makes of a completion handler of event e: the pointer is
\* a copy of _my_ptr, which is null once the event has finished.
WrapAsioCb(e, op, st) == [ev |-> e, op |-> op, st |-> st, holds |-> my_ptr[e]]

\* Mutant of CancelTimer: a cancelled wait is forgotten instead of completed.
CancelTimerMutantForgets(hs, e) ==
    [h \in Hid |->
        IF hs[h].ev = e /\ hs[h].op = "timer" /\ hs[h].st = "pending"
        THEN [hs[h] EXCEPT !.st = "none"]
        ELSE hs[h]]

\* steady_timer::cancel, and the cancelling that expires_from_now does: waits
\* that have not expired complete with operation_aborted.
CancelTimer(hs, e) ==
    [h \in Hid |->
        IF hs[h].ev = e /\ hs[h].op = "timer" /\ hs[h].st = "pending"
        THEN [hs[h] EXCEPT !.st = "failed"]
        ELSE hs[h]]

\* The same for the operations of the events S that _ev_stop cancels.
CancelIo(hs, S) ==
    [h \in Hid |->
        IF hs[h].ev \in S /\ hs[h].st = "pending"
            /\ (hs[h].op = "timer" \/ hs[h].ev \notin Uncancelled)
        THEN [hs[h] EXCEPT !.st = "failed"]
        ELSE hs[h]]

\* A destructor cancels whatever the object still has outstanding.
CancelAll(hs, S) ==
    [h \in Hid |->
        IF hs[h].ev \in S /\ hs[h].st = "pending"
        THEN [hs[h] EXCEPT !.st = "failed"]
        ELSE hs[h]]

Free(h) == handler[h] = NoHandler

-----------------------------------------------------------------------------
\* One call of stop() runs down the child lists, and up through the child
\* callback of a parent that stops when a child aborts; an event that has
\* begun to stop ignores the call.
StopsWith(S) ==
    \A x \in S :
        /\ child_ev_list[x] \subseteq S
        /\ (x \in Aborting /\ parent[x] \in Ev /\ ~stop_inited[parent[x]])
              => parent[x] \in S

\* Mutants of StopSet: the loop over the children is missing; the early return
\* on stop_inited is missing.
StopSetMutantNoChildren(e) == IF stop_inited[e] THEN {} ELSE {e}

StopSetMutantNoGuard(e) ==
    {x \in Ev : \A S \in SUBSET Ev : e \in S /\ StopsWith(S) => x \in S}

StopSet(e) ==
    IF stop_inited[e]
    THEN {}
    ELSE {x \in Ev : \A S \in SUBSET Ev : e \in S /\ StopsWith(S) => x \in S}

\* Mutant of SelfReleased: finish() passes a copy of _my_ptr.
SelfReleasedMutantCopied(S) == [e \in Ev |-> my_ptr[e]]

\* finish() moves _my_ptr into the finish callback.
SelfReleased(S) == [e \in Ev |-> my_ptr[e] /\ e \notin S]

\* Mutant of Erased: _child_callback does not erase the child.
ErasedMutantKept(S) == [e \in Ev |-> child_ev_list[e]]

\* _child_callback takes a finished child off the list of its parent.
Erased(S) == [e \in Ev |-> child_ev_list[e] \ S]

\* Mutant of Closed: stop() does not run the registered closers.
ClosedMutantSkipped(S) == [u \in Util |-> manager[u]]

\* The registered closers call AEventUtilBase::stop_async.
Closed(S) ==
    [u \in Util |->
        IF \E e \in S : u \in registered_utils[e] THEN NoEv ELSE manager[u]]

\* stop() and finish() of every event of S.
StopAll(S, hs) ==
    /\ stop_inited' = [e \in Ev |-> stop_inited[e] \/ e \in S]
    /\ my_ptr' = SelfReleased(S)
    /\ child_ev_list' = Erased(S)
    /\ handler' = CancelIo(hs, S)
    /\ manager' = Closed(S)
    /\ finish_calls' = [e \in Ev |->
                          IF e \in S /\ finish_calls[e] < 2
                          THEN finish_calls[e] + 1 ELSE finish_calls[e]]
    /\ UNCHANGED <<life, parent, registered_utils, late>>

-----------------------------------------------------------------------------
\* main() has constructed the root and is inside its begin(): the self pointer
\* is set, the timer is running, _ev_begin is being called.
Init ==
    /\ life = [e \in Ev |-> IF e = Root THEN "live" ELSE "none"]
    /\ parent = [e \in Ev |-> NoEv]
    /\ child_ev_list = [e \in Ev |-> {}]
    /\ my_ptr = [e \in Ev |-> e = Root]
    /\ stop_inited = [e \in Ev |-> FALSE]
    /\ \E h \in Hid :
          handler = [x \in Hid |->
            IF x = h
            THEN [ev |-> Root, op |-> "timer", st |-> "pending", holds |-> TRUE]
            ELSE NoHandler]
    /\ stack = <<[ev |-> Root, holds |-> TRUE, open |-> TRUE]>>
    /\ manager = [u \in Util |-> NoEv]
    /\ registered_utils = [e \in Ev |-> {}]
    /\ finish_calls = [e \in Ev |-> 0]
    /\ late = {}

\* create_child of parent p: construct c, list it, and enter its begin(), which
\* sets _my_ptr and starts the timer before it calls _ev_begin.
CreateChild(p, c) ==
    /\ ~Idle /\ Top.open
    /\ p \in Reachable \cap Ev
    /\ life[p] = "live"
    /\ life[c] = "none"
    /\ life' = [life EXCEPT ![c] = "live"]
    /\ parent' = [parent EXCEPT ![c] = p]
    /\ child_ev_list' = [child_ev_list EXCEPT ![p] = @ \cup {c}]
    /\ my_ptr' = [my_ptr EXCEPT ![c] = TRUE]
    /\ \E h \in Hid :
          /\ Free(h)
          /\ handler' = [handler EXCEPT ![h] =
               [ev |-> c, op |-> "timer", st |-> "pending", holds |-> TRUE]]
    /\ stack' = Append(stack, [ev |-> c, holds |-> TRUE, open |-> TRUE])
    /\ late' = IF stop_inited[p] THEN late \cup {c} ELSE late
    /\ UNCHANGED <<stop_inited, manager, registered_utils, finish_calls>>

\* A derived class starts an asynchronous operation.  asio tries it at once, so
\* its result may be known, and its handler queued, before the call returns.
StartOp(e, h) ==
    /\ Running(e)
    /\ Free(h)
    /\ \E st \in {"pending", "ok", "failed"} :
          handler' = [handler EXCEPT ![h] = WrapAsioCb(e, "io", st)]
    /\ UNCHANGED <<life, parent, child_ev_list, my_ptr, stop_inited, stack,
                   manager, registered_utils, finish_calls, late>>

\* reset_and_start_timer
ResetTimer(e, h) ==
    /\ Running(e)
    /\ Free(h)
    /\ handler' = [CancelTimer(handler, e) EXCEPT ![h] =
                      WrapAsioCb(e, "timer", "pending")]
    /\ UNCHANGED <<life, parent, child_ev_list, my_ptr, stop_inited, stack,
                   manager, registered_utils, finish_calls, late>>

\* stop(), after which every handler of a derived class returns.  A call on an
\* event that has begun to stop returns at once and changes nothing.
Stop(e) ==
    /\ Running(e)
    /\ ~stop_inited[e]
    /\ StopAll(StopSet(e), handler)
    /\ stack' = [stack EXCEPT ![Len(stack)].open = FALSE]

\* AEventUtilBase::init_async with the configuration of the running event.  On
\* an event that has finished the configuration holds a null pointer, which
\* init_async dereferences: no such call is modelled.
InitAsync(u, e) ==
    /\ Running(e)
    /\ my_ptr[e]
    /\ manager' = [manager EXCEPT ![u] = e]
    /\ registered_utils' = [registered_utils EXCEPT ![e] = @ \cup {u}]
    /\ UNCHANGED <<life, parent, child_ev_list, my_ptr, stop_inited, handler,
                   stack, finish_calls, late>>

\* The innermost call returns and drops its pointer; events nothing points to
\* any more are destructed, and their outstanding operations are cancelled.
Return ==
    LET rest == SubSeq(stack, 1, Len(stack) - 1)
        gone == {e \in Ev : life[e] = "live" /\ ~HeldBy(e, rest)}
    IN /\ ~Idle
       /\ stack' = rest
       /\ life' = [e \in Ev |-> IF e \in gone THEN "dead" ELSE life[e]]
       /\ child_ev_list' = [e \in Ev |->
                              IF e \in gone THEN {} ELSE child_ev_list[e]]
       /\ registered_utils' = [e \in Ev |->
                                 IF e \in gone THEN {} ELSE registered_utils[e]]
       /\ handler' = CancelAll(handler, gone)
       /\ UNCHANGED <<parent, my_ptr, stop_inited, manager, finish_calls, late>>

-----------------------------------------------------------------------------
\* The io_service has the result of an operation; a timer has expired.
Complete(h) ==
    /\ Idle
    /\ handler[h].st = "pending"
    /\ \E st \in {"ok", "failed"} :
          /\ handler[h].op = "timer" => st = "ok"
          /\ handler' = [handler EXCEPT ![h].st = st]
    /\ UNCHANGED <<life, parent, child_ev_list, my_ptr, stop_inited, stack,
                   manager, registered_utils, finish_calls, late>>

\* The io_service takes a handler of a live event off its queue.
Dispatched(h, op, results) ==
    /\ Idle
    /\ handler[h].op = op
    /\ handler[h].st \in results
    /\ life[handler[h].ev] = "live"

Enter(h, open) ==
    stack' = <<[ev |-> handler[h].ev, holds |-> handler[h].holds,
                open |-> open]>>

Taken(h) == [handler EXCEPT ![h] = NoHandler]

\* The completion handler of a derived class's operation.
RunIo(h) ==
    /\ Dispatched(h, "io", {"ok", "failed"})
    /\ Enter(h, TRUE)
    /\ handler' = Taken(h)
    /\ UNCHANGED <<life, parent, child_ev_list, my_ptr, stop_inited, manager,
                   registered_utils, finish_calls, late>>

\* A timer wait that was cancelled: the handler returns at once.
TimerAborted(h) ==
    /\ Dispatched(h, "timer", {"failed"})
    /\ Enter(h, FALSE)
    /\ handler' = Taken(h)
    /\ UNCHANGED <<life, parent, child_ev_list, my_ptr, stop_inited, manager,
                   registered_utils, finish_calls, late>>

\* Mutant of TimerTick: the timer is not started again.
TimerTickMutantNotRearmed(h) ==
    /\ Dispatched(h, "timer", {"ok"})
    /\ handler[h].ev \notin HasTimeout
    /\ Enter(h, FALSE)
    /\ handler' = Taken(h)
    /\ UNCHANGED <<life, parent, child_ev_list, my_ptr, stop_inited, manager,
                   registered_utils, finish_calls, late>>

\* No timeout was configured: the timer is started again.
TimerTick(h) ==
    LET e == handler[h].ev
    IN /\ Dispatched(h, "timer", {"ok"})
       /\ e \notin HasTimeout
       /\ Enter(h, FALSE)
       /\ handler' = [CancelTimer(handler, e) EXCEPT ![h] =
                         WrapAsioCb(e, "timer", "pending")]
       /\ UNCHANGED <<life, parent, child_ev_list, my_ptr, stop_inited, manager,
                      registered_utils, finish_calls, late>>

\* The timeout has passed: the event stops.
TimerExpired(h) ==
    LET e == handler[h].ev
    IN /\ Dispatched(h, "timer", {"ok"})
       /\ e \in HasTimeout
       /\ Enter(h, FALSE)
       /\ StopAll(StopSet(e), Taken(h))

\* A handler that carries no pointer runs after its event was destructed.  The
\* code then uses a freed object; of what that can do the model keeps the
\* outcome in which the freed flags still read as they were left, so that the
\* handler's call of stop() returns at once.
RunOnDestructed(h) ==
    /\ Idle
    /\ handler[h].st \in {"ok", "failed"}
    /\ life[handler[h].ev] = "dead"
    /\ handler' = Taken(h)
    /\ UNCHANGED <<life, parent, child_ev_list, my_ptr, stop_inited, stack,
                   manager, registered_utils, finish_calls, late>>

Run(h) ==
    \/ RunIo(h)
    \/ TimerAborted(h)
    \/ TimerTick(h)
    \/ TimerExpired(h)
    \/ RunOnDestructed(h)

Next ==
    \/ \E p, c \in Ev : CreateChild(p, c)
    \/ \E e \in Ev, h \in Hid : StartOp(e, h) \/ ResetTimer(e, h)
    \/ \E e \in Ev : Stop(e)
    \/ \E u \in Util, e \in Ev : InitAsync(u, e)
    \/ Return
    \/ \E h \in Hid : Complete(h) \/ Run(h)

Spec == Init /\ [][Next]_vars

\* Calls return.  The queue of the io_service is first in first out and new
\* handlers go to its end, so a handler that is queued is run in the end,
\* although it waits while another one runs: strong fairness, handler by
\* handler.
Fairness == WF_vars(Return) /\ \A h \in Hid : SF_vars(Run(h))

FairSpec == Spec /\ Fairness

-----------------------------------------------------------------------------
\* Every variable stays within its type.
TypeOK ==
    /\ life \in [Ev -> {"none", "live", "dead"}]
    /\ parent \in [Ev -> Ev \cup {NoEv}]
    /\ child_ev_list \in [Ev -> SUBSET Ev]
    /\ my_ptr \in [Ev -> BOOLEAN]
    /\ stop_inited \in [Ev -> BOOLEAN]
    /\ handler \in [Hid -> Handler \cup {NoHandler}]
    /\ stack \in Seq(Frame)
    /\ manager \in [Util -> Ev \cup {NoEv}]
    /\ registered_utils \in [Ev -> SUBSET Util]
    /\ finish_calls \in [Ev -> 0..2]
    /\ late \subseteq Ev

Unfinished(e) == life[e] = "live" /\ ~stop_inited[e]

\* The finish callback of an event is called exactly once, when it stops: stop()
\* reaches an event from its own handlers, from its parent and from a child
\* that aborts, and a second pass would hand the parent a null pointer.
FinishedOnce ==
    \A e \in Ev : finish_calls[e] = IF stop_inited[e] THEN 1 ELSE 0

\* _child_ev_list is exact: a live event lists just the children it created
\* that have not finished, so stop() misses none and calls no finished one.
TreeExact ==
    \A p, c \in Ev :
        c \in child_ev_list[p] <=>
            life[p] = "live" /\ parent[c] = p /\ Unfinished(c)

\* A child that has yet to report finds its parent alive and not finished: the
\* raw `this` bound in _gen_conf_for_child is not dangling.  Only a child begun
\* below a parent that had already stopped is excepted.
ParentOutlivesChild ==
    \A c \in Ev \ {Root} :
        Unfinished(c) /\ c \notin late =>
            parent[c] \in Ev /\ Unfinished(parent[c])

\* A handler that carries a pointer finds its event alive, and a handler carries
\* none only when its event had finished before the operation was started.
HolderKeepsAlive ==
    \A h \in Hid : handler[h] # NoHandler =>
        IF handler[h].holds
        THEN life[handler[h].ev] = "live"
        ELSE stop_inited[handler[h].ev]

\* Nothing is leaked: something that will let go still points to every live
\* event, and while it is unfinished its timer wait, queued or being run, does.
NoLeak ==
    /\ \A e \in Ev : life[e] = "live" => HeldBy(e, stack)
    /\ \A e \in Ev : Unfinished(e) =>
          \E h \in Hid :
              handler[h].ev = e /\ handler[h].op = "timer" /\ handler[h].holds

\* No util keeps an event that has finished: stop() runs the registered closers
\* of AEventUtilBase, so a util cannot be what keeps a finished event alive.
UtilsLetGo ==
    \A u \in Util : manager[u] # NoEv =>
        Unfinished(manager[u]) /\ u \in registered_utils[manager[u]]

\* An event that has finished is kept by nothing that may wait: its self pointer
\* is gone, no parent lists it, no util manages it, and the handlers that carry a
\* pointer to it are in the queue, but for an operation _ev_stop does not cancel.
FinishedLetsGo ==
    \A e \in Ev : stop_inited[e] =>
        /\ ~my_ptr[e]
        /\ \A p \in Ev : e \notin child_ev_list[p]
        /\ \A u \in Util : manager[u] # e
        /\ \A h \in Hid :
              handler[h].ev = e /\ handler[h].holds /\ handler[h].st = "pending" =>
                  handler[h].op = "io" /\ e \in Uncancelled

\* Nobody takes hold of an event that has finished: operations it starts, and its
\* timer that is started again, carry no pointer (wrap_asio_cb copies a self
\* pointer that is null by then), so those that do carry one only run out.
FinishedStaysReleased ==
    [][\A e \in Ev, h \in Hid :
          stop_inited[e] /\ handler'[h].ev = e /\ handler'[h].holds =>
              /\ handler[h].ev = e /\ handler[h].holds
              /\ handler[h].st # "pending" => handler'[h] = handler[h]]_vars

\* An event that has stopped is destructed in the end, with its self pointer
\* gone and its operations cancelled; main() keeps the root, and an operation
\* _ev_stop does not cancel keeps its event until the operation completes.
StoppedIsDestructed ==
    \A e \in Ev \ ({Root} \cup Uncancelled) :
        stop_inited[e] ~> (life[e] = "dead")

\* The events as EventTree sees them.
Status ==
    [e \in Ev |->
        IF life[e] = "none" THEN "new"
        ELSE IF life[e] = "dead" THEN "destructed"
        ELSE IF stop_inited[e] THEN "finished"
        ELSE "running"]

Tree == INSTANCE EventTree WITH
            Event <- Ev, RootEvent <- Root, NoEvent <- NoEv,
            status <- Status, above <- parent

\* The base class keeps the promise of EventTree: however stop() is entered, an
\* event takes its subtree with it in the same step, and only finished events
\* are destructed.
ImplementsEventTree == Tree!TreeSpec

\* What the comment on wrap_asio_cb promises: the handler comes with a pointer
\* to the event that pushed it, so no handler is left without its event.
HandlerHasItsEvent ==
    \A h \in Hid : handler[h] # NoHandler => life[handler[h].ev] = "live"

=============================================================================
