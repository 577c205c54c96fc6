----------------------------- MODULE AEvDaemon -----------------------------
(***************************************************************************)
(* The daemon as main() runs it: the acceptor is the root event; below it  *)
(* are the listener for system signals, a session for every connection and *)
(* a reader of HDFS for every message.  What of an event's life is common  *)
(* to all classes is in AEvent; this module is about which operation of    *)
(* which event is outstanding, which of them keep their event, and when    *)
(* run() may return: when the io_service has no operation and no queued    *)
(* handler left.                                                           *)
(*                                                                         *)
(* A session or a reader is seen here as one stream of operations, beside  *)
(* the wait of its timer (SmtpSession and HdfsRead have the detail).  A    *)
(* wait that is replaced by a later one is left out: its handler does      *)
(* nothing, and runs before that of the later one.                         *)
(***************************************************************************)
EXTENDS FiniteSets

CONSTANTS Session,  \* bound: connections, stopped ones included, at a time
          Reader    \* bound: readers at a time

Child == Session \cup Reader

ASSUME DaemonAssumption ==
    /\ Session \cap Reader = {}
    /\ Child \cap {"acceptor", "syssig"} = {}

VARIABLES
    begun,        \* events that were created
    stop_inited,  \* of each event
    op,           \* the state of each operation
    late,         \* history: children begun after the acceptor had stopped
    hurried,      \* history: the acceptor stopped while its accept, or an
                  \* operation of a session, was queued with success
    strayed,      \* history: a handler that was queued with success has run on
                  \* an event that was destructed
    signalled     \* history: a signal was handled

vars == <<begun, stop_inited, op, late, hurried, strayed, signalled>>

Event == {"acceptor", "syssig"} \cup Child

Kinds(e) == {"wait"} \cup (IF e = "acceptor" THEN {"accept"}
                           ELSE IF e = "syssig" THEN {"signal"} ELSE {"io"})

\* The operations of an event.  One `holds` a pointer to the event, unless it was
\* started behind the event's stop.
Op == UNION {[of : {e}, kind : Kinds(e), holds : BOOLEAN] : e \in Event}

\* A stop does not cancel what is `resolving`, a name that is looked up.
OpState == {"none", "pending", "resolving", "ok", "failed"}

Outstanding == {"pending", "resolving"}

\* Those whose handlers create a child.
Begins == {o \in Op : o.kind = "accept" \/ (o.kind = "io" /\ o.of \in Session)}

Held(e, k) == [of |-> e, kind |-> k, holds |-> TRUE]

\* The operation of this kind that e starts now: finish() has taken its pointer
\* from an event that has stopped (wrap_asio_cb).
Now(e, k) == [of |-> e, kind |-> k, holds |-> ~stop_inited[e]]

\* The io_service has nothing left, so run() returns.
Returned == \A o \in Op : op[o] = "none"

\* main() keeps the acceptor; another event is destructed when it has stopped and
\* no handler points to it.
Destructed(e, f, stopped) ==
    /\ e # "acceptor" /\ stopped[e]
    /\ \A k \in Kinds(e) : f[Held(e, k)] = "none"

Freed(e) == Destructed(e, op, stop_inited)

\* A destructor cancels what its event has outstanding.
Settled(f, stopped) ==
    [o \in Op |-> IF f[o] \in Outstanding /\ Destructed(o.of, f, stopped)
                  THEN "failed" ELSE f[o]]

-----------------------------------------------------------------------------
\* _ev_begin of the acceptor: it listens, waits for signals, and accepts.
Init ==
    /\ begun = {"acceptor", "syssig"}
    /\ stop_inited = [e \in Event |-> FALSE]
    /\ op = [o \in Op |-> IF o.of \notin Child /\ o.holds THEN "pending" ELSE "none"]
    /\ late = {}
    /\ hurried = FALSE
    /\ strayed = FALSE
    /\ signalled = FALSE

\* Mutant of Cancelled: _ev_stop of the acceptor does not cancel accept.
CancelledMutantAcceptLeft(o, S) ==
    o.of \in S /\ op[o] = "pending" /\ o.kind \notin {"signal", "accept"}

\* Stopping an event cancels what it has pending (its _ev_stop or _ev_finish, and
\* finish for the timer).  The wait for a signal is the exception.
Cancelled(o, S) == o.of \in S /\ op[o] = "pending" /\ o.kind # "signal"

\* Mutants of StopSet: the acceptor does not stop its sessions and readers; it
\* stops whatever signal a child exits with.
StopSetMutantAlone(e) ==
    IF stop_inited[e] THEN {}
    ELSE IF e \in Child THEN {e}
    ELSE {x \in {"acceptor", "syssig"} : ~stop_inited[x]}

StopSetMutantAnyExit(e) ==
    IF stop_inited[e] THEN {} ELSE {x \in begun : ~stop_inited[x]}

\* The events that one call of stop() on e stops: the acceptor takes all of its
\* children along, and the signal listener, which aborts, takes the acceptor.
StopSet(e) ==
    IF stop_inited[e] THEN {}
    ELSE IF e \in Child THEN {e}
    ELSE {x \in begun : ~stop_inited[x]}

\* stop() of event e from the handler of operation o.
StopFrom(e, o) ==
    LET S == StopSet(e)
        left == [x \in Op |-> IF x = o THEN "none"
                              ELSE IF Cancelled(x, S) THEN "failed" ELSE op[x]]
    IN /\ stop_inited' = [x \in Event |-> stop_inited[x] \/ x \in S]
       /\ op' = Settled(left, stop_inited')
       /\ hurried' = (hurried \/ ("acceptor" \in S /\ \E x \in Begins : op[x] = "ok"))
       /\ UNCHANGED <<begun, late, strayed>>

\* c names no event, or one that was destructed and of which nothing is left.
Unused(c) ==
    c \notin begun \/ (stop_inited[c] /\ \A o \in Op : o.of = c => op[o] = "none")

\* The handler of operation o starts operation x, if any, in state `st`, and
\* returns.
Leaves(o, x, st) ==
    /\ op' = Settled([op EXCEPT ![o] = "none", ![x] = st], stop_inited)
    /\ UNCHANGED <<begun, stop_inited, late, hurried, signalled>>

\* create_child of the acceptor from the handler of operation o, which then starts
\* operation x: the child c has its timer and its first operation.
CreateChild(c, o, x, st) ==
    /\ Unused(c)
    /\ begun' = begun \cup {c}
    /\ stop_inited' = [stop_inited EXCEPT ![c] = FALSE]
    /\ op' = Settled(
                [op EXCEPT ![o] = "none", ![x] = st, ![Held(c, "wait")] = "pending",
                           ![Held(c, "io")] = IF c \in Reader THEN "resolving" ELSE "pending"],
                stop_inited')
    /\ late' = IF stop_inited["acceptor"] THEN late \cup {c} ELSE late
    /\ UNCHANGED <<hurried, strayed, signalled>>

-----------------------------------------------------------------------------
\* The outside world: a client connects or accept fails, time passes, a signal
\* arrives, a socket or a resolver has a result.
Complete(o) ==
    /\ op[o] \in Outstanding
    /\ \E st \in {"ok", "failed"} :
          /\ o.kind \in {"wait", "signal"} => st = "ok"
          /\ o.kind = "accept" /\ st = "ok" => \E s \in Session : Unused(s)
          /\ op' = [op EXCEPT ![o] = st]
    /\ UNCHANGED <<begun, stop_inited, late, hurried, strayed, signalled>>

\* Mutant of Accepted: the next accept is not started.
AcceptedMutantOnce(o, s) ==
    /\ o.kind = "accept" /\ op[o] = "ok"
    /\ CreateChild(s, o, o, "none")

\* The handler in _start_acceept: a session for the new connection, and the
\* next accept, whether or not the acceptor has stopped.
Accepted(o, s) ==
    /\ o.kind = "accept" /\ op[o] = "ok"
    /\ CreateChild(s, o, Now("acceptor", "accept"), "pending")

AcceptFailed(o) ==
    /\ o.kind = "accept" /\ op[o] = "failed"
    /\ StopFrom("acceptor", o)
    /\ UNCHANGED signalled

\* No event of the daemon has a timeout: its timer is started again, also when it
\* has stopped.  A wait that has expired meanwhile starts it again by itself.
Restarts(o) ==
    LET x == Now(o.of, "wait")
    IN  Leaves(o, x, IF x # o /\ op[x] = "ok" THEN "ok" ELSE "pending")

Tick(o) ==
    /\ o.kind = "wait" /\ op[o] = "ok" /\ ~Freed(o.of)
    /\ Restarts(o)
    /\ UNCHANGED strayed

TickCancelled(o) ==
    /\ o.kind = "wait" /\ op[o] = "failed"
    /\ Leaves(o, o, "none")
    /\ UNCHANGED strayed

\* The handler in _sig_listen.
Signal(o) ==
    /\ o.kind = "signal" /\ op[o] = "ok"
    /\ StopFrom("syssig", o)
    /\ signalled' = TRUE

\* What a handler of a child makes of the operation it starts next.  On an event
\* that has stopped the socket is closed, so that it fails at once; but a reader
\* resolves, and async_connect opens its socket again.
After(c) ==
    IF c \in Session THEN {IF stop_inited[c] THEN "failed" ELSE "pending"}
    ELSE {"pending", "resolving"} \cup (IF stop_inited[c] THEN {"failed"} ELSE {})

\* Mutant of GoesOn: the handler on an event that has stopped is given a pointer.
GoesOnMutantHolds(o) ==
    /\ o.kind = "io" /\ o.holds /\ op[o] = "ok"
    /\ \E st \in After(o.of) : Leaves(o, o, st)
    /\ UNCHANGED strayed

\* A handler of a session or a reader goes on with its next operation.
GoesOn(o) ==
    /\ o.kind = "io" /\ o.holds /\ op[o] = "ok"
    /\ \E st \in After(o.of) : Leaves(o, Now(o.of, "io"), st)
    /\ UNCHANGED strayed

\* The handler of a reply of a session that has stopped starts its timer again.
Replied(o) ==
    /\ o.kind = "io" /\ o.holds /\ op[o] = "ok"
    /\ o.of \in Session /\ stop_inited[o.of]
    /\ Restarts(o)
    /\ UNCHANGED strayed

\* A session has a whole message: the acceptor creates a reader for it, even
\* for a session that has stopped, or below an acceptor that has.
HandsOver(o, r) ==
    /\ o.kind = "io" /\ o.holds /\ op[o] = "ok" /\ o.of \in Session
    /\ CreateChild(r, o, Now(o.of, "io"), IF stop_inited[o.of] THEN "failed" ELSE "pending")

\* A handler of a session or a reader stops its event.
ChildStops(o) ==
    /\ o.kind = "io" /\ o.holds /\ op[o] \in {"ok", "failed"}
    /\ StopFrom(o.of, o)
    /\ UNCHANGED signalled

\* A reader that is redirected to a place it cannot parse reports the error and
\* returns: it is left with no operation, and has not stopped.
ReaderForgets(o) ==
    /\ o.kind = "io" /\ o.holds /\ op[o] = "ok" /\ o.of \in Reader
    /\ Leaves(o, o, "none")
    /\ UNCHANGED strayed

\* A handler without a pointer runs when its event was destructed: those with a
\* pointer were queued at the stop at the latest, or were a wait of the timer.
\* It uses a freed object; the model keeps that it returns, or that the timer is
\* started again.
Strays(o) ==
    /\ o.kind \in {"io", "wait"} /\ Freed(o.of)
    /\ op[o] = "ok" \/ (op[o] = "failed" /\ o.kind = "io")
    /\ \E st \in {"none"} \cup (IF o.kind = "wait" THEN {"pending"} ELSE {}) :
          op' = [op EXCEPT ![o] = st]
    /\ strayed' = (strayed \/ op[o] = "ok")
    /\ UNCHANGED <<begun, stop_inited, late, hurried, signalled>>

\* The handler of operation o.
Runs(o) ==
    \/ AcceptFailed(o) \/ \E s \in Session : Accepted(o, s)
    \/ Tick(o) \/ TickCancelled(o)
    \/ Signal(o)
    \/ GoesOn(o) \/ Replied(o) \/ ChildStops(o) \/ ReaderForgets(o)
    \/ \E r \in Reader : HandsOver(o, r)
    \/ Strays(o)

Next == \E o \in Op : Runs(o) \/ Complete(o)

Spec == Init /\ [][Next]_vars

\* The io_service runs queued handlers in turn, the timer of the root expires, and
\* a resolver has a result.  Clients, peers and whoever sends signals owe nothing.
\* Of the handlers below the root less is asked than the io_service does: that
\* those with a pointer are not all passed over for ever, nor those without.
Fairness ==
    /\ \A o \in Op : o.of = "acceptor" => WF_vars(Runs(o))
    /\ \A h \in BOOLEAN : WF_vars(\E o \in Op : o.of # "acceptor" /\ o.holds = h /\ Runs(o))
    /\ \A o \in Op : o.of = "acceptor" /\ o.kind = "wait" => WF_vars(Complete(o))
    /\ WF_vars(\E o \in Op : op[o] = "resolving" /\ Complete(o))

FairSpec == Spec /\ Fairness

-----------------------------------------------------------------------------
\* Every variable stays within its type.
TypeOK ==
    /\ begun \subseteq Event
    /\ stop_inited \in [Event -> BOOLEAN]
    /\ op \in [Op -> OpState]
    /\ late \subseteq Child
    /\ hurried \in BOOLEAN
    /\ strayed \in BOOLEAN
    /\ signalled \in BOOLEAN

\* Until it is stopped the daemon serves: it has an accept, its timer and a
\* wait for signals outstanding or about to be handled.
Serves ==
    ~stop_inited["acceptor"] =>
        /\ op[Held("acceptor", "accept")] # "none"
        /\ op[Held("acceptor", "wait")] # "none"
        /\ op[Held("syssig", "signal")] # "none"

\* When the acceptor has stopped so has every event below it that was begun
\* before, the sessions, the readers that forgot to finish, and the listener.
StopReachesAll ==
    stop_inited["acceptor"] =>
        \A e \in begun \ late : stop_inited[e]

\* Behind a stop a session or a reader is begun only when an accept or an
\* operation of a session had succeeded and was queued at that moment, or for a
\* session that was begun so: what the stop cancels begins nothing.
LateWasQueued ==
    late # {} => hurried

\* The acceptor stops because accept failed or a signal came, and for no other
\* reason: sessions and readers come and go without it.
OnlyOwnStops ==
    [][~stop_inited["acceptor"] /\ stop_inited'["acceptor"] =>
          \/ op[Held("acceptor", "accept")] = "failed"
          \/ op[Held("syssig", "signal")] = "ok"]_vars

\* The daemon has stopped, no handler of the acceptor itself is queued with success,
\* and behind the stop it started nothing and nothing was begun.
Quiet ==
    /\ stop_inited["acceptor"] /\ late = {}
    /\ \A o \in Op : o.of = "acceptor" => op[o] # "ok" /\ (op[o] # "none" => o.holds)

\* After a signal run() returns, and the process ends, if no handler of the
\* acceptor itself had succeeded and was queued at that moment, no session is
\* begun behind the stop, and no wait that has expired is handled on an event that
\* was destructed.
QuietStopReturns ==
    Quiet /\ signalled ~> (Returned \/ late # {} \/ strayed)

\* Behind such a stop nobody takes hold of an event again: an operation that holds
\* one stays as it was, or it is a resolve or the wait for a signal that has its
\* result; and the acceptor starts neither its timer nor an accept.
QuietStopDrains ==
    [][Quiet /\ late' = {} =>
          \A o \in Op : op'[o] # op[o] =>
             /\ o.of = "acceptor" => op'[o] = "none"
             /\ o.holds => \/ op'[o] = "none"
                           \/ op[o] \in Outstanding /\ op'[o] \notin Outstanding]_vars

\* The exit signal `abort`, with which the signal listener finishes, is said to
\* abort the process: run() returns after it, unless a session was begun behind
\* the stop.
AbortEndsProcess == signalled ~> (Returned \/ late # {} \/ strayed)

=============================================================================
