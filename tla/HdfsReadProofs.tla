--------------------------- MODULE HdfsReadProofs ---------------------------
(***************************************************************************)
(* Proofs about HdfsRead for replies and redirects of every size: type     *)
(* correctness, that the reader reports once and, with its timer, only     *)
(* winds up when it is stopped, that it reports content only from a reply that has it, and     *)
(* that a redirect is followed to where it leads.                          *)
(*                                                                         *)
(* The last two rest on what the functions of HdfsUtils return for every   *)
(* string and what the buffer holds after every part of a reply. Places    *)
(* and Buffer are recursive; their recursions are proved by induction over *)
(* places and lines, with the sets of SetInduction.                        *)
(***************************************************************************)
EXTENDS HdfsRead, SetInduction, SequenceTheorems

\* Only a reader that has stopped is destructed.
AliveUnlessStopped == ~stop_inited => alive

\* The inductive invariant.
IInv == TypeOK /\ ReportsOnce /\ AliveUnlessStopped

\* The types of what a handler leaves beside the operation and the report.
DataTyped ==
    /\ name_node_in_process \in BOOLEAN
    /\ reply \in Reply
    /\ top \in Nat
    /\ endpoint \in Endpoint
    /\ file_query \in FileQuery
    /\ request \in [host : {e.domain : e \in Endpoint}, path : FileQuery]
    /\ redirect \in Location \cup {<<>>}

-----------------------------------------------------------------------------
\* The size of a reply is a number.
LEMMA SizeNat ==
    ASSUME NEW r \in Reply
    PROVE  Size(r) \in Nat
<1>1. PICK s1 : s1 = <<r.head>>
  OBVIOUS
<1>2. PICK s2 : s2 = IF r.location = <<>> THEN <<>> ELSE <<"Location">>
  OBVIOUS
<1>3. PICK s3 : s3 = IF r.announced THEN <<"Content-Length">> ELSE <<>>
  OBVIOUS
<1>4. PICK s4 : s4 = <<"blank">>
  OBVIOUS
<1>5. r.head \in {"200", "307", "malformed"} /\ r.body \in 0..MaxBody
  BY DEF Reply
<1>6. PICK L : L = {"200", "307", "malformed", "Location", "Content-Length", "blank"}
  OBVIOUS
<1>7. s1 \in Seq(L) /\ s2 \in Seq(L) /\ s3 \in Seq(L) /\ s4 \in Seq(L)
  <2>1. r.head \in L /\ "Content-Length" \in L /\ "blank" \in L /\ "Location" \in L
    BY <1>5, <1>6
  <2>3. <<>> \in Seq(L) /\ \A x \in L : <<x>> \in Seq(L)
    OBVIOUS
  <2>4. s1 \in Seq(L) /\ s4 \in Seq(L)
    BY <1>1, <1>4, <2>1, <2>3
  <2>5. s2 \in Seq(L)
    BY <1>2, <2>1, <2>3
  <2>6. s3 \in Seq(L)
    BY <1>3, <2>1, <2>3
  <2> QED BY <2>4, <2>5, <2>6
<1>8. s1 \o s2 \o s3 \o s4 \in Seq(L)
  BY <1>7
<1>9. Len(Lines(r)) \in Nat
  <2>1. Lines(r) = s1 \o s2 \o s3 \o s4
    BY <1>1, <1>2, <1>3, <1>4 DEF Lines
  <2> QED BY <1>8, <2>1
<1>10. r.body \in Nat
  <2>1. r.body \in 0..MaxBody
    BY DEF Reply
  <2>2. \A n \in 0..MaxBody : n \in Nat
    BY HdfsAssumption
  <2> QED BY <2>1, <2>2
<1> QED BY <1>9, <1>10 DEF Size

\* A running handler finds that nothing was reported yet.
LEMMA NotReported ==
    ASSUME IInv, op.st \in {"pending", "ok", "failed"}
    PROVE  called = <<>> /\ op \in Op /\ op # NoOp
<1>1. op # NoOp
  BY DEF NoOp
<1> QED BY <1>1 DEF IInv, TypeOK, ReportsOnce

\* An operation is started with a result, and with a pointer unless the reader
\* has stopped.
LEMMA StartedType ==
    ASSUME NEW kind \in {"resolve", "connect", "send", "read"},
           stop_inited \in BOOLEAN, NEW o \in Started(kind)
    PROVE  o \in Op /\ o # NoOp
<1>1. o.kind = kind /\ o \in Op
  BY DEF Started, Op
<1> QED BY <1>1 DEF NoOp

\* What a stop or a destruction makes of an operation, and of the timer's wait.
LEMMA CancelledOp ==
    ASSUME NEW o \in Op \cup {NoOp}
    PROVE  /\ Cancelled(o) \in Op \cup {NoOp}
           /\ Cancelled(o).kind = o.kind /\ Cancelled(o).holds = o.holds
           /\ Cancelled(o).st # "pending"
           /\ Cancelled(o) = NoOp <=> o = NoOp
<1>1. CASE o = NoOp
  BY ONLY <1>1 DEF NoOp, Cancelled
<1>2. CASE o \in Op
  <2>1. /\ Cancelled(o) \in Op /\ Cancelled(o).kind = o.kind
        /\ Cancelled(o).holds = o.holds /\ Cancelled(o).st # "pending"
    BY ONLY <1>2 DEF Op, Cancelled
  <2>2. \A p \in Op : p # NoOp
    BY ONLY TRUE DEF Op, NoOp
  <2> QED BY ONLY <1>2, <2>1, <2>2
<1> QED BY <1>1, <1>2

LEMMA CancelledTimer ==
    ASSUME NEW t \in Timer \cup {NoTimer}
    PROVE  /\ Cancelled(t) \in Timer \cup {NoTimer}
           /\ Cancelled(t).holds = t.holds /\ Cancelled(t).st # "pending"
<1>1. CASE t = NoTimer
  BY ONLY <1>1 DEF NoTimer, Cancelled
<1>2. CASE t \in Timer
  BY ONLY <1>2 DEF Timer, Cancelled
<1> QED BY <1>1, <1>2

\* What a handler leaves.
LEMMA LeavesFacts ==
    ASSUME NEW o \in Op \cup {NoOp}, NEW t \in Timer \cup {NoTimer},
           NEW stopped \in BOOLEAN, Leaves(o, t, stopped)
    PROVE  /\ stop_inited' = stopped
           /\ op' \in Op \cup {NoOp} /\ op'.kind = o.kind /\ op'.holds = o.holds
           /\ op' = NoOp <=> o = NoOp
           /\ timer' \in Timer \cup {NoTimer} /\ timer'.holds = t.holds
           /\ alive' \in BOOLEAN /\ (alive' <=> ~stopped \/ o.holds \/ t.holds)
           /\ alive' => op' = o /\ timer' = t
           /\ ~alive' => op'.st # "pending" /\ timer'.st # "pending"
<1>1. o.holds \in BOOLEAN /\ t.holds \in BOOLEAN
  <2>1. o \in Op => o.holds \in BOOLEAN
    BY ONLY TRUE DEF Op
  <2>2. t \in Timer => t.holds \in BOOLEAN
    BY ONLY TRUE DEF Timer
  <2>3. NoOp.holds = FALSE /\ NoTimer.holds = FALSE
    BY ONLY TRUE DEF NoOp, NoTimer
  <2> QED BY ONLY <2>1, <2>2, <2>3, o \in Op \cup {NoOp}, t \in Timer \cup {NoTimer}
<1>2. PICK living \in BOOLEAN : living = (~stopped \/ o.holds \/ t.holds)
  BY ONLY <1>1, stopped \in BOOLEAN
<1>3. /\ stop_inited' = stopped /\ alive' = living
      /\ op' = IF living THEN o ELSE Cancelled(o)
      /\ timer' = IF living THEN t ELSE Cancelled(t)
  BY ONLY <1>2, Leaves(o, t, stopped) DEF Leaves
<1>4. CASE living
  BY ONLY <1>2, <1>3, <1>4, o \in Op \cup {NoOp}, t \in Timer \cup {NoTimer}
<1>5. CASE ~living
  <2>1. op' = Cancelled(o) /\ timer' = Cancelled(t)
    BY ONLY <1>3, <1>5
  <2>2. /\ op' \in Op \cup {NoOp} /\ op'.kind = o.kind /\ op'.holds = o.holds
        /\ op'.st # "pending" /\ (op' = NoOp <=> o = NoOp)
    BY ONLY <2>1, CancelledOp, o \in Op \cup {NoOp}
  <2>3. /\ timer' \in Timer \cup {NoTimer} /\ timer'.holds = t.holds
        /\ timer'.st # "pending"
    BY ONLY <2>1, CancelledTimer, t \in Timer \cup {NoTimer}
  <2> QED BY ONLY <1>2, <1>3, <1>5, <2>2, <2>3
<1> QED BY <1>2, <1>4, <1>5

\* stop() leaves the timer as it is, or cancels it.
LEMMA StopsFacts ==
    ASSUME IInv, NEW o \in Op \cup {NoOp}, StopsWith(o)
    PROVE  /\ stop_inited' = TRUE
           /\ op' \in Op \cup {NoOp} /\ op'.kind = o.kind /\ op'.holds = o.holds
           /\ op' = NoOp <=> o = NoOp
           /\ timer' \in Timer \cup {NoTimer} /\ timer'.holds = timer.holds
           /\ alive' \in BOOLEAN /\ (alive' <=> o.holds \/ timer.holds)
           /\ alive' => op' = o
           /\ alive' /\ stop_inited => timer' = timer
           /\ ~stop_inited => timer'.st # "pending"
           /\ ~alive' => op'.st # "pending" /\ timer'.st # "pending"
<1>1. timer \in Timer \cup {NoTimer} /\ stop_inited \in BOOLEAN
  BY DEF IInv, TypeOK
<1>2. PICK t \in Timer \cup {NoTimer} :
         /\ t = IF stop_inited THEN timer ELSE Cancelled(timer)
         /\ t.holds = timer.holds
         /\ ~stop_inited => t.st # "pending"
  BY ONLY <1>1, CancelledTimer
<1>3. Leaves(o, t, TRUE)
  BY ONLY <1>2, StopsWith(o) DEF StopsWith
<1>4. /\ stop_inited' = TRUE
      /\ op' \in Op \cup {NoOp} /\ op'.kind = o.kind /\ op'.holds = o.holds
      /\ op' = NoOp <=> o = NoOp
      /\ timer' \in Timer \cup {NoTimer} /\ timer'.holds = t.holds
      /\ alive' \in BOOLEAN /\ (alive' <=> o.holds \/ t.holds)
      /\ alive' => op' = o /\ timer' = t
      /\ ~alive' => op'.st # "pending" /\ timer'.st # "pending"
  BY ONLY <1>3, LeavesFacts, o \in Op \cup {NoOp}, t \in Timer \cup {NoTimer}
<1> QED BY ONLY <1>2, <1>4

\* A handler that reports, and stops or not, keeps the invariant.
LEMMA ReportKeeps ==
    ASSUME IInv, called = <<>>, NEW result \in {"error", "content"},
           called' = Append(called, result),
           StopsWith(NoOp) \/ Leaves(NoOp, timer, stop_inited),
           DataTyped'
    PROVE  IInv'
<1>1. called' = <<result>>
  BY DEF IInv
<1>2. called' \in Seq({"error", "content"}) /\ Len(called') = 1 /\ called' # <<>>
  BY <1>1
<1>3. /\ op' = NoOp /\ stop_inited' \in BOOLEAN /\ alive' \in BOOLEAN
      /\ timer' \in Timer \cup {NoTimer} /\ (~stop_inited' => alive')
  <2>1. NoOp \in Op \cup {NoOp}
    OBVIOUS
  <2>2. CASE StopsWith(NoOp)
    BY ONLY IInv, <2>1, <2>2, StopsFacts
  <2>3. CASE Leaves(NoOp, timer, stop_inited)
    <3>1. timer \in Timer \cup {NoTimer} /\ stop_inited \in BOOLEAN
      BY DEF IInv, TypeOK
    <3> QED BY ONLY <2>1, <2>3, <3>1, LeavesFacts
  <2> QED BY <2>2, <2>3
<1>4. TypeOK'
  BY <1>2, <1>3 DEF TypeOK, DataTyped
<1>5. ReportsOnce'
  BY <1>2, <1>3 DEF ReportsOnce
<1> QED BY <1>3, <1>4, <1>5 DEF IInv, AliveUnlessStopped

\* An operation that is started is of the kind that was asked for, and the timer
\* stays as it is.
LEMMA GoesOnFacts ==
    ASSUME IInv, NEW kind \in {"resolve", "connect", "send", "read"}, GoesOn(kind)
    PROVE  /\ op' \in Op /\ op' # NoOp /\ op'.kind = kind
           /\ op'.holds = ~stop_inited
           /\ called' = called /\ stop_inited' = stop_inited
           /\ timer' \in Timer \cup {NoTimer} /\ timer'.holds = timer.holds
           /\ alive' \in BOOLEAN /\ (alive' <=> ~stop_inited \/ timer.holds)
           /\ alive' => timer' = timer
           /\ ~alive' => op'.st # "pending" /\ timer'.st # "pending"
<1>1. PICK o \in Started(kind) : Leaves(o, timer, stop_inited) /\ called' = called
  BY DEF GoesOn
<1>2. timer \in Timer \cup {NoTimer} /\ stop_inited \in BOOLEAN
  BY DEF IInv, TypeOK
<1>3. o \in Op /\ o # NoOp
  BY <1>2, StartedType
<1>4. o.kind = kind /\ o.holds = ~stop_inited
  BY ONLY o \in Started(kind) DEF Started
<1>5. o \in Op \cup {NoOp}
  BY ONLY <1>3
<1>6. /\ stop_inited' = stop_inited
      /\ op' \in Op \cup {NoOp} /\ op'.kind = o.kind /\ op'.holds = o.holds
      /\ op' = NoOp <=> o = NoOp
      /\ timer' \in Timer \cup {NoTimer} /\ timer'.holds = timer.holds
      /\ alive' \in BOOLEAN
      /\ (alive' <=> ~stop_inited \/ o.holds \/ timer.holds)
      /\ alive' => op' = o /\ timer' = timer
      /\ ~alive' => op'.st # "pending" /\ timer'.st # "pending"
  BY ONLY <1>1, <1>2, <1>5, LeavesFacts
<1> QED BY ONLY <1>1, <1>3, <1>4, <1>6

\* A handler that starts an operation keeps the invariant.
LEMMA GoesOnKeeps ==
    ASSUME IInv, called = <<>>,
           NEW kind \in {"resolve", "connect", "send", "read"}, GoesOn(kind),
           DataTyped'
    PROVE  IInv'
<1>1. /\ op' \in Op /\ op' # NoOp /\ called' = called
      /\ stop_inited' = stop_inited /\ alive' \in BOOLEAN
      /\ (~stop_inited => alive') /\ timer' \in Timer \cup {NoTimer}
  BY ONLY IInv, kind \in {"resolve", "connect", "send", "read"}, GoesOn(kind), GoesOnFacts
<1>2. TypeOK'
  BY <1>1 DEF IInv, TypeOK, DataTyped
<1>3. Len(called') = 0 /\ called' = <<>>
  BY <1>1
<1>4. ReportsOnce'
  BY <1>1, <1>3 DEF ReportsOnce
<1> QED BY <1>1, <1>2, <1>4 DEF IInv, AliveUnlessStopped

-----------------------------------------------------------------------------
\* The initial states satisfy the invariant.
LEMMA InitIInv == Init => IInv
<1> SUFFICES ASSUME Init PROVE IInv
  OBVIOUS
<1>1. DataTyped /\ stop_inited \in BOOLEAN /\ alive \in BOOLEAN
  <2>1. 0 \in 0..MaxBody
    BY HdfsAssumption
  <2>2. reply \in Reply
    <3>1. reply = [head |-> "200", location |-> <<>>, announced |-> FALSE, body |-> 0]
      BY DEF Init
    <3> QED BY <2>1, <3>1 DEF Reply
  <2>3. top \in Nat /\ name_node_in_process \in BOOLEAN
    BY DEF Init
  <2>4. stop_inited \in BOOLEAN /\ alive \in BOOLEAN
    BY DEF Init
  <2>5. endpoint \in Endpoint
    BY DEF Init, Endpoint
  <2>6. NoEndpoint \in Endpoint /\ NoEndpoint.domain = <<>>
    BY DEF Endpoint, NoEndpoint
  <2>7. file_query \in FileQuery /\ redirect \in Location \cup {<<>>}
    BY DEF Init, FileQuery
  <2>8. request \in [host : {e.domain : e \in Endpoint}, path : FileQuery]
    BY <2>6 DEF Init, FileQuery
  <2> QED BY <2>2, <2>3, <2>4, <2>5, <2>7, <2>8 DEF DataTyped
<1>8. \/ /\ called = <<>> /\ op = [kind |-> "resolve", st |-> "pending", holds |-> TRUE]
         /\ timer = [st |-> "pending", holds |-> TRUE]
      \/ /\ called = <<"error">> /\ op = NoOp
         /\ timer = [st |-> "failed", holds |-> TRUE]
  BY ONLY Init DEF Init
<1>9. timer \in Timer
  <2>1. /\ [st |-> "pending", holds |-> TRUE] \in Timer
        /\ [st |-> "failed", holds |-> TRUE] \in Timer
    BY ONLY TRUE DEF Timer
  <2> QED BY ONLY <1>8, <2>1
<1>4. alive
  BY DEF Init
<1>2. CASE called = <<>> /\ op = [kind |-> "resolve", st |-> "pending", holds |-> TRUE]
  <2>1. op \in Op /\ op # NoOp
    BY <1>2 DEF Op, NoOp
  <2>2. called \in Seq({"error", "content"}) /\ Len(called) = 0
    BY <1>2
  <2>3. TypeOK
    BY ONLY <1>1, <1>9, <2>1, <2>2 DEF TypeOK, DataTyped
  <2>4. ReportsOnce
    BY ONLY <1>2, <2>1, <2>2 DEF ReportsOnce
  <2> QED BY ONLY <1>4, <2>3, <2>4 DEF IInv, AliveUnlessStopped
<1>3. CASE called = <<"error">> /\ op = NoOp
  <2>1. called \in Seq({"error", "content"}) /\ Len(called) = 1
    BY <1>3
  <2>2. TypeOK
    BY ONLY <1>1, <1>3, <1>9, <2>1 DEF TypeOK, DataTyped
  <2>3. <<"error">> # <<>>
    OBVIOUS
  <2>4. ReportsOnce
    BY ONLY <1>3, <2>1, <2>3 DEF ReportsOnce
  <2> QED BY ONLY <1>4, <2>2, <2>4 DEF IInv, AliveUnlessStopped
<1> QED BY ONLY <1>2, <1>3, <1>8

\* Every handler keeps the invariant.
LEMMA HandlerKeeps ==
    ASSUME IInv, Handler
    PROVE  IInv'
<1>0. DataTyped /\ stop_inited \in BOOLEAN /\ alive \in BOOLEAN
  BY DEF IInv, TypeOK, DataTyped
<1>1. called = <<>> /\ op \in Op /\ op # NoOp
  <2>1. op.st \in {"ok", "failed"}
    BY DEF Handler, OpFailed, Resolved, Connected, Sent, Received, RunsOnDestructed, Runs
  <2> QED BY <2>1, NotReported
<1>2. CASE OpFailed
  BY <1>0, <1>1, <1>2, ReportKeeps DEF OpFailed, ReportAndStop, DataTyped
<1>3. CASE Resolved
  BY <1>0, <1>1, <1>3, GoesOnKeeps DEF Resolved, DataTyped
<1>4. CASE Connected
  <2>1. request' \in [host : {e.domain : e \in Endpoint}, path : FileQuery]
    BY <1>0, <1>4 DEF Connected, Request, DataTyped, FileQuery
  <2>2. DataTyped'
    BY <1>0, <1>4, <2>1 DEF Connected, DataTyped
  <2> QED BY <1>1, <1>4, <2>2, GoesOnKeeps DEF Connected
<1>5. CASE Sent
  BY <1>0, <1>1, <1>5, GoesOnKeeps DEF Sent, DataTyped
<1>6. CASE Received
  <2>1. PICK t \in (top + 1)..Size(reply) :
           /\ top' = t
           /\ OnGetRespond(Buffer(reply, t)) \/ (GoesOn("read") /\ Stays)
    BY <1>6 DEF Received
  <2>2. t \in Nat
    BY <1>0, <2>1, SizeNat DEF DataTyped
  <2>3. top' \in Nat /\ UNCHANGED <<reply, request>>
    BY <1>6, <2>1, <2>2 DEF Received
  <2>4. CASE Stays
    <3>1. DataTyped'
      BY <1>0, <2>3, <2>4 DEF Stays, DataTyped
    <3>2. CASE GoesOn("read")
      BY <1>1, <3>1, <3>2, GoesOnKeeps
    <3>3. CASE OnGetRespond(Buffer(reply, t))
      <4>1. PICK b : b = Buffer(reply, t)
        OBVIOUS
      <4>2. CASE ReportAndStop("error") \/ ReportAndStop("content")
        BY <1>1, <3>1, <4>2, ReportKeeps DEF ReportAndStop
      <4>3. CASE called' = Append(called, "error") /\ Leaves(NoOp, timer, stop_inited)
        BY <1>0, <1>1, <3>1, <4>3, ReportKeeps
      <4>4. CASE GoesOn("resolve")
        BY <1>1, <3>1, <4>4, GoesOnKeeps
      <4> QED BY <3>3, <4>1, <4>2, <4>3, <4>4 DEF OnGetRespond
    <3> QED BY <2>1, <3>2, <3>3
  <2>5. CASE OnGetRespond(Buffer(reply, t)) /\ ~Stays
    <3>1. PICK b : b = Buffer(reply, t)
      OBVIOUS
    <3>2. Follows(GetRedirectLocation(b)) /\ GoesOn("resolve")
      BY <2>5, <3>1 DEF OnGetRespond
    <3>3. GetRedirectLocation(b) \in Location \cup {<<>>}
      BY <1>0 DEF GetRedirectLocation, DataTyped, Reply
    <3>4. PICK to \in ParseLocation(GetRedirectLocation(b)) :
             endpoint' = to.endpoint /\ file_query' = to.query
      BY <3>2 DEF Follows
    <3>5. to \in Redirection
      BY <3>3, <3>4 DEF Redirection
    <3>6. endpoint' \in Endpoint /\ file_query' \in FileQuery
      BY <3>4, <3>5 DEF Endpoint, FileQuery
    <3>7. DataTyped'
      BY <1>0, <2>3, <3>2, <3>3, <3>6 DEF Follows, DataTyped
    <3> QED BY <1>1, <3>2, <3>7, GoesOnKeeps
  <2> QED BY <2>1, <2>4, <2>5
<1>7. CASE RunsOnDestructed
  <2>1. /\ op' = NoOp /\ ~alive /\ called' \in {called, Append(called, "error")}
        /\ UNCHANGED <<name_node_in_process, timer, reply, top, stop_inited, alive,
                       endpoint, file_query, request, redirect>>
    BY <1>7 DEF RunsOnDestructed
  <2>2. called' = <<>> \/ called' = <<"error">>
    BY <1>1, <2>1
  <2>3. called' \in Seq({"error", "content"}) /\ Len(called') <= 1
    <3>1. CASE called' = <<>>
      BY <3>1
    <3>2. CASE called' = <<"error">>
      BY <3>2
    <3> QED BY <2>2, <3>1, <3>2
  <2>4. TypeOK'
    BY <1>0, <2>1, <2>3 DEF TypeOK, DataTyped, IInv
  <2>5. ReportsOnce'
    BY <2>1, <2>3 DEF ReportsOnce
  <2> QED BY <2>1, <2>4, <2>5 DEF IInv, AliveUnlessStopped
<1> QED BY <1>2, <1>3, <1>4, <1>5, <1>6, <1>7 DEF Handler

\* The timer's handler, and its expiry, keep the invariant.
LEMMA TimerKeeps ==
    ASSUME IInv, TimerHandler \/ Expire
    PROVE  /\ IInv'
           /\ op' = NoOp <=> op = NoOp
           /\ op'.kind = op.kind
           /\ UNCHANGED <<name_node_in_process, reply, top, called, stop_inited,
                          endpoint, file_query, request, redirect>>
<1>1. /\ DataTyped /\ stop_inited \in BOOLEAN /\ alive \in BOOLEAN
      /\ op \in Op \cup {NoOp} /\ timer \in Timer \cup {NoTimer}
      /\ called \in Seq({"error", "content"})
  BY DEF IInv, TypeOK, DataTyped
<1>2. ReportsOnce /\ AliveUnlessStopped
  BY DEF IInv
<1>3. SUFFICES /\ op' \in Op \cup {NoOp} /\ op'.kind = op.kind
               /\ op' = NoOp <=> op = NoOp
               /\ timer' \in Timer \cup {NoTimer} /\ alive' \in BOOLEAN
               /\ (alive' => alive) /\ (~stop_inited => alive')
               /\ UNCHANGED <<name_node_in_process, reply, top, called, stop_inited,
                              endpoint, file_query, request, redirect>>
  <2>1. TypeOK'
    BY ONLY <1>1, <1>3 DEF TypeOK, DataTyped
  <2>2. ReportsOnce'
    BY ONLY <1>2, <1>3 DEF ReportsOnce
  <2>3. AliveUnlessStopped'
    BY ONLY <1>3 DEF AliveUnlessStopped
  <2> QED BY ONLY <1>3, <2>1, <2>2, <2>3 DEF IInv
<1>4. CASE Tick
  <2>1. PICK t : /\ t = IF timer.st = "ok" THEN Restarted ELSE NoTimer
                 /\ Leaves(op, t, stop_inited)
    BY ONLY <1>4 DEF Tick
  <2>2. t \in Timer \cup {NoTimer}
    BY ONLY <1>1, <2>1 DEF Restarted, Timer
  <2>3. /\ op' \in Op \cup {NoOp} /\ op'.kind = op.kind
        /\ op' = NoOp <=> op = NoOp
        /\ timer' \in Timer \cup {NoTimer} /\ alive' \in BOOLEAN
        /\ stop_inited' = stop_inited /\ (~stop_inited => alive')
    BY ONLY <1>1, <2>1, <2>2, LeavesFacts
  <2>4. alive /\ UNCHANGED <<name_node_in_process, reply, top, called,
                            endpoint, file_query, request, redirect>>
    BY ONLY <1>4 DEF Tick
  <2> QED BY ONLY <2>3, <2>4
<1>5. CASE TickOnDestructed
  <2>1. /\ timer' \in {NoTimer, Restarted}
        /\ UNCHANGED <<name_node_in_process, op, reply, top, called, stop_inited, alive,
                       endpoint, file_query, request, redirect>>
    BY ONLY <1>5 DEF TickOnDestructed
  <2>3. Restarted \in Timer
    BY ONLY <1>1 DEF Restarted, Timer
  <2>2. timer' \in Timer \cup {NoTimer}
    BY ONLY <2>1, <2>3
  <2> QED BY ONLY <1>1, <1>2, <2>1, <2>2 DEF AliveUnlessStopped
<1>6. CASE Expire
  <2>1. /\ timer.st = "pending" /\ timer' = [timer EXCEPT !.st = "ok"]
        /\ UNCHANGED <<name_node_in_process, op, reply, top, called, stop_inited, alive,
                       endpoint, file_query, request, redirect>>
    BY ONLY <1>6 DEF Expire
  <2>2. timer \in Timer
    BY ONLY <1>1, <2>1 DEF NoTimer
  <2>3. timer' \in Timer
    BY ONLY <2>1, <2>2 DEF Timer
  <2> QED BY ONLY <1>1, <1>2, <2>1, <2>3 DEF AliveUnlessStopped
<1> QED BY <1>4, <1>5, <1>6 DEF TimerHandler

\* What the acceptor's stop leaves.
LEMMA StopLeaves ==
    ASSUME IInv, Stop
    PROVE  /\ stop_inited' = TRUE /\ ~stop_inited
           /\ op' \in Op \cup {NoOp} /\ op'.kind = op.kind /\ op'.holds = op.holds
           /\ op' = NoOp <=> op = NoOp
           /\ op'.st = "pending" => op.kind = "resolve"
           /\ timer' \in Timer \cup {NoTimer} /\ timer'.holds = timer.holds
           /\ timer'.st # "pending"
           /\ alive' \in BOOLEAN /\ (alive' <=> op.holds \/ timer.holds)
           /\ UNCHANGED <<name_node_in_process, reply, top, called,
                          endpoint, file_query, request, redirect>>
<1>1. op \in Op \cup {NoOp}
  BY DEF IInv, TypeOK
<1>2. PICK o : o = IF op.kind = "resolve" THEN op ELSE Cancelled(op)
  OBVIOUS
<1>3. /\ ~stop_inited /\ StopsWith(o)
      /\ UNCHANGED <<name_node_in_process, reply, top, called,
                     endpoint, file_query, request, redirect>>
  BY ONLY <1>2, Stop DEF Stop
<1>4. /\ o \in Op \cup {NoOp} /\ o.kind = op.kind /\ o.holds = op.holds
      /\ o = NoOp <=> op = NoOp
      /\ o.st = "pending" => op.kind = "resolve"
  BY ONLY <1>1, <1>2, CancelledOp
<1>5. /\ stop_inited' = TRUE
      /\ op' \in Op \cup {NoOp} /\ op'.kind = o.kind /\ op'.holds = o.holds
      /\ op' = NoOp <=> o = NoOp
      /\ timer' \in Timer \cup {NoTimer} /\ timer'.holds = timer.holds
      /\ alive' \in BOOLEAN /\ (alive' <=> o.holds \/ timer.holds)
      /\ alive' => op' = o
      /\ ~stop_inited => timer'.st # "pending"
      /\ ~alive' => op'.st # "pending"
  BY ONLY IInv, <1>3, <1>4, StopsFacts
<1> QED BY ONLY <1>3, <1>4, <1>5

\* Every step keeps the invariant.
LEMMA NextIInv == IInv /\ [Next]_vars => IInv'
<1> SUFFICES ASSUME IInv, [Next]_vars PROVE IInv'
  OBVIOUS
<1>1. CASE Handler
  BY <1>1, HandlerKeeps
<1>2. CASE Complete
  <2>1. PICK st \in {"ok", "failed"} : op' = [op EXCEPT !.st = st]
    BY <1>2 DEF Complete
  <2>2. op \in Op /\ called = <<>>
    BY <1>2, NotReported DEF Complete
  <2>3. op' \in Op
    BY <2>1, <2>2 DEF Op
  <2>4. op' # NoOp
    BY <2>3 DEF Op, NoOp
  <2>5. UNCHANGED <<name_node_in_process, timer, reply, top, called, stop_inited, alive,
                    endpoint, file_query, request, redirect>>
    BY <1>2 DEF Complete
  <2> QED BY <2>2, <2>3, <2>4, <2>5 DEF IInv, TypeOK, ReportsOnce, AliveUnlessStopped
<1>3. CASE Stop
  <2>1. /\ stop_inited' = TRUE /\ op' \in Op \cup {NoOp}
        /\ op' = NoOp <=> op = NoOp
        /\ timer' \in Timer \cup {NoTimer} /\ alive' \in BOOLEAN
        /\ alive' <=> op.holds \/ timer.holds
        /\ UNCHANGED <<name_node_in_process, reply, top, called,
                       endpoint, file_query, request, redirect>>
    BY <1>3, StopLeaves
  <2>2. alive
    BY <1>3 DEF Stop, IInv, AliveUnlessStopped
  <2> QED BY <2>1, <2>2 DEF IInv, TypeOK, ReportsOnce, AliveUnlessStopped
<1>4. CASE UNCHANGED vars
  BY <1>4 DEF vars, IInv, TypeOK, ReportsOnce, AliveUnlessStopped
<1>5. CASE TimerHandler \/ Expire
  BY <1>5, TimerKeeps
<1> QED BY <1>1, <1>2, <1>3, <1>4, <1>5 DEF Next

-----------------------------------------------------------------------------
\* The invariant holds of every execution of the reader.
LEMMA Invariance == Spec => []IInv
BY InitIInv, NextIInv, PTL DEF Spec

\* Every variable stays within its type.
THEOREM TypeCorrect == Spec => []TypeOK
<1>1. IInv => TypeOK
  BY DEF IInv
<1> QED BY <1>1, Invariance, PTL

\* AEvHdfsRead calls its callback at most once, and until it has, it has an
\* operation outstanding or has been destructed.
THEOREM OneReport == Spec => []ReportsOnce
<1>1. IInv => ReportsOnce
  BY DEF IInv
<1> QED BY <1>1, Invariance, PTL

-----------------------------------------------------------------------------
(* What a stop leaves. *)

\* A pointer keeps a reader that has stopped, and what still keeps it is a resolve
\* under way or a handler that is queued.  Until the stop everything points to it.
Held ==
    /\ alive <=> ~stop_inited \/ op.holds \/ timer.holds
    /\ ~stop_inited => timer.holds /\ timer.st # "failed"
    /\ stop_inited /\ timer.holds => timer.st # "pending"
    /\ stop_inited /\ op.holds /\ op.st = "pending" => op.kind = "resolve"

\* What a step does to a reader that has stopped.
WindsUp ==
    stop_inited =>
       /\ op'.holds =>
             \/ op' = op
             \/ op.kind = "resolve" /\ op.st = "pending" /\ op.holds
                /\ op'.kind = "resolve" /\ op'.st # "pending"
       /\ timer'.holds => timer' = timer /\ timer.st # "pending"
       /\ alive /\ ~alive' => op'.st # "pending" /\ timer'.st # "pending"

\* A handler of the reader that leaves no operation, or starts one.
LEMMA LeavesHeld ==
    ASSUME IInv, Held,
           \/ StopsWith(NoOp)
           \/ Leaves(NoOp, timer, stop_inited)
           \/ \E kind \in {"resolve", "connect", "send", "read"} : GoesOn(kind)
    PROVE  Held' /\ WindsUp
<1>1. NoOp \in Op \cup {NoOp} /\ NoOp.holds = FALSE
  BY DEF NoOp
<1>2. timer \in Timer \cup {NoTimer} /\ stop_inited \in BOOLEAN
  BY DEF IInv, TypeOK
<1>3. CASE StopsWith(NoOp)
  <2>1. /\ stop_inited' = TRUE
        /\ op'.holds = NoOp.holds
        /\ timer'.holds = timer.holds
        /\ alive' <=> NoOp.holds \/ timer.holds
        /\ alive' /\ stop_inited => timer' = timer
        /\ ~stop_inited => timer'.st # "pending"
        /\ ~alive' => op'.st # "pending" /\ timer'.st # "pending"
    BY ONLY IInv, <1>1, <1>3, StopsFacts
  <2> QED BY ONLY Held, <1>1, <2>1 DEF Held, WindsUp
<1>4. CASE Leaves(NoOp, timer, stop_inited)
  <2>1. /\ stop_inited' = stop_inited
        /\ op'.holds = NoOp.holds
        /\ timer'.holds = timer.holds
        /\ alive' <=> ~stop_inited \/ NoOp.holds \/ timer.holds
        /\ alive' => timer' = timer
        /\ ~alive' => op'.st # "pending" /\ timer'.st # "pending"
    BY ONLY <1>1, <1>2, <1>4, LeavesFacts
  <2> QED BY ONLY Held, <1>1, <2>1 DEF Held, WindsUp
<1>5. CASE \E kind \in {"resolve", "connect", "send", "read"} : GoesOn(kind)
  <2>1. PICK kind \in {"resolve", "connect", "send", "read"} : GoesOn(kind)
    BY ONLY <1>5
  <2>2. /\ op'.holds = ~stop_inited /\ stop_inited' = stop_inited
        /\ timer'.holds = timer.holds
        /\ alive' <=> ~stop_inited \/ timer.holds
        /\ alive' => timer' = timer
        /\ ~alive' => op'.st # "pending" /\ timer'.st # "pending"
    BY ONLY IInv, <2>1, GoesOnFacts
  <2> QED BY ONLY Held, <2>2 DEF Held, WindsUp
<1> QED BY <1>3, <1>4, <1>5

\* Every step keeps it, and behind a stop only winds up.
LEMMA NextHeld ==
    ASSUME IInv, Held, Next
    PROVE  Held' /\ WindsUp
<1>0. /\ op \in Op \cup {NoOp} /\ timer \in Timer \cup {NoTimer}
      /\ stop_inited \in BOOLEAN
      /\ NoOp.st = "none" /\ NoOp.holds = FALSE
      /\ NoTimer.st = "none" /\ NoTimer.holds = FALSE
  BY DEF IInv, TypeOK, NoOp, NoTimer
<1>1. CASE OpFailed \/ Resolved \/ Connected \/ Sent \/ Received
  <2>2. \/ StopsWith(NoOp)
        \/ Leaves(NoOp, timer, stop_inited)
        \/ \E kind \in {"resolve", "connect", "send", "read"} : GoesOn(kind)
    <3>1. CASE OpFailed
      BY ONLY <3>1 DEF OpFailed, ReportAndStop
    <3>2. CASE Resolved \/ Connected \/ Sent
      BY ONLY <3>2 DEF Resolved, Connected, Sent
    <3>3. CASE Received
      <4>1. PICK t : OnGetRespond(Buffer(reply, t)) \/ GoesOn("read")
        BY ONLY <3>3 DEF Received
      <4>2. PICK b : OnGetRespond(b) \/ GoesOn("read")
        BY ONLY <4>1
      <4> QED BY ONLY <4>2 DEF OnGetRespond, ReportAndStop
    <3> QED BY ONLY <1>1, <3>1, <3>2, <3>3
  <2> QED BY ONLY IInv, Held, <2>2, LeavesHeld
<1>2. CASE RunsOnDestructed
  <2>1. ~alive /\ op' = NoOp /\ UNCHANGED <<timer, stop_inited, alive>>
    BY ONLY <1>2 DEF RunsOnDestructed
  <2> QED BY ONLY <1>0, <2>1, Held DEF Held, WindsUp
<1>3. CASE Tick
  <2>1. PICK t : /\ t = IF timer.st = "ok" THEN Restarted ELSE NoTimer
                 /\ Leaves(op, t, stop_inited)
    BY ONLY <1>3 DEF Tick
  <2>2. timer.st # "ok" => timer.st = "failed"
    BY ONLY <1>3 DEF Tick
  <2>3. /\ t \in Timer \cup {NoTimer}
        /\ t.holds => ~stop_inited
        /\ ~stop_inited /\ timer.st = "ok" => t.holds /\ t.st # "failed"
    BY ONLY <1>0, <2>1 DEF Restarted, Timer
  <2>4. /\ op'.kind = op.kind /\ op'.holds = op.holds /\ stop_inited' = stop_inited
        /\ timer'.holds = t.holds
        /\ alive' <=> ~stop_inited \/ op.holds \/ t.holds
        /\ alive' => op' = op /\ timer' = t
        /\ ~alive' => op'.st # "pending" /\ timer'.st # "pending"
    BY ONLY <1>0, <2>1, <2>3, LeavesFacts
  <2> QED BY ONLY <1>0, <2>1, <2>2, <2>3, <2>4, Held DEF Held, WindsUp
<1>4. CASE TickOnDestructed
  <2>1. /\ ~alive /\ timer' \in {NoTimer, Restarted}
        /\ UNCHANGED <<op, stop_inited, alive>>
    BY ONLY <1>4 DEF TickOnDestructed
  <2>2. Restarted.holds = ~stop_inited
    BY ONLY TRUE DEF Restarted
  <2> QED BY ONLY <1>0, <2>1, <2>2, Held DEF Held, WindsUp
<1>5. CASE Complete
  <2>1. PICK st \in {"ok", "failed"} : op' = [op EXCEPT !.st = st]
    BY ONLY <1>5 DEF Complete
  <2>2. op.st = "pending" /\ UNCHANGED <<timer, stop_inited, alive>>
    BY ONLY <1>5 DEF Complete
  <2>3. op \in Op
    BY ONLY <1>0, <2>2
  <2>4. op'.st # "pending" /\ op'.kind = op.kind /\ op'.holds = op.holds
    BY ONLY <2>1, <2>3 DEF Op
  <2> QED BY ONLY <2>2, <2>4, Held DEF Held, WindsUp
<1>6. CASE Expire
  <2>1. /\ timer.st = "pending" /\ timer' = [timer EXCEPT !.st = "ok"]
        /\ UNCHANGED <<op, stop_inited, alive>>
    BY ONLY <1>6 DEF Expire
  <2>2. timer \in Timer
    BY ONLY <1>0, <2>1
  <2>3. timer'.st = "ok" /\ timer'.holds = timer.holds
    BY ONLY <2>1, <2>2 DEF Timer
  <2> QED BY ONLY <2>1, <2>3, Held DEF Held, WindsUp
<1>7. CASE Stop
  <2>1. /\ stop_inited' = TRUE /\ ~stop_inited
        /\ op'.kind = op.kind /\ op'.holds = op.holds
        /\ op'.st = "pending" => op.kind = "resolve"
        /\ timer'.holds = timer.holds /\ timer'.st # "pending"
        /\ alive' <=> op.holds \/ timer.holds
    BY ONLY IInv, <1>7, StopLeaves
  <2> QED BY ONLY <2>1, Held DEF Held, WindsUp
<1> QED BY ONLY <1>1, <1>2, <1>3, <1>4, <1>5, <1>6, <1>7, Next DEF Next, Handler, TimerHandler

\* StoppedOnlyWindsUp: behind its stop a reader starts nothing that could keep it,
\* and the handler that lets go of it last, its operation's or its timer's, leaves
\* nothing pending (finish, wrap_asio_cb).
THEOREM StopWindsUp == Spec => StoppedOnlyWindsUp
<1>1. Init => Held
  BY DEF Init, Held, NoOp
<1>2. IInv /\ Held /\ [Next]_vars => Held'
  BY NextHeld DEF vars, Held
<1>3. IInv /\ Held /\ [Next]_vars => [WindsUp]_vars
  BY NextHeld
<1>4. Spec => [][WindsUp]_vars
  BY <1>1, <1>2, <1>3, Invariance, PTL DEF Spec
<1> QED BY <1>4 DEF StoppedOnlyWindsUp, WindsUp

-----------------------------------------------------------------------------
(* What Places returns. *)

\* One step of the recursion of Places.
PlacesFrom(f, s, delim, first, n) ==
    IF n = 0 THEN <<>>
    ELSE IF n >= first /\ s[n] = delim THEN Append(f[n - 1], n)
    ELSE f[n - 1]

\* p has the places of delim in first..n, in their order.
ArePlaces(p, s, delim, first, n) ==
    /\ p \in Seq(Nat)
    /\ \A a \in 1..Len(p) : p[a] \in first..n /\ s[p[a]] = delim
    /\ \A a, b \in 1..Len(p) : a < b => p[a] < p[b]
    /\ \A i \in first..n : s[i] = delim => \E a \in 1..Len(p) : p[a] = i

\* The recursion of Places defines a function.
LEMMA PlacesExist ==
    ASSUME NEW s, NEW delim, NEW first, NEW n \in Nat
    PROVE  \E f : f = [i \in 0..n |-> PlacesFrom(f, s, delim, first, i)]
<1> DEFINE S == {m \in 0..n : \E f : f = [i \in 0..m |-> PlacesFrom(f, s, delim, first, i)]}
<1>1. 0 \in S
  <2> DEFINE g == [i \in 0..0 |-> <<>>]
  <2>1. g = [i \in 0..0 |-> PlacesFrom(g, s, delim, first, i)]
    BY DEF PlacesFrom
  <2> HIDE DEF g
  <2> QED BY <2>1
<1>2. ASSUME NEW m \in 0..n - 1, m \in S PROVE m + 1 \in S
  <2>1. PICK f : f = [i \in 0..m |-> PlacesFrom(f, s, delim, first, i)]
    BY <1>2
  <2> DEFINE g == [i \in 0..m + 1 |->
                      IF i = m + 1 THEN PlacesFrom(f, s, delim, first, i) ELSE f[i]]
  <2>2. ASSUME NEW i \in 0..m + 1 PROVE g[i] = PlacesFrom(g, s, delim, first, i)
    <3>1. g[i] = PlacesFrom(f, s, delim, first, i)
      <4>1. CASE i = m + 1
        BY <4>1
      <4>2. CASE i # m + 1
        <5>1. i \in 0..m
          BY <4>2
        <5>2. g[i] = f[i]
          BY <4>2
        <5> HIDE DEF g
        <5> QED BY <2>1, <5>1, <5>2
      <4> QED BY <4>1, <4>2
    <3>2. i # 0 => f[i - 1] = g[i - 1]
      OBVIOUS
    <3> HIDE DEF g
    <3> QED BY <3>1, <3>2 DEF PlacesFrom
  <2>3. g = [i \in 0..m + 1 |-> PlacesFrom(g, s, delim, first, i)]
    <3>1. g = [i \in 0..m + 1 |-> g[i]]
      OBVIOUS
    <3> HIDE DEF g
    <3> QED BY <2>2, <3>1
  <2>4. m + 1 \in 0..n
    OBVIOUS
  <2> HIDE DEF g
  <2> QED BY <2>3, <2>4
<1>3. 0..n \subseteq S
  <2> HIDE DEF S
  <2> QED BY <1>1, <1>2, UpFrom
<1> QED BY <1>3

\* One place more, or none.
LEMMA OnePlaceMore ==
    ASSUME NEW s, NEW delim, NEW first \in Nat, NEW n \in Nat, NEW p, NEW q,
           ArePlaces(p, s, delim, first, n),
           q = IF n + 1 >= first /\ s[n + 1] = delim THEN Append(p, n + 1) ELSE p
    PROVE  ArePlaces(q, s, delim, first, n + 1)
<1>1. CASE n + 1 >= first /\ s[n + 1] = delim
  <2>0. PICK k : k = n + 1
    OBVIOUS
  <2>1. p \in Seq(Nat) /\ k \in Nat
    BY <2>0 DEF ArePlaces
  <2>2. /\ q \in Seq(Nat) /\ Len(q) = Len(p) + 1 /\ Len(p) \in Nat
        /\ \A a \in 1..Len(p) : q[a] = p[a]
        /\ q[Len(p) + 1] = k
    <3>1. q = Append(p, k)
      BY <1>1, <2>0
    <3> QED BY <2>1, <3>1, AppendProperties
  <2>3. \A a \in 1..Len(q) : a \in 1..Len(p) \/ a = Len(p) + 1
    BY <2>2
  <2>4. \A a \in 1..Len(q) : q[a] \in first..k /\ s[q[a]] = delim
    BY <1>1, <2>0, <2>2, <2>3 DEF ArePlaces
  <2>5. \A a, b \in 1..Len(q) : a < b => q[a] < q[b]
    <3> SUFFICES ASSUME NEW a \in 1..Len(q), NEW b \in 1..Len(q), a < b
                 PROVE  q[a] < q[b]
      OBVIOUS
    <3>1. a \in 1..Len(p) /\ q[a] = p[a] /\ p[a] \in first..n
      BY <2>2, <2>3 DEF ArePlaces
    <3>2. CASE b \in 1..Len(p)
      BY <2>2, <3>1, <3>2 DEF ArePlaces
    <3>3. CASE b = Len(p) + 1
      BY <2>0, <2>2, <3>1, <3>3
    <3> QED BY <2>3, <3>2, <3>3
  <2>6. \A i \in first..k : s[i] = delim => \E a \in 1..Len(q) : q[a] = i
    <3> SUFFICES ASSUME NEW i \in first..k, s[i] = delim
                 PROVE  \E a \in 1..Len(q) : q[a] = i
      OBVIOUS
    <3>1. CASE i = k
      <4>1. Len(p) + 1 \in 1..Len(q)
        BY <2>2
      <4> QED BY <2>2, <3>1, <4>1
    <3>2. CASE i # k
      <4>1. i \in first..n
        BY <2>0, <3>2
      <4>2. PICK a \in 1..Len(p) : p[a] = i
        BY <4>1 DEF ArePlaces
      <4>3. a \in 1..Len(q) /\ q[a] = i
        BY <2>2, <4>2
      <4> QED BY <4>3
    <3> QED BY <3>1, <3>2
  <2> QED BY <2>0, <2>2, <2>4, <2>5, <2>6 DEF ArePlaces
<1>2. CASE ~(n + 1 >= first /\ s[n + 1] = delim)
  <2>1. q = p
    BY <1>2
  <2>2. \A i \in first..n + 1 : s[i] = delim => i \in first..n
    BY <1>2
  <2>3. \A i \in first..n : i \in first..n + 1
    OBVIOUS
  <2> QED BY <2>1, <2>2, <2>3 DEF ArePlaces
<1> QED BY <1>1, <1>2

LEMMA PlacesFacts ==
    ASSUME NEW s, NEW delim, NEW first \in Nat \ {0}, Len(s) \in Nat
    PROVE  ArePlaces(Places(s, delim, first), s, delim, first, Len(s))
<1> DEFINE N == Len(s)
           f == CHOOSE f : f = [i \in 0..N |-> PlacesFrom(f, s, delim, first, i)]
<1>1. f = [i \in 0..N |-> PlacesFrom(f, s, delim, first, i)]
  BY PlacesExist
<1>2. Places(s, delim, first) = f[N]
  BY DEF Places, PlacesFrom
<1>3. N \in Nat
  OBVIOUS
<1> HIDE DEF f, N
<1> DEFINE S == {n \in 0..N : ArePlaces(f[n], s, delim, first, n)}
<1>4. 0 \in S
  <2>1. f[0] = <<>>
    BY <1>1, <1>3 DEF PlacesFrom
  <2>2. \A i \in first..0 : FALSE
    OBVIOUS
  <2>3. <<>> \in Seq(Nat) /\ \A a \in 1..Len(<<>>) : FALSE
    OBVIOUS
  <2>4. ArePlaces(f[0], s, delim, first, 0)
    BY <2>1, <2>2, <2>3 DEF ArePlaces
  <2> QED BY <1>3, <2>4
<1>5. ASSUME NEW n \in 0..N - 1, n \in S PROVE n + 1 \in S
  <2>1. n + 1 \in 0..N /\ n \in Nat /\ n + 1 # 0 /\ (n + 1) - 1 = n
    BY <1>3
  <2>2. f[n + 1] = PlacesFrom(f, s, delim, first, n + 1)
    BY <1>1, <2>1
  <2>3. f[n + 1] = IF n + 1 >= first /\ s[n + 1] = delim THEN Append(f[n], n + 1) ELSE f[n]
    BY <2>1, <2>2 DEF PlacesFrom
  <2>4. PICK p, q : p = f[n] /\ q = f[n + 1]
    OBVIOUS
  <2>5. ArePlaces(p, s, delim, first, n)
    BY <1>5, <2>4
  <2>6. ArePlaces(q, s, delim, first, n + 1)
    BY <2>1, <2>3, <2>4, <2>5, OnePlaceMore
  <2> QED BY <2>1, <2>4, <2>6
<1>6. N \in S
  <2>1. 0..N \subseteq S
    <3> HIDE DEF S
    <3> QED BY <1>3, <1>4, <1>5, UpFrom
  <2> QED BY <1>3, <2>1
<1> QED BY <1>2, <1>6 DEF N

-----------------------------------------------------------------------------
(* What the parsers of a URL return. *)

\* A part of a string, kept whole by the provers.
Slice(s, i, j) == SubSeq(s, i, j)

\* The elements of a slice.
LEMMA SliceFacts ==
    ASSUME NEW S, NEW s \in Seq(S), NEW i \in 1..Len(s) + 1, NEW j \in i - 1..Len(s)
    PROVE  /\ Slice(s, i, j) \in Seq(S)
           /\ Len(Slice(s, i, j)) = j - i + 1
           /\ \A n \in 1..j - i + 1 : Slice(s, i, j)[n] = s[i + n - 1]
<1>1. i \in Int /\ j \in Int /\ Len(s) \in Nat
  OBVIOUS
<1>2. \A n \in i..j : s[n] \in S
  <2>1. \A n \in i..j : n \in 1..Len(s)
    BY <1>1
  <2> QED BY <2>1, ElementOfSeq
<1>3. /\ SubSeq(s, i, j) \in Seq(S)
      /\ Len(SubSeq(s, i, j)) = IF i <= j THEN j - i + 1 ELSE 0
      /\ \A n \in 1..j - i + 1 : SubSeq(s, i, j)[n] = s[i + n - 1]
  BY <1>1, <1>2, SubSeqProperties
<1> QED BY <1>1, <1>3 DEF Slice

\* A slice of a slice is a slice.
LEMMA SliceOfSlice ==
    ASSUME NEW S, NEW s \in Seq(S), NEW i \in 1..Len(s) + 1, NEW j \in i - 1..Len(s),
           NEW m \in 1..(j - i + 1) + 1, NEW n \in m - 1..j - i + 1
    PROVE  Slice(Slice(s, i, j), m, n) = Slice(s, i + m - 1, i + n - 1)
<1>1. PICK t : t = Slice(s, i, j)
  OBVIOUS
<1>2. /\ t \in Seq(S) /\ Len(t) = j - i + 1
      /\ \A a \in 1..j - i + 1 : t[a] = s[i + a - 1]
  BY <1>1, SliceFacts
<1>3. PICK lo, hi : lo = i + m - 1 /\ hi = i + n - 1
  OBVIOUS
<1>4. lo \in 1..Len(s) + 1 /\ hi \in lo - 1..Len(s)
  BY <1>3
<1>5. PICK x, y : x = Slice(t, m, n) /\ y = Slice(s, lo, hi)
  OBVIOUS
<1>6. /\ x \in Seq(S) /\ Len(x) = n - m + 1
      /\ \A a \in 1..n - m + 1 : x[a] = t[m + a - 1]
  <2>1. m \in 1..Len(t) + 1 /\ n \in m - 1..Len(t)
    BY <1>2
  <2>2. t \in Seq(S)
    BY <1>2
  <2>3. /\ Slice(t, m, n) \in Seq(S)
        /\ Len(Slice(t, m, n)) = n - m + 1
        /\ \A a \in 1..n - m + 1 : Slice(t, m, n)[a] = t[m + a - 1]
    BY ONLY <2>1, <2>2, SliceFacts, Zenon
  <2> QED BY ONLY <1>5, <2>3
<1>7. /\ y \in Seq(S) /\ Len(y) = hi - lo + 1
      /\ \A a \in 1..hi - lo + 1 : y[a] = s[lo + a - 1]
  BY <1>4, <1>5, SliceFacts
<1>8. hi - lo + 1 = n - m + 1
  BY <1>3
<1>9. \A a \in 1..Len(x) : x[a] = y[a]
  <2> SUFFICES ASSUME NEW a \in 1..n - m + 1 PROVE x[a] = y[a]
    BY <1>6
  <2>1. x[a] = t[m + a - 1] /\ m + a - 1 \in 1..j - i + 1
    BY <1>6
  <2>2. t[m + a - 1] = s[i + (m + a - 1) - 1]
    BY <1>2, <2>1
  <2>3. y[a] = s[lo + a - 1]
    BY <1>7, <1>8
  <2>4. i + (m + a - 1) - 1 = lo + a - 1
    BY <1>3
  <2> QED BY <2>1, <2>2, <2>3, <2>4
<1>10. x = y
  BY <1>6, <1>7, <1>8, <1>9, SeqEqual
<1> QED BY <1>1, <1>3, <1>5, <1>10

\* What Splitted returns where the delimiter stands at two places.
LEMMA ThreeParts ==
    ASSUME NEW s, NEW delim, Len(s) \in Nat, NEW p \in Seq(Nat),
           p = Places(s, delim, 1)
    PROVE  /\ Len(Splitted(s, delim)) = Len(p) + 1
           /\ Len(p) = 2 =>
                /\ Splitted(s, delim)[2] = Slice(s, p[1] + 1, p[2] - 1)
                /\ Splitted(s, delim)[3] = Slice(s, p[2] + 1, Len(s))
<1>1. PICK e : e = Append(p, Len(s) + 1)
  OBVIOUS
<1>2. /\ e \in Seq(Nat) /\ Len(e) = Len(p) + 1 /\ Len(p) \in Nat
      /\ \A a \in 1..Len(p) : e[a] = p[a]
      /\ e[Len(p) + 1] = Len(s) + 1
  <2>1. PICK k \in Nat : k = Len(s) + 1
    OBVIOUS
  <2>2. e = Append(p, k)
    BY <1>1, <2>1
  <2>3. /\ e \in Seq(Nat) /\ Len(e) = Len(p) + 1
        /\ \A a \in 1..Len(p) : e[a] = p[a]
        /\ e[Len(p) + 1] = k
    BY <2>1, <2>2, AppendProperties
  <2> QED BY <2>1, <2>3
<1>3. PICK q : q = Splitted(s, delim)
  OBVIOUS
<1>4. q = [i \in 1..Len(e) |->
              SubSeq(s, IF i = 1 THEN 1 ELSE e[i - 1] + 1, e[i] - 1)]
  <2>1. DOMAIN e = 1..Len(e)
    BY <1>2
  <2> QED BY <1>1, <1>3, <2>1 DEF Splitted
<1>5. Len(q) = Len(e)
  <2>1. Len(e) \in Nat /\ DOMAIN q = 1..Len(e)
    BY <1>2, <1>4
  <2> QED BY <2>1
<1>6. ASSUME Len(p) = 2
      PROVE  q[2] = Slice(s, p[1] + 1, p[2] - 1) /\ q[3] = Slice(s, p[2] + 1, Len(s))
  <2>1. Len(e) = 3 /\ e[1] = p[1] /\ e[2] = p[2] /\ e[3] = Len(s) + 1
    <3>1. 1 \in 1..Len(p) /\ 2 \in 1..Len(p) /\ Len(p) + 1 = 3
      BY ONLY <1>6
    <3> QED BY ONLY <1>2, <3>1
  <2>2. q[2] = SubSeq(s, e[1] + 1, e[2] - 1) /\ q[3] = SubSeq(s, e[2] + 1, e[3] - 1)
    <3>1. 2 \in 1..Len(e) /\ 3 \in 1..Len(e) /\ 2 # 1 /\ 3 # 1 /\ 2 - 1 = 1 /\ 3 - 1 = 2
      BY <2>1
    <3>2. q[2] = SubSeq(s, e[2 - 1] + 1, e[2] - 1) /\ q[3] = SubSeq(s, e[3 - 1] + 1, e[3] - 1)
      BY <1>4, <3>1
    <3> QED BY <3>1, <3>2
  <2>3. (Len(s) + 1) - 1 = Len(s)
    OBVIOUS
  <2> QED BY <2>1, <2>2, <2>3 DEF Slice
<1> QED BY <1>2, <1>3, <1>5, <1>6

\* A URL that is parsed: a colon, two slashes, the domain, a colon, the port.
LEMMA ParsedUrl ==
    ASSUME NEW S, NEW url \in Seq(S), NEW e \in ParseUrl(url)
    PROVE  \E i, j \in 1..Len(url) :
              /\ i + 2 < j
              /\ Slice(url, i, i + 2) = <<":", "/", "/">> /\ Slice(url, j, j) = <<":">>
              /\ e.domain = Slice(url, i + 3, j - 1)
              /\ e.port = Slice(url, j + 1, Len(url))
<1>0. Len(url) \in Nat
  OBVIOUS
<1>1. PICK p : p = Places(url, ":", 1)
  OBVIOUS
<1>2. ArePlaces(p, url, ":", 1, Len(url))
  BY <1>0, <1>1, PlacesFacts
<1>3. PICK q : q = Splitted(url, ":")
  OBVIOUS
<1>4. /\ Len(q) = Len(p) + 1
      /\ Len(p) = 2 => /\ q[2] = Slice(url, p[1] + 1, p[2] - 1)
                        /\ q[3] = Slice(url, p[2] + 1, Len(url))
  <2>1. p \in Seq(Nat)
    BY <1>2 DEF ArePlaces
  <2> QED BY <1>0, <1>1, <1>3, <2>1, ThreeParts
<1>5. /\ Len(q) = 3 /\ IsPrefix(<<"/", "/">>, q[2])
      /\ e = [domain |-> SubSeq(q[2], 3, Len(q[2])), port |-> q[3]]
  BY <1>3 DEF ParseUrl
<1>6. Len(p) = 2
  <2>1. PICK k : k = Len(p)
    OBVIOUS
  <2>2. k \in Nat
    BY <1>2, <2>1 DEF ArePlaces
  <2>3. k + 1 = 3
    BY <1>4, <1>5, <2>1
  <2>4. k = 2
    BY ONLY <2>2, <2>3
  <2> QED BY <2>1, <2>4
<1>7. PICK i, j : i = p[1] /\ j = p[2]
  OBVIOUS
<1>8. /\ i \in 1..Len(url) /\ j \in 1..Len(url) /\ i < j
      /\ url[i] = ":" /\ url[j] = ":"
  <2>1. 1 \in 1..Len(p) /\ 2 \in 1..Len(p) /\ 1 < 2
    BY <1>6
  <2> QED BY <1>2, <1>7, <2>1 DEF ArePlaces
<1>9. PICK d : d = Slice(url, i + 1, j - 1)
  OBVIOUS
<1>10. q[2] = d /\ q[3] = Slice(url, j + 1, Len(url))
  BY <1>4, <1>6, <1>7, <1>9
<1>11. /\ d \in Seq(S) /\ Len(d) = j - i - 1
       /\ \A n \in 1..j - i - 1 : d[n] = url[i + n]
  <2>1. PICK lo, hi : lo = i + 1 /\ hi = j - 1
    OBVIOUS
  <2>2. lo \in 1..Len(url) + 1 /\ hi \in lo - 1..Len(url)
    BY <1>0, <1>8, <2>1
  <2>3. /\ d \in Seq(S) /\ Len(d) = hi - lo + 1
        /\ \A n \in 1..hi - lo + 1 : d[n] = url[lo + n - 1]
    <3>1. /\ Slice(url, lo, hi) \in Seq(S)
          /\ Len(Slice(url, lo, hi)) = hi - lo + 1
          /\ \A n \in 1..hi - lo + 1 : Slice(url, lo, hi)[n] = url[lo + n - 1]
      BY ONLY <2>2, SliceFacts, url \in Seq(S), Zenon
    <3> QED BY ONLY <1>9, <2>1, <3>1
  <2>4. hi - lo + 1 = j - i - 1
    BY <1>8, <2>1
  <2>5. ASSUME NEW n \in 1..j - i - 1 PROVE d[n] = url[i + n]
    <3>1. d[n] = url[lo + n - 1]
      BY <2>3, <2>4
    <3>2. lo + n - 1 = i + n
      BY <1>8, <2>1
    <3> QED BY <3>1, <3>2
  <2>6. Len(d) = j - i - 1
    BY <2>3, <2>4
  <2> QED BY <2>3, <2>5, <2>6
<1>12. Len(d) >= 2 /\ d[1] = "/" /\ d[2] = "/"
  <2>1. Len(<<"/", "/">>) = 2
    OBVIOUS
  <2>2. 2 <= Len(d) /\ SubSeq(<<"/", "/">>, 1, 2) = SubSeq(d, 1, 2)
    BY <1>5, <1>10, <2>1 DEF IsPrefix
  <2>3. PICK x, y : x = SubSeq(<<"/", "/">>, 1, 2) /\ y = SubSeq(d, 1, 2)
    OBVIOUS
  <2>4. x[1] = "/" /\ x[2] = "/"
    BY <2>3
  <2>5. y[1] = d[1] /\ y[2] = d[2]
    BY <1>11, <2>2, <2>3
  <2>6. x = y
    BY <2>2, <2>3
  <2> QED BY <2>2, <2>4, <2>5, <2>6
<1>13. i + 2 < j /\ url[i + 1] = "/" /\ url[i + 2] = "/"
  BY <1>8, <1>11, <1>12
<1>14. Slice(url, i, i + 2) = <<":", "/", "/">>
  <2>1. PICK x : x = Slice(url, i, i + 2)
    OBVIOUS
  <2>2. /\ x \in Seq(S) /\ Len(x) = 3
        /\ x[1] = url[i] /\ x[2] = url[i + 1] /\ x[3] = url[i + 2]
    <3>1. i \in 1..Len(url) + 1 /\ i + 2 \in i - 1..Len(url) /\ (i + 2) - i + 1 = 3
      BY <1>0, <1>8, <1>13
    <3>2. /\ x \in Seq(S) /\ Len(x) = 3
          /\ \A n \in 1..3 : x[n] = url[i + n - 1]
      <4>1. /\ Slice(url, i, i + 2) \in Seq(S)
            /\ Len(Slice(url, i, i + 2)) = (i + 2) - i + 1
            /\ \A n \in 1..(i + 2) - i + 1 : Slice(url, i, i + 2)[n] = url[i + n - 1]
        BY ONLY <3>1, SliceFacts, url \in Seq(S), Zenon
      <4> QED BY ONLY <2>1, <3>1, <4>1
    <3>3. i + 1 - 1 = i /\ i + 2 - 1 = i + 1 /\ i + 3 - 1 = i + 2
      BY <1>8
    <3> QED BY <3>2, <3>3
  <2>3. x = <<":", "/", "/">>
    BY <1>8, <1>13, <2>2
  <2> QED BY <2>1, <2>3
<1>15. Slice(url, j, j) = <<":">>
  <2>1. PICK x : x = Slice(url, j, j)
    OBVIOUS
  <2>2. x \in Seq(S) /\ Len(x) = 1 /\ x[1] = url[j]
    <3>1. j \in 1..Len(url) + 1 /\ j \in j - 1..Len(url) /\ j - j + 1 = 1 /\ j + 1 - 1 = j
      BY <1>0, <1>8
    <3>2. /\ x \in Seq(S) /\ Len(x) = j - j + 1
          /\ \A n \in 1..j - j + 1 : x[n] = url[j + n - 1]
      BY <2>1, <3>1, SliceFacts
    <3> QED BY <3>1, <3>2
  <2>3. x = <<":">>
    BY <1>8, <2>2
  <2> QED BY <2>1, <2>3
<1>16. e.domain = Slice(url, i + 3, j - 1)
  <2>1. e.domain = Slice(d, 3, Len(d))
    BY <1>5, <1>10 DEF Slice
  <2>2. PICK lo, hi, m, n : lo = i + 1 /\ hi = j - 1 /\ m = 3 /\ n = Len(d)
    OBVIOUS
  <2>3. /\ lo \in 1..Len(url) + 1 /\ hi \in lo - 1..Len(url)
        /\ m \in 1..(hi - lo + 1) + 1 /\ n \in m - 1..hi - lo + 1
    BY <1>0, <1>8, <1>11, <1>12, <2>2
  <2>4. Slice(Slice(url, lo, hi), m, n) = Slice(url, lo + m - 1, lo + n - 1)
    BY <2>3, SliceOfSlice
  <2>5. lo + m - 1 = i + 3 /\ lo + n - 1 = j - 1
    BY <1>8, <1>11, <2>2
  <2> QED BY <1>9, <2>1, <2>2, <2>4, <2>5
<1>17. e.port = Slice(url, j + 1, Len(url))
  BY <1>5, <1>10
<1> QED BY <1>8, <1>13, <1>14, <1>15, <1>16, <1>17

\* Slices that meet make up a slice.
LEMMA JoinSlices ==
    ASSUME NEW S, NEW s \in Seq(S), NEW m \in 1..Len(s) + 1,
           NEW k \in m - 1..Len(s), NEW l, l = k + 1, NEW n \in k..Len(s)
    PROVE  Slice(s, m, k) \o Slice(s, l, n) = Slice(s, m, n)
BY ConcatAdjacentSubSeq DEF Slice

\* The location is what the reader takes from it, behind its protocol.
Rebuilt(location, endp, query) ==
    \E n \in 0..Len(location) :
       location = SubSeq(location, 1, n) \o <<":", "/", "/">> \o endp.domain
                     \o <<":">> \o endp.port \o query

\* What parse_location returns is in the location, where it should be.
LEMMA ParsedLocation ==
    ASSUME NEW S, NEW location \in Seq(S), NEW to \in ParseLocation(location)
    PROVE  Rebuilt(location, to.endpoint, to.query)
<1> DEFINE N == Len(location)
<1>0. N \in Nat
  OBVIOUS
<1>1. PICK p : p = Places(location, "/", 2)
  OBVIOUS
<1>2. ArePlaces(p, location, "/", 2, N)
  BY <1>1, PlacesFacts
<1>3. PICK k : k = p[3]
  OBVIOUS
<1>4. /\ ~(Len(p) < 3)
      /\ \E e \in ParseUrl(SubSeq(location, 1, k - 1)) :
            to = [endpoint |-> e, query |-> SubSeq(location, k, N)]
  BY <1>1, <1>3 DEF ParseLocation
<1>5. k \in 2..N
  <2>1. 3 \in 1..Len(p)
    BY <1>2, <1>4 DEF ArePlaces
  <2> QED BY <1>2, <1>3, <2>1 DEF ArePlaces
<1>6. PICK url : url = Slice(location, 1, k - 1)
  OBVIOUS
<1>7. url \in Seq(S) /\ Len(url) = k - 1
  <2>1. PICK lo, hi : lo = 1 /\ hi = k - 1
    OBVIOUS
  <2>2. lo \in 1..N + 1 /\ hi \in lo - 1..N /\ hi - lo + 1 = k - 1
    BY <1>0, <1>5, <2>1
  <2>3. Slice(location, lo, hi) \in Seq(S) /\ Len(Slice(location, lo, hi)) = hi - lo + 1
    BY <2>2, SliceFacts
  <2> QED BY <1>6, <2>1, <2>2, <2>3
<1>8. PICK e \in ParseUrl(url) : to.endpoint = e /\ to.query = Slice(location, k, N)
  <2>1. PICK u : u = SubSeq(location, 1, k - 1)
    OBVIOUS
  <2>2. url = u
    BY <1>6, <2>1 DEF Slice
  <2>3. PICK e \in ParseUrl(u) : to = [endpoint |-> e, query |-> SubSeq(location, k, N)]
    BY <1>4, <2>1
  <2>4. e \in ParseUrl(url) /\ to.endpoint = e /\ to.query = Slice(location, k, N)
    BY <2>2, <2>3 DEF Slice
  <2> QED BY <2>4
<1>9. PICK i, j \in 1..Len(url) :
         /\ i + 2 < j
         /\ Slice(url, i, i + 2) = <<":", "/", "/">> /\ Slice(url, j, j) = <<":">>
         /\ e.domain = Slice(url, i + 3, j - 1)
         /\ e.port = Slice(url, j + 1, Len(url))
  BY <1>7, ParsedUrl
<1>10. k \in Nat /\ i \in 1..k - 1 /\ j \in 1..k - 1 /\ i + 2 < j
  BY <1>5, <1>7, <1>9
<1>11. ASSUME NEW m \in 1..k, NEW n \in m - 1..k - 1
       PROVE  Slice(url, m, n) = Slice(location, m, n)
  <2>1. PICK lo, hi : lo = 1 /\ hi = k - 1
    OBVIOUS
  <2>2. /\ lo \in 1..N + 1 /\ hi \in lo - 1..N
        /\ m \in 1..(hi - lo + 1) + 1 /\ n \in m - 1..hi - lo + 1
    BY <1>0, <1>5, <2>1
  <2>3. Slice(Slice(location, lo, hi), m, n) = Slice(location, lo + m - 1, lo + n - 1)
    BY <2>2, SliceOfSlice
  <2>4. lo + m - 1 = m /\ lo + n - 1 = n
    BY <1>5, <2>1
  <2> QED BY <1>6, <2>1, <2>3, <2>4
<1>12. /\ Slice(location, i, i + 2) = <<":", "/", "/">>
       /\ Slice(location, j, j) = <<":">>
       /\ e.domain = Slice(location, i + 3, j - 1)
       /\ e.port = Slice(location, j + 1, k - 1)
  <2>1. Slice(url, i, i + 2) = Slice(location, i, i + 2)
    <3>1. PICK m, n : m = i /\ n = i + 2
      OBVIOUS
    <3>2. m \in 1..k /\ n \in m - 1..k - 1
      BY <1>10, <3>1
    <3>3. Slice(url, m, n) = Slice(location, m, n)
      BY <1>11, <3>2
    <3> QED BY <3>1, <3>3
  <2>2. Slice(url, j, j) = Slice(location, j, j)
    <3>1. PICK m, n : m = j /\ n = j
      OBVIOUS
    <3>2. m \in 1..k /\ n \in m - 1..k - 1
      BY <1>10, <3>1
    <3>3. Slice(url, m, n) = Slice(location, m, n)
      BY <1>11, <3>2
    <3> QED BY <3>1, <3>3
  <2>3. Slice(url, i + 3, j - 1) = Slice(location, i + 3, j - 1)
    <3>1. PICK m, n : m = i + 3 /\ n = j - 1
      OBVIOUS
    <3>2. m \in 1..k /\ n \in m - 1..k - 1
      BY <1>10, <3>1
    <3>3. Slice(url, m, n) = Slice(location, m, n)
      BY <1>11, <3>2
    <3> QED BY <3>1, <3>3
  <2>4. Slice(url, j + 1, k - 1) = Slice(location, j + 1, k - 1)
    <3>1. PICK m, n : m = j + 1 /\ n = k - 1
      OBVIOUS
    <3>2. m \in 1..k /\ n \in m - 1..k - 1
      BY <1>10, <3>1
    <3>3. Slice(url, m, n) = Slice(location, m, n)
      BY <1>11, <3>2
    <3> QED BY <3>1, <3>3
  <2> QED BY <1>7, <1>9, <2>1, <2>2, <2>3, <2>4
<1>13. Slice(location, 1, i - 1) \o Slice(location, i, i + 2) = Slice(location, 1, i + 2)
  <2>1. PICK m, a, l, n : m = 1 /\ a = i - 1 /\ l = i /\ n = i + 2
    OBVIOUS
  <2>2. m \in 1..N + 1 /\ a \in m - 1..N /\ l = a + 1 /\ n \in a..N
    BY <1>0, <1>5, <1>10, <2>1
  <2>3. Slice(location, m, a) \o Slice(location, l, n) = Slice(location, m, n)
    BY <2>2, JoinSlices
  <2> QED BY ONLY <2>1, <2>3
<1>14. Slice(location, 1, i + 2) \o Slice(location, i + 3, j - 1) = Slice(location, 1, j - 1)
  <2>1. PICK m, a, l, n : m = 1 /\ a = i + 2 /\ l = i + 3 /\ n = j - 1
    OBVIOUS
  <2>2. m \in 1..N + 1 /\ a \in m - 1..N /\ l = a + 1 /\ n \in a..N
    BY <1>0, <1>5, <1>10, <2>1
  <2>3. Slice(location, m, a) \o Slice(location, l, n) = Slice(location, m, n)
    BY <2>2, JoinSlices
  <2> QED BY ONLY <2>1, <2>3
<1>15. Slice(location, 1, j - 1) \o Slice(location, j, j) = Slice(location, 1, j)
  <2>1. PICK m, a, l, n : m = 1 /\ a = j - 1 /\ l = j /\ n = j
    OBVIOUS
  <2>2. m \in 1..N + 1 /\ a \in m - 1..N /\ l = a + 1 /\ n \in a..N
    BY <1>0, <1>5, <1>10, <2>1
  <2>3. Slice(location, m, a) \o Slice(location, l, n) = Slice(location, m, n)
    BY <2>2, JoinSlices
  <2> QED BY ONLY <2>1, <2>3
<1>16. Slice(location, 1, j) \o Slice(location, j + 1, k - 1) = Slice(location, 1, k - 1)
  <2>1. PICK m, a, l, n : m = 1 /\ a = j /\ l = j + 1 /\ n = k - 1
    OBVIOUS
  <2>2. m \in 1..N + 1 /\ a \in m - 1..N /\ l = a + 1 /\ n \in a..N
    BY <1>0, <1>5, <1>10, <2>1
  <2>3. Slice(location, m, a) \o Slice(location, l, n) = Slice(location, m, n)
    BY <2>2, JoinSlices
  <2> QED BY ONLY <2>1, <2>3
<1>17. Slice(location, 1, k - 1) \o Slice(location, k, N) = location
  <2>1. PICK m, a, l, n : m = 1 /\ a = k - 1 /\ l = k /\ n = N
    OBVIOUS
  <2>2. m \in 1..N + 1 /\ a \in m - 1..N /\ l = a + 1 /\ n \in a..N
    BY <1>0, <1>5, <2>1
  <2>3. Slice(location, m, a) \o Slice(location, l, n) = Slice(location, m, n)
    BY <2>2, JoinSlices
  <2>4. Slice(location, 1, N) = location
    BY SubSeqFull DEF Slice
  <2> QED BY <2>1, <2>3, <2>4
<1>18. PICK x : x = Slice(location, 1, i - 1)
  OBVIOUS
<1>19. location = x \o <<":", "/", "/">> \o e.domain \o <<":">> \o e.port \o to.query
  <2> HIDE DEF N
  <2> QED BY ONLY <1>8, <1>12, <1>13, <1>14, <1>15, <1>16, <1>17, <1>18
<1>20. i - 1 \in 0..N
  BY <1>0, <1>5, <1>10
<1>21. location = SubSeq(location, 1, i - 1) \o <<":", "/", "/">> \o to.endpoint.domain
                     \o <<":">> \o to.endpoint.port \o to.query
  BY ONLY <1>8, <1>18, <1>19 DEF Slice
<1> QED BY ONLY <1>20, <1>21 DEF Rebuilt, N

\* Where a character stands at two places these are the places,
LEMMA TwoPlaces ==
    ASSUME NEW p, NEW s, NEW delim, NEW n \in Nat, ArePlaces(p, s, delim, 1, n),
           NEW i \in 1..n, NEW j \in 1..n, i < j, s[i] = delim, s[j] = delim,
           \A x \in 1..n : s[x] = delim => x \in {i, j}
    PROVE  Len(p) = 2 /\ p[1] = i /\ p[2] = j
<1>1. PICK a \in 1..Len(p) : p[a] = i
  BY DEF ArePlaces
<1>2. PICK b \in 1..Len(p) : p[b] = j
  BY DEF ArePlaces
<1>3. PICK N : N = Len(p)
  OBVIOUS
<1>4. N \in Nat /\ a \in 1..N /\ b \in 1..N
  BY <1>3 DEF ArePlaces
<1>5. \A x, y \in 1..N : x < y => p[x] < p[y]
  BY <1>3 DEF ArePlaces
<1>6. ASSUME NEW x \in 1..N PROVE p[x] \in {i, j}
  <2>1. p[x] \in 1..n /\ s[p[x]] = delim
    BY <1>3 DEF ArePlaces
  <2> QED BY <2>1
<1>7. a < b
  <2>1. CASE b < a
    BY <1>1, <1>2, <1>4, <1>5, <2>1
  <2>2. CASE a = b
    BY <1>1, <1>2, <2>2
  <2> QED BY <1>4, <2>1, <2>2
<1>8. ASSUME NEW x \in 1..N PROVE x \in {a, b}
  <2>1. x < a => p[x] < i
    BY <1>1, <1>4, <1>5
  <2>2. a < x => i < p[x]
    BY <1>1, <1>4, <1>5
  <2>3. x < b => p[x] < j
    BY <1>2, <1>4, <1>5
  <2>4. b < x => j < p[x]
    BY <1>2, <1>4, <1>5
  <2>5. p[x] = i \/ p[x] = j
    BY ONLY <1>6
  <2>6. p[x] = i => x = a
    BY ONLY <1>4, <2>1, <2>2, x \in 1..N, i \in 1..n
  <2>7. p[x] = j => x = b
    BY ONLY <1>4, <2>3, <2>4, x \in 1..N, j \in 1..n
  <2> QED BY ONLY <2>5, <2>6, <2>7
<1>9. a = 1 /\ b = 2 /\ N = 2
  <2>1. 1 \in 1..N /\ 2 \in 1..N
    BY <1>4, <1>7
  <2>2. 1 \in {a, b} /\ 2 \in {a, b} /\ N \in {a, b}
    <3>1. N \in 1..N
      BY ONLY <1>4
    <3> QED BY ONLY <1>8, <2>1, <3>1
  <2> QED BY <1>4, <1>7, <2>2
<1> QED BY <1>1, <1>2, <1>3, <1>9

\* and where it stands at three up to a place this is the third.
LEMMA ThirdPlace ==
    ASSUME NEW p, NEW s, NEW delim, NEW first \in Nat, NEW n \in Nat,
           ArePlaces(p, s, delim, first, n),
           NEW i \in first..n, NEW j \in first..n, NEW k \in first..n, i < j, j < k,
           s[i] = delim, s[j] = delim, s[k] = delim,
           \A x \in first..k : s[x] = delim => x \in {i, j, k}
    PROVE  3 <= Len(p) /\ p[3] = k
<1>1. PICK a \in 1..Len(p) : p[a] = i
  BY DEF ArePlaces
<1>2. PICK b \in 1..Len(p) : p[b] = j
  BY DEF ArePlaces
<1>3. PICK c \in 1..Len(p) : p[c] = k
  BY DEF ArePlaces
<1>4. PICK N : N = Len(p)
  OBVIOUS
<1>5. N \in Nat /\ a \in 1..N /\ b \in 1..N /\ c \in 1..N
  BY <1>4 DEF ArePlaces
<1>6. \A x, y \in 1..N : x < y => p[x] < p[y]
  BY <1>4 DEF ArePlaces
<1>7. \A x \in 1..N : p[x] \in first..n /\ s[p[x]] = delim
  BY <1>4 DEF ArePlaces
<1>8. a < b /\ b < c
  <2>1. a = b => FALSE
    BY <1>1, <1>2
  <2>2. b < a => FALSE
    BY <1>1, <1>2, <1>5, <1>6
  <2>3. b = c => FALSE
    BY <1>2, <1>3
  <2>4. c < b => FALSE
    BY <1>2, <1>3, <1>5, <1>6
  <2> QED BY <1>5, <2>1, <2>2, <2>3, <2>4
<1>9. ASSUME NEW x \in 1..c PROVE x \in {a, b, c}
  <2>1. x \in 1..N /\ p[x] \in first..n
    BY <1>5, <1>7
  <2>2. x < c => p[x] < k
    BY <1>3, <1>5, <1>6, <2>1
  <2>3. p[x] \in first..k
    <3>1. x = c \/ x < c
      BY <1>5
    <3> QED BY <1>3, <2>1, <2>2, <3>1
  <2>4. p[x] \in {i, j, k}
    BY <1>7, <2>1, <2>3
  <2>5. (x < a => p[x] < i) /\ (a < x => i < p[x])
    BY <1>1, <1>5, <1>6, <2>1
  <2>6. (x < b => p[x] < j) /\ (b < x => j < p[x])
    BY <1>2, <1>5, <1>6, <2>1
  <2> QED BY <1>5, <2>1, <2>2, <2>4, <2>5, <2>6
<1>10. c = 3
  <2>1. 1 \in 1..c /\ 2 \in 1..c /\ 3 \in 1..c
    BY <1>5, <1>8
  <2>2. 1 \in {a, b, c} /\ 2 \in {a, b, c} /\ 3 \in {a, b, c}
    BY <1>9, <2>1
  <2> QED BY <1>5, <1>8, <2>2
<1> QED BY <1>3, <1>4, <1>5, <1>10

\* A URL of the usual form is parsed.
LEMMA UsualUrl ==
    ASSUME NEW S, NEW url \in Seq(S), NEW i \in 1..Len(url), NEW j \in 1..Len(url),
           i + 2 < j, j < Len(url), url[i] = ":", url[j] = ":",
           url[i + 1] = "/", url[i + 2] = "/",
           \A x \in 1..Len(url) : url[x] = ":" => x \in {i, j},
           \A x \in j + 1..Len(url) : url[x] \in Digit
    PROVE  ParseUrl(url) # {}
<1>0. Len(url) \in Nat /\ i < j
  OBVIOUS
<1>1. PICK p : p = Places(url, ":", 1)
  OBVIOUS
<1>2. ArePlaces(p, url, ":", 1, Len(url))
  BY <1>0, <1>1, PlacesFacts
<1>3. Len(p) = 2 /\ p[1] = i /\ p[2] = j
  BY <1>0, <1>2, TwoPlaces
<1>4. PICK q : q = Splitted(url, ":")
  OBVIOUS
<1>5. PICK d, t : d = Slice(url, i + 1, j - 1) /\ t = Slice(url, j + 1, Len(url))
  OBVIOUS
<1>6. Len(q) = 3 /\ q[2] = d /\ q[3] = t
  <2>1. p \in Seq(Nat)
    BY <1>2 DEF ArePlaces
  <2>2. /\ Len(q) = Len(p) + 1
        /\ Len(p) = 2 => /\ q[2] = Slice(url, p[1] + 1, p[2] - 1)
                         /\ q[3] = Slice(url, p[2] + 1, Len(url))
    BY ONLY <1>0, <1>1, <1>4, <2>1, ThreeParts
  <2>3. PICK m, n : m = Len(q) /\ n = Len(p)
    OBVIOUS
  <2>4. m = n + 1 /\ n = 2
    BY <1>3, <2>2, <2>3
  <2>5. m = 3
    BY ONLY <2>4
  <2>6. q[2] = Slice(url, i + 1, j - 1) /\ q[3] = Slice(url, j + 1, Len(url))
    BY ONLY <1>3, <2>2
  <2> QED BY ONLY <1>5, <2>3, <2>5, <2>6
<1>7. IsPrefix(<<"/", "/">>, d)
  <2>1. PICK lo, hi : lo = i + 1 /\ hi = j - 1
    OBVIOUS
  <2>2. lo \in 1..Len(url) + 1 /\ hi \in lo - 1..Len(url) /\ hi - lo + 1 >= 2
    BY <1>0, <2>1
  <2>3. /\ d \in Seq(S) /\ Len(d) = hi - lo + 1
        /\ \A n \in 1..hi - lo + 1 : d[n] = url[lo + n - 1]
    <3>1. /\ Slice(url, lo, hi) \in Seq(S)
          /\ Len(Slice(url, lo, hi)) = hi - lo + 1
          /\ \A n \in 1..hi - lo + 1 : Slice(url, lo, hi)[n] = url[lo + n - 1]
      BY ONLY <2>2, SliceFacts, url \in Seq(S), Zenon
    <3> QED BY ONLY <1>5, <2>1, <3>1
  <2>4. d[1] = "/" /\ d[2] = "/" /\ 2 <= Len(d)
    <3>1. 1 \in 1..hi - lo + 1 /\ 2 \in 1..hi - lo + 1
      BY <2>2
    <3>2. d[1] = url[lo + 1 - 1] /\ d[2] = url[lo + 2 - 1]
      BY <2>3, <3>1
    <3>3. lo + 1 - 1 = i + 1 /\ lo + 2 - 1 = i + 2
      BY <2>1
    <3> QED BY <2>2, <2>3, <3>2, <3>3
  <2>5. PICK z : z = <<"/", "/">>
    OBVIOUS
  <2>6. z \in Seq({"/"}) /\ Len(z) = 2 /\ z[1] = "/" /\ z[2] = "/"
    BY <2>5
  <2>7. PICK x, y : x = SubSeq(z, 1, 2) /\ y = SubSeq(d, 1, 2)
    OBVIOUS
  <2>8. x = z
    BY <2>6, <2>7, SubSeqFull
  <2>9. y \in Seq(S) /\ Len(y) = 2 /\ y[1] = d[1] /\ y[2] = d[2]
    BY <2>3, <2>4, <2>7
  <2>10. y = <<"/", "/">>
    BY <2>4, <2>9
  <2> QED BY <2>4, <2>5, <2>6, <2>7, <2>8, <2>10 DEF IsPrefix
<1>8. IsDigitOnly(t)
  <2>1. PICK lo, hi : lo = j + 1 /\ hi = Len(url)
    OBVIOUS
  <2>2. lo \in 1..Len(url) + 1 /\ hi \in lo - 1..Len(url) /\ hi - lo + 1 >= 1
    BY <1>0, <2>1
  <2>3. /\ t \in Seq(S) /\ Len(t) = hi - lo + 1
        /\ \A n \in 1..hi - lo + 1 : t[n] = url[lo + n - 1]
    <3>1. /\ Slice(url, lo, hi) \in Seq(S)
          /\ Len(Slice(url, lo, hi)) = hi - lo + 1
          /\ \A n \in 1..hi - lo + 1 : Slice(url, lo, hi)[n] = url[lo + n - 1]
      BY ONLY <2>2, SliceFacts, url \in Seq(S), Zenon
    <3> QED BY ONLY <1>5, <2>1, <3>1
  <2>4. t # <<>>
    BY <2>2, <2>3
  <2>5. ASSUME NEW n \in DOMAIN t PROVE t[n] \in Digit
    <3>1. n \in 1..hi - lo + 1
      BY <2>3, <2>5
    <3>2. t[n] = url[lo + n - 1] /\ lo + n - 1 \in j + 1..Len(url)
      BY <2>1, <2>2, <2>3, <3>1
    <3> QED BY <3>2
  <2> QED BY <2>4, <2>5 DEF IsDigitOnly
<1> QED BY <1>4, <1>6, <1>7, <1>8 DEF ParseUrl

\* A location of the usual form is parsed.
LEMMA UsualLocation ==
    ASSUME NEW S, NEW url \in Seq(S), WellFormed(url)
    PROVE  ParseLocation(url) # {}
<1> DEFINE N == Len(url)
<1>0. N \in Nat /\ DOMAIN url = 1..N
  OBVIOUS
<1>1. PICK i \in 1..N, j \in 1..N, k \in 1..N :
         /\ 1 < i /\ i + 3 < j /\ j + 1 < k
         /\ \A n \in 1..i - 1 : url[n] \notin {":", "/"}
         /\ SubSeq(url, i, i + 2) = <<":", "/", "/">>
         /\ \A n \in i + 3..j - 1 : url[n] \notin {":", "/"}
         /\ url[j] = ":"
         /\ \A n \in j + 1..k - 1 : url[n] \in Digit
         /\ url[k] = "/"
  BY <1>0 DEF WellFormed
<1> HIDE DEF N
<1>2. url[i] = ":" /\ url[i + 1] = "/" /\ url[i + 2] = "/"
  <2>1. PICK lo, hi, x : lo = i /\ hi = i + 2 /\ x = Slice(url, lo, hi)
    OBVIOUS
  <2>2. lo \in 1..Len(url) + 1 /\ hi \in lo - 1..Len(url) /\ hi - lo + 1 = 3
    BY <1>0, <1>1, <2>1 DEF N
  <2>3. \A n \in 1..hi - lo + 1 : x[n] = url[lo + n - 1]
    BY <2>1, <2>2, SliceFacts
  <2>4. x[1] = url[lo + 1 - 1] /\ x[2] = url[lo + 2 - 1] /\ x[3] = url[lo + 3 - 1]
    BY <2>2, <2>3
  <2>5. lo + 1 - 1 = i /\ lo + 2 - 1 = i + 1 /\ lo + 3 - 1 = i + 2
    BY <2>1
  <2>6. x = <<":", "/", "/">>
    BY <1>1, <2>1 DEF Slice
  <2>7. x[1] = ":" /\ x[2] = "/" /\ x[3] = "/"
    BY <2>6
  <2> QED BY <2>4, <2>5, <2>7
<1>3. ASSUME NEW n \in 1..k
      PROVE  /\ url[n] = "/" => n \in {i + 1, i + 2, k}
             /\ url[n] = ":" => n \in {i, j}
             /\ j < n /\ n < k => url[n] \in Digit
  <2>1. n \in 1..i - 1 => url[n] \notin {":", "/"}
    BY <1>1
  <2>2. n \in i + 3..j - 1 => url[n] \notin {":", "/"}
    BY <1>1
  <2>3. n \in j + 1..k - 1 => url[n] \in {"0", "1"}
    BY <1>1 DEF Digit
  <2>4. url[i] = ":" /\ url[i + 1] = "/" /\ url[i + 2] = "/" /\ url[j] = ":" /\ url[k] = "/"
    BY <1>1, <1>2
  <2>5. /\ n \in 1..i - 1 \/ n = i \/ n = i + 1 \/ n = i + 2 \/ n \in i + 3..j - 1
           \/ n = j \/ n \in j + 1..k - 1 \/ n = k
        /\ j < n /\ n < k => n \in j + 1..k - 1
    BY <1>0, <1>1
  <2> QED BY <2>1, <2>2, <2>3, <2>4, <2>5 DEF Digit
<1>4. PICK p : p = Places(url, "/", 2)
  OBVIOUS
<1>5. ArePlaces(p, url, "/", 2, N)
  BY <1>0, <1>4, PlacesFacts DEF N
<1>6. 3 <= Len(p) /\ p[3] = k
  <2>1. PICK a, b : a = i + 1 /\ b = i + 2
    OBVIOUS
  <2>2. /\ a \in 2..N /\ b \in 2..N /\ k \in 2..N /\ a < b /\ b < k
        /\ url[a] = "/" /\ url[b] = "/" /\ url[k] = "/"
    BY <1>0, <1>1, <1>2, <2>1
  <2>3. \A x \in 2..k : url[x] = "/" => x \in {a, b, k}
    <3>1. \A x \in 2..k : x \in 1..k
      OBVIOUS
    <3> QED BY <1>3, <2>1, <3>1
  <2> QED BY <1>0, <1>5, <2>2, <2>3, ThirdPlace
<1>7. PICK u : u = Slice(url, 1, k - 1)
  OBVIOUS
<1>8. u \in Seq(S) /\ Len(u) = k - 1 /\ \A n \in 1..k - 1 : u[n] = url[n]
  <2>1. PICK lo, hi : lo = 1 /\ hi = k - 1
    OBVIOUS
  <2>2. lo \in 1..Len(url) + 1 /\ hi \in lo - 1..Len(url) /\ hi - lo + 1 = k - 1
    BY <1>0, <1>1, <2>1 DEF N
  <2>3. /\ u \in Seq(S) /\ Len(u) = hi - lo + 1
        /\ \A n \in 1..hi - lo + 1 : u[n] = url[lo + n - 1]
    <3>1. u = Slice(url, lo, hi)
      BY <1>7, <2>1
    <3> QED BY ONLY url \in Seq(S), <2>2, <3>1, SliceFacts
  <2>4. \A n \in 1..k - 1 : lo + n - 1 = n
    BY <2>1
  <2> QED BY <2>2, <2>3, <2>4
<1>9. ParseUrl(u) # {}
  <2>0. k \in Nat /\ i \in Nat /\ j \in Nat
    BY <1>0
  <2>1. i \in 1..Len(u) /\ j \in 1..Len(u) /\ i + 2 < j /\ j < Len(u)
    <3>1. 1 < i /\ i + 3 < j /\ j + 1 < k
      BY <1>1
    <3>2. Len(u) = k - 1
      BY <1>8
    <3> QED BY <2>0, <3>1, <3>2
  <2>2. u[i] = ":" /\ u[j] = ":" /\ u[i + 1] = "/" /\ u[i + 2] = "/"
    <3>1. /\ i \in 1..k - 1 /\ j \in 1..k - 1
          /\ i + 1 \in 1..k - 1 /\ i + 2 \in 1..k - 1
      BY <1>1, <2>0
    <3>2. u[i] = url[i] /\ u[j] = url[j] /\ u[i + 1] = url[i + 1] /\ u[i + 2] = url[i + 2]
      BY <1>8, <3>1
    <3> QED BY <1>1, <1>2, <3>2
  <2>3. \A x \in 1..Len(u) : u[x] = ":" => x \in {i, j}
    <3> SUFFICES ASSUME NEW x \in 1..k - 1, u[x] = ":" PROVE x \in {i, j}
      BY <1>8
    <3>1. x \in 1..k /\ url[x] = ":"
      BY <1>8, <2>0
    <3> QED BY <1>3, <3>1
  <2>4. \A x \in j + 1..Len(u) : u[x] \in Digit
    <3> SUFFICES ASSUME NEW x \in j + 1..k - 1 PROVE u[x] \in Digit
      BY <1>8
    <3>1. x \in 1..k /\ x \in 1..k - 1 /\ j < x /\ x < k
      BY <2>0
    <3>2. u[x] = url[x] /\ url[x] \in Digit
      BY <1>3, <1>8, <3>1
    <3> QED BY <3>2
  <2> QED BY <1>8, <2>1, <2>2, <2>3, <2>4, UsualUrl
<1>10. ~(Len(p) < 3)
  BY <1>5, <1>6 DEF ArePlaces
<1> QED BY <1>4, <1>6, <1>7, <1>9, <1>10 DEF ParseLocation, Slice

-----------------------------------------------------------------------------
(* What the buffer holds. *)

\* A list of parts, put together.
LEMMA EmptyPart ==
    /\ \A a : <<a>> \o <<>> = <<a>>
    /\ \A a, b : <<a, b>> \o <<>> = <<a, b>>
OBVIOUS

LEMMA OnePart ==
    /\ \A a, b : <<a>> \o <<b>> = <<a, b>>
    /\ \A a, b, c : <<a, b>> \o <<c>> = <<a, b, c>>
    /\ \A a, b, c, d : <<a, b, c>> \o <<d>> = <<a, b, c, d>>
<1>1. ASSUME NEW a, NEW b PROVE <<a>> \o <<b>> = <<a, b>>
  <2>1. PICK S : S = {a, b}
    OBVIOUS
  <2>2. <<a>> \in Seq(S) /\ b \in S
    BY <2>1
  <2>3. <<a>> \o <<b>> = Append(<<a>>, b)
    BY <2>2, AppendIsConcat
  <2>4. Append(<<a>>, b) = <<a, b>>
    <3>1. PICK w, x : w = <<a>> /\ x = Append(w, b)
      OBVIOUS
    <3>2. w \in Seq(S) /\ Len(w) = 1 /\ w[1] = a
      BY <2>2, <3>1
    <3>3. x \in Seq(S) /\ Len(x) = 2 /\ x[1] = a /\ x[2] = b
      BY <2>2, <3>1, <3>2, AppendProperties
    <3>4. x = <<a, b>>
      BY <3>3
    <3> QED BY <3>1, <3>4
  <2> QED BY <2>3, <2>4
<1>2. ASSUME NEW a, NEW b, NEW c PROVE <<a, b>> \o <<c>> = <<a, b, c>>
  <2>1. PICK S : S = {a, b, c}
    OBVIOUS
  <2>2. <<a, b>> \in Seq(S) /\ c \in S
    BY <2>1
  <2>3. <<a, b>> \o <<c>> = Append(<<a, b>>, c)
    BY <2>2, AppendIsConcat
  <2>4. Append(<<a, b>>, c) = <<a, b, c>>
    <3>1. PICK w, x : w = <<a, b>> /\ x = Append(w, c)
      OBVIOUS
    <3>2. w \in Seq(S) /\ Len(w) = 2 /\ w[1] = a /\ w[2] = b
      BY <2>2, <3>1
    <3>3. x \in Seq(S) /\ Len(x) = 3 /\ x[1] = a /\ x[2] = b /\ x[3] = c
      BY <2>2, <3>1, <3>2, AppendProperties
    <3>4. x = <<a, b, c>>
      BY <3>3
    <3> QED BY <3>1, <3>4
  <2> QED BY <2>3, <2>4
<1>3. ASSUME NEW a, NEW b, NEW c, NEW d PROVE <<a, b, c>> \o <<d>> = <<a, b, c, d>>
  <2>1. PICK S : S = {a, b, c, d}
    OBVIOUS
  <2>2. <<a, b, c>> \in Seq(S) /\ d \in S
    BY <2>1
  <2>3. <<a, b, c>> \o <<d>> = Append(<<a, b, c>>, d)
    BY <2>2, AppendIsConcat
  <2>4. Append(<<a, b, c>>, d) = <<a, b, c, d>>
    <3>1. PICK w, x : w = <<a, b, c>> /\ x = Append(w, d)
      OBVIOUS
    <3>2. w \in Seq(S) /\ Len(w) = 3 /\ w[1] = a /\ w[2] = b /\ w[3] = c
      BY <2>2, <3>1
    <3>3. x \in Seq(S) /\ Len(x) = 4 /\ x[1] = a /\ x[2] = b /\ x[3] = c /\ x[4] = d
      BY <2>2, <3>1, <3>2, AppendProperties
    <3>4. x = <<a, b, c, d>>
      BY <3>3
    <3> QED BY <3>1, <3>4
  <2> QED BY <2>3, <2>4
<1> QED BY <1>1, <1>2, <1>3

\* The lines of a reply: its status first, a blank one last, and a header for
\* what it has.
LEMMA LinesFacts ==
    ASSUME NEW r \in Reply, NEW L, L = Lines(r)
    PROVE  /\ Len(L) \in 2..4 /\ L[1] = r.head /\ L[Len(L)] = "blank"
           /\ \A n \in 2..Len(L) - 1 : L[n] \in {"Location", "Content-Length"}
           /\ r.location # <<>> <=> \E n \in 2..Len(L) - 1 : L[n] = "Location"
           /\ r.announced => \E n \in 2..Len(L) - 1 : L[n] = "Content-Length"
<1>1. PICK h : h = r.head
  OBVIOUS
<1>2. PICK s2 : s2 = IF r.location = <<>> THEN <<>> ELSE <<"Location">>
  OBVIOUS
<1>3. PICK s3 : s3 = IF r.announced THEN <<"Content-Length">> ELSE <<>>
  OBVIOUS
<1>4. L = <<h>> \o s2 \o s3 \o <<"blank">>
  BY <1>1, <1>2, <1>3 DEF Lines
<1>5. r.announced \in BOOLEAN
  BY DEF Reply
<1>6. CASE r.location = <<>> /\ ~r.announced
  <2>1. s2 = <<>> /\ s3 = <<>>
    BY <1>2, <1>3, <1>6
  <2>2. L = <<h, "blank">>
    <3>1. <<h>> \o s2 = <<h>>
      BY <2>1, EmptyPart, OnePart
    <3>2. <<h>> \o s3 = <<h>>
      BY <2>1, EmptyPart, OnePart
    <3>3. <<h>> \o <<"blank">> = <<h, "blank">>
      BY OnePart
    <3> QED BY <1>4, <3>1, <3>2, <3>3
  <2>3. Len(L) = 2 /\ L[1] = h /\ L[2] = "blank"
    BY ONLY <2>2
  <2>4. \A n \in 2..2 - 1 : FALSE
    OBVIOUS
  <2> QED BY <1>1, <1>6, <2>3, <2>4
<1>7. CASE r.location # <<>> /\ ~r.announced
  <2>1. s2 = <<"Location">> /\ s3 = <<>>
    BY <1>2, <1>3, <1>7
  <2>2. L = <<h, "Location", "blank">>
    <3>1. <<h>> \o s2 = <<h, "Location">>
      BY <2>1, EmptyPart, OnePart
    <3>2. <<h, "Location">> \o s3 = <<h, "Location">>
      BY <2>1, EmptyPart, OnePart
    <3>3. <<h, "Location">> \o <<"blank">> = <<h, "Location", "blank">>
      BY OnePart
    <3> QED BY <1>4, <3>1, <3>2, <3>3
  <2>3. Len(L) = 3 /\ L[1] = h /\ L[2] = "Location" /\ L[3] = "blank"
    BY ONLY <2>2
  <2>4. \A n \in Int : n \in 2..3 - 1 <=> n = 2
    OBVIOUS
  <2> QED BY <1>1, <1>7, <2>3, <2>4
<1>8. CASE r.location = <<>> /\ r.announced
  <2>1. s2 = <<>> /\ s3 = <<"Content-Length">>
    BY <1>2, <1>3, <1>8
  <2>2. L = <<h, "Content-Length", "blank">>
    <3>1. <<h>> \o s2 = <<h>>
      BY <2>1, EmptyPart, OnePart
    <3>2. <<h>> \o s3 = <<h, "Content-Length">>
      BY <2>1, EmptyPart, OnePart
    <3>3. <<h, "Content-Length">> \o <<"blank">> = <<h, "Content-Length", "blank">>
      BY OnePart
    <3> QED BY <1>4, <3>1, <3>2, <3>3
  <2>3. Len(L) = 3 /\ L[1] = h /\ L[2] = "Content-Length" /\ L[3] = "blank"
    BY ONLY <2>2
  <2>4. \A n \in Int : n \in 2..3 - 1 <=> n = 2
    OBVIOUS
  <2> QED BY <1>1, <1>8, <2>3, <2>4
<1>9. CASE r.location # <<>> /\ r.announced
  <2>1. s2 = <<"Location">> /\ s3 = <<"Content-Length">>
    BY <1>2, <1>3, <1>9
  <2>2. L = <<h, "Location", "Content-Length", "blank">>
    <3>1. <<h>> \o s2 = <<h, "Location">>
      BY <2>1, EmptyPart, OnePart
    <3>2. <<h, "Location">> \o s3 = <<h, "Location", "Content-Length">>
      BY <2>1, EmptyPart, OnePart
    <3>3. <<h, "Location", "Content-Length">> \o <<"blank">> = <<h, "Location", "Content-Length", "blank">>
      BY OnePart
    <3> QED BY <1>4, <3>1, <3>2, <3>3
  <2>3. Len(L) = 4 /\ L[1] = h /\ L[2] = "Location" /\ L[3] = "Content-Length" /\ L[4] = "blank"
    BY ONLY <2>2
  <2>4. \A n \in Int : n \in 2..4 - 1 <=> n = 2 \/ n = 3
    OBVIOUS
  <2> QED BY <1>1, <1>9, <2>3, <2>4
<1> QED BY <1>5, <1>6, <1>7, <1>8, <1>9

\* One step of the recursion of Buffer.
ParsedFrom(f, lines, body, n) ==
    IF n = 0 THEN NewBuffer ELSE ParseLine(f[n - 1], lines[n], body)

\* The recursion of Buffer defines a function.
LEMMA ParsedExists ==
    ASSUME NEW lines, NEW body, NEW n \in Nat
    PROVE  \E f : f = [i \in 0..n |-> ParsedFrom(f, lines, body, i)]
<1> DEFINE S == {m \in 0..n : \E f : f = [i \in 0..m |-> ParsedFrom(f, lines, body, i)]}
<1>1. 0 \in S
  <2> DEFINE g == [i \in 0..0 |-> NewBuffer]
  <2>1. g = [i \in 0..0 |-> ParsedFrom(g, lines, body, i)]
    BY DEF ParsedFrom
  <2> HIDE DEF g
  <2> QED BY <2>1
<1>2. ASSUME NEW m \in 0..n - 1, m \in S PROVE m + 1 \in S
  <2>1. PICK f : f = [i \in 0..m |-> ParsedFrom(f, lines, body, i)]
    BY <1>2
  <2> DEFINE g == [i \in 0..m + 1 |-> IF i = m + 1 THEN ParsedFrom(f, lines, body, i) ELSE f[i]]
  <2>2. ASSUME NEW i \in 0..m + 1 PROVE g[i] = ParsedFrom(g, lines, body, i)
    <3>1. g[i] = ParsedFrom(f, lines, body, i)
      <4>1. CASE i = m + 1
        BY <4>1
      <4>2. CASE i # m + 1
        <5>1. i \in 0..m
          BY <4>2
        <5>2. g[i] = f[i]
          BY <4>2
        <5> HIDE DEF g
        <5> QED BY <2>1, <5>1, <5>2
      <4> QED BY <4>1, <4>2
    <3>2. i # 0 => f[i - 1] = g[i - 1]
      OBVIOUS
    <3> HIDE DEF g
    <3> QED BY <3>1, <3>2 DEF ParsedFrom
  <2>3. g = [i \in 0..m + 1 |-> ParsedFrom(g, lines, body, i)]
    <3>1. g = [i \in 0..m + 1 |-> g[i]]
      OBVIOUS
    <3> HIDE DEF g
    <3> QED BY <2>2, <3>1
  <2>4. m + 1 \in 0..n
    OBVIOUS
  <2> HIDE DEF g
  <2> QED BY <2>3, <2>4
<1>3. 0..n \subseteq S
  <2> HIDE DEF S
  <2> QED BY <1>1, <1>2, UpFrom
<1> QED BY <1>3

\* What the buffer is.
BufferType ==
    [http_resp_code : {"none", "200", "307"}, http_error : BOOLEAN,
     content_length : Nat, has_location : BOOLEAN]

\* What it holds of a reply of which it has parsed the lines up to the n-th.
Holds(b, r, lines, n) ==
    /\ b \in BufferType
    /\ r.head = "malformed" => b.http_error
    /\ r.head # "malformed" =>
          /\ ~b.http_error /\ b.http_resp_code = r.head
          /\ b.has_location <=> \E m \in 2..n : lines[m] = "Location"
          /\ (\E m \in 2..n : lines[m] = "Content-Length") => b.content_length = r.body

\* The status line,
LEMMA HoldsStatus ==
    ASSUME NEW r \in Reply, NEW lines, lines[1] = r.head, NEW b,
           b = ParseLine(NewBuffer, r.head, r.body)
    PROVE  Holds(b, r, lines, 1)
<1>1. r.head \in {"200", "307", "malformed"}
  BY DEF Reply
<1>2. \A m \in 2..1 : FALSE
  OBVIOUS
<1>3. CASE r.head = "malformed"
  <2>1. b = [http_resp_code |-> "none", http_error |-> TRUE,
             content_length |-> 0, has_location |-> FALSE]
    BY <1>3 DEF ParseLine, NewBuffer
  <2>2. b \in BufferType
    BY <2>1 DEF BufferType
  <2>3. b.http_error = TRUE
    BY <2>1
  <2> QED BY <1>3, <2>2, <2>3 DEF Holds
<1>4. CASE r.head # "malformed"
  <2>1. b = [http_resp_code |-> r.head, http_error |-> FALSE,
             content_length |-> 0, has_location |-> FALSE]
    BY <1>1, <1>4 DEF ParseLine, NewBuffer
  <2> QED BY <1>1, <1>2, <1>4, <2>1 DEF Holds, BufferType
<1> QED BY <1>3, <1>4

\* and one line more.
LEMMA HoldsLine ==
    ASSUME NEW r \in Reply, NEW lines, NEW n \in Nat, n >= 1, NEW b, Holds(b, r, lines, n),
           lines[n + 1] \in {"Location", "Content-Length", "blank"},
           NEW c, c = ParseLine(b, lines[n + 1], r.body)
    PROVE  Holds(c, r, lines, n + 1)
<1>0. r.head \in {"200", "307", "malformed"} /\ r.body \in Nat
  <2>1. r.body \in 0..MaxBody /\ r.head \in {"200", "307", "malformed"}
    BY DEF Reply
  <2> QED BY <2>1, HdfsAssumption
<1>1. b \in BufferType
  BY DEF Holds
<1>2. PICK code, err, len, loc :
         /\ b = [http_resp_code |-> code, http_error |-> err,
                 content_length |-> len, has_location |-> loc]
         /\ code \in {"none", "200", "307"} /\ err \in BOOLEAN /\ len \in Nat /\ loc \in BOOLEAN
  BY <1>1 DEF BufferType
<1>3. PICK k : k = n + 1
  OBVIOUS
<1>4. PICK line : line = lines[k]
  OBVIOUS
<1>5. c = ParseLine(b, line, r.body) /\ line \in {"Location", "Content-Length", "blank"}
  BY <1>3, <1>4
<1>6. c \in BufferType
  BY <1>0, <1>2, <1>5 DEF ParseLine, BufferType
<1>7. err => c.http_error
  BY <1>2, <1>5 DEF ParseLine
<1>8. ASSUME code # "none"
      PROVE  /\ c.http_error = err /\ c.http_resp_code = code
             /\ c.has_location = (loc \/ line = "Location")
             /\ c.content_length = IF line = "Content-Length" THEN r.body ELSE len
  BY <1>2, <1>5, <1>8 DEF ParseLine
<1>9. \A m \in 2..k : m \in 2..n \/ m = k
  BY <1>3
<1>10. k \in 2..k /\ \A m \in 2..n : m \in 2..k
  BY <1>3
<1>11. CASE r.head = "malformed"
  BY <1>2, <1>3, <1>6, <1>7, <1>11 DEF Holds
<1>12. CASE r.head # "malformed"
  <2>1. /\ ~err /\ code = r.head /\ code # "none"
        /\ loc <=> \E m \in 2..n : lines[m] = "Location"
        /\ (\E m \in 2..n : lines[m] = "Content-Length") => len = r.body
    BY <1>0, <1>2, <1>12 DEF Holds
  <2>2. c.has_location <=> \E m \in 2..k : lines[m] = "Location"
    BY <1>4, <1>8, <1>9, <1>10, <2>1
  <2>3. (\E m \in 2..k : lines[m] = "Content-Length") => c.content_length = r.body
    BY <1>4, <1>8, <1>9, <1>10, <2>1
  <2> QED BY <1>3, <1>6, <1>8, <1>12, <2>1, <2>2, <2>3 DEF Holds
<1> QED BY <1>11, <1>12

\* What the buffer holds after so many units.
LEMMA BufferFacts ==
    ASSUME NEW r \in Reply, NEW t \in Nat
    PROVE  /\ LinesIn(r, t) \in 0..Len(Lines(r))
           /\ LinesIn(r, t) = 0 => Buffer(r, t) = NewBuffer /\ t < 2
           /\ LinesIn(r, t) # 0 => Holds(Buffer(r, t), r, Lines(r), LinesIn(r, t))
<1>1. PICK L : L = Lines(r)
  OBVIOUS
<1>2. PICK N : N = Len(L)
  OBVIOUS
<1>3. /\ N \in 2..4 /\ L[1] = r.head /\ L[N] = "blank"
      /\ \A n \in 2..N - 1 : L[n] \in {"Location", "Content-Length"}
  BY <1>1, <1>2, LinesFacts
<1>4. PICK h \in Int : h = t \div 2 /\ 2 * h <= t /\ t <= 2 * h + 1
  OBVIOUS
<1>5. PICK m : m = LinesIn(r, t)
  OBVIOUS
<1>6. m \in 0..N /\ (m = 0 => t < 2)
  <2>1. m = IF h < N THEN h ELSE N
    BY <1>1, <1>2, <1>4, <1>5 DEF LinesIn
  <2> QED BY <1>3, <1>4, <2>1
<1>7. PICK f : f = [i \in 0..N |-> ParsedFrom(f, L, r.body, i)] /\ Buffer(r, t) = f[m]
  <2> DEFINE g == CHOOSE f : f = [i \in 0..N |-> ParsedFrom(f, L, r.body, i)]
  <2>1. N \in Nat
    BY <1>3
  <2>2. g = [i \in 0..N |-> ParsedFrom(g, L, r.body, i)]
    BY <2>1, ParsedExists
  <2>3. Buffer(r, t) = g[m]
    BY <1>1, <1>2, <1>5 DEF Buffer, ParsedFrom
  <2> HIDE DEF g
  <2> QED BY <2>2, <2>3
<1>8. f[0] = NewBuffer
  <2>1. 0 \in 0..N
    BY <1>3
  <2>2. f[0] = ParsedFrom(f, L, r.body, 0)
    BY <1>7, <2>1
  <2> QED BY <2>2 DEF ParsedFrom
<1>9. \A i \in 0..N - 1 : f[i + 1] = ParseLine(f[i], L[i + 1], r.body)
  <2> TAKE i \in 0..N - 1
  <2>1. i + 1 \in 0..N /\ i + 1 # 0 /\ (i + 1) - 1 = i
    BY <1>3
  <2>2. f[i + 1] = ParsedFrom(f, L, r.body, i + 1)
    BY <1>7, <2>1
  <2> QED BY <2>1, <2>2 DEF ParsedFrom
<1> DEFINE S == {n \in 1..N : Holds(f[n], r, L, n)}
<1>10. 1 \in S
  <2>1. 0 \in 0..N - 1 /\ 0 + 1 = 1 /\ 1 \in 1..N
    BY <1>3
  <2>2. f[1] = ParseLine(NewBuffer, r.head, r.body)
    BY <1>3, <1>8, <1>9, <2>1
  <2>3. PICK b : b = f[1]
    OBVIOUS
  <2>4. Holds(b, r, L, 1)
    BY <1>3, <2>2, <2>3, HoldsStatus
  <2> QED BY <2>1, <2>3, <2>4
<1>11. ASSUME NEW n \in 1..N - 1, n \in S PROVE n + 1 \in S
  <2>1. n \in 0..N - 1 /\ n \in Nat /\ n >= 1 /\ n + 1 \in 1..N
    BY <1>3
  <2>2. L[n + 1] \in {"Location", "Content-Length", "blank"}
    <3>1. n + 1 = N \/ n + 1 \in 2..N - 1
      BY <1>3
    <3> QED BY <1>3, <3>1
  <2>3. PICK b, c : b = f[n] /\ c = f[n + 1]
    OBVIOUS
  <2>4. Holds(b, r, L, n) /\ c = ParseLine(b, L[n + 1], r.body)
    BY <1>9, <1>11, <2>1, <2>3
  <2>5. Holds(c, r, L, n + 1)
    BY <2>1, <2>2, <2>4, HoldsLine
  <2> QED BY <2>1, <2>3, <2>5
<1>12. 1..N \subseteq S
  <2>1. 1 \in Int /\ N \in Int
    BY <1>3
  <2> HIDE DEF S
  <2> QED BY <1>10, <1>11, <2>1, UpFrom
<1>13. m # 0 => Holds(f[m], r, L, m)
  <2>1. m # 0 => m \in 1..N
    BY <1>3, <1>6
  <2> QED BY <1>12, <2>1
<1> QED BY <1>1, <1>2, <1>5, <1>6, <1>7, <1>8, <1>13

-----------------------------------------------------------------------------
\* What the reader knows of a reply it takes for complete.
LEMMA AcceptedFacts ==
    ASSUME NEW r \in Reply, NEW t \in Nat, t # 0, Accepted(r, t),
           NEW b, b = Buffer(r, t), ~b.http_error
    PROVE  /\ b.http_resp_code # "307" =>
                 /\ r.head = "200"
                 /\ r.announced /\ LinesIn(r, t) = Len(Lines(r)) => t = Size(r)
           /\ b.http_resp_code = "307" =>
                 /\ r.head = "307"
                 /\ LinesIn(r, t) = Len(Lines(r)) =>
                       (b.has_location <=> r.location # <<>>)
<1>1. PICK L, N, m : L = Lines(r) /\ N = Len(L) /\ m = LinesIn(r, t)
  OBVIOUS
<1>2. m \in 0..N /\ (m = 0 => b = NewBuffer /\ t < 2) /\ (m # 0 => Holds(b, r, L, m))
  BY <1>1, BufferFacts
<1>3. t = 2 * m + b.content_length
  BY <1>1 DEF Accepted
<1>4. m # 0
  <2> SUFFICES ASSUME m = 0 PROVE FALSE
    OBVIOUS
  <2>1. b.content_length = 0
    BY <1>2 DEF NewBuffer
  <2> QED BY <1>3, <2>1
<1>5. Holds(b, r, L, m)
  BY <1>2, <1>4
<1>6. r.head # "malformed" /\ b.http_resp_code = r.head
  BY <1>5 DEF Holds
<1>7. r.head \in {"200", "307", "malformed"}
  BY DEF Reply
<1>8. /\ N \in 2..4 /\ L[1] = r.head /\ L[N] = "blank"
      /\ r.location # <<>> <=> \E n \in 2..N - 1 : L[n] = "Location"
      /\ r.announced => \E n \in 2..N - 1 : L[n] = "Content-Length"
  <2>1. PICK x : x = r
    OBVIOUS
  <2>2. x \in Reply /\ L = Lines(x)
    BY ONLY <1>1, <2>1, r \in Reply
  <2>3. /\ Len(L) \in 2..4 /\ L[1] = x.head /\ L[Len(L)] = "blank"
        /\ x.location # <<>> <=> \E n \in 2..Len(L) - 1 : L[n] = "Location"
        /\ x.announced => \E n \in 2..Len(L) - 1 : L[n] = "Content-Length"
    BY ONLY <2>2, LinesFacts
  <2> QED BY ONLY <1>1, <2>1, <2>3
<1>9. \A n \in 2..N - 1 : n \in 2..N
  BY <1>8
<1>10. ASSUME r.announced, m = N PROVE t = Size(r)
  <2>1. \E n \in 2..m : L[n] = "Content-Length"
    BY <1>8, <1>9, <1>10
  <2>2. b.content_length = r.body
    BY <1>5, <1>6, <2>1 DEF Holds
  <2> QED BY <1>1, <1>3, <1>10, <2>2 DEF Size
<1>11. ASSUME m = N PROVE b.has_location <=> r.location # <<>>
  <2>1. b.has_location <=> \E n \in 2..N : L[n] = "Location"
    BY <1>5, <1>6, <1>11 DEF Holds
  <2>2. \A n \in 2..N : L[n] = "Location" => n \in 2..N - 1
    BY <1>8
  <2> QED BY <1>8, <1>9, <2>1, <2>2
<1> QED BY <1>1, <1>6, <1>7, <1>10, <1>11

\* What is sent and asked for after a redirect is what it says.
RequestInv ==
    ~name_node_in_process =>
        /\ Rebuilt(redirect, endpoint, file_query)
        /\ op.kind \in {"send", "read"} =>
              request.host = endpoint.domain /\ request.path = file_query

\* A reader without an operation that is not stopped has reported a redirect.
LeftInv ==
    ~stop_inited /\ op = NoOp =>
        /\ called = <<"error">> /\ reply.head = "307"
        /\ name_node_in_process /\ LinesIn(reply, top) = Len(Lines(reply)) =>
              ~WellFormed(reply.location)

\* What the reports and the requests rest on.
SoundInv == IInv /\ ContentIsSound /\ RequestInv /\ LeftInv

\* A handler that reports and stops leaves nothing to be freed by the acceptor.
LEMMA StopFacts ==
    ASSUME NEW result, IInv, called = <<>>, ReportAndStop(result)
    PROVE  called' = <<result>> /\ op' = NoOp /\ stop_inited' = TRUE
<1>1. called' = Append(called, result) /\ StopsWith(NoOp)
  BY DEF ReportAndStop
<1>2. called' = <<result>>
  BY <1>1
<1>3. NoOp \in Op \cup {NoOp}
  OBVIOUS
<1>4. stop_inited' = TRUE /\ (op' = NoOp <=> NoOp = NoOp)
  BY ONLY IInv, <1>1, <1>3, StopsFacts
<1> QED BY ONLY <1>2, <1>4

LEMMA InitSound == Init => SoundInv
<1> SUFFICES ASSUME Init PROVE SoundInv
  OBVIOUS
<1>1. IInv
  BY InitIInv
<1>2. name_node_in_process = TRUE
  BY DEF Init
<1>3. called = <<>> \/ called = <<"error">>
  BY DEF Init
<1>4. ContentIsSound
  <2>1. called # <<"content">>
    <3>1. <<>> # <<"content">>
      OBVIOUS
    <3>2. <<"error">> # <<"content">>
      OBVIOUS
    <3> QED BY <1>3, <3>1, <3>2
  <2> QED BY <2>1 DEF ContentIsSound
<1>5. ~stop_inited => op # NoOp
  <2>1. [kind |-> "resolve", st |-> "pending", holds |-> TRUE] # NoOp
    BY DEF NoOp
  <2> QED BY <2>1 DEF Init
<1> QED BY <1>1, <1>2, <1>4, <1>5 DEF SoundInv, RequestInv, LeftInv

\* A reply that was taken for complete.
LEMMA RespondKeeps ==
    ASSUME SoundInv, op.kind = "read", op.st = "ok", NEW t \in Nat, t # 0, top' = t,
           Accepted(reply, t), NEW b, b = Buffer(reply, t), OnGetRespond(b),
           UNCHANGED <<reply, request>>
    PROVE  (ContentIsSound /\ RequestInv /\ LeftInv)'
<1>0. IInv /\ DataTyped /\ called = <<>>
  <2>1. op.st \in {"pending", "ok", "failed"}
    OBVIOUS
  <2> QED BY <2>1, NotReported DEF SoundInv, IInv, TypeOK, DataTyped
<1>1. reply \in Reply
  BY <1>0 DEF DataTyped
<1>2. reply.location \in Seq(Char) /\ GetRedirectLocation(b) \in Seq(Char)
  <2>1. reply.location \in Location \cup {<<>>}
    BY <1>1 DEF Reply
  <2>2. <<>> \in Seq(Char) /\ Location \subseteq Seq(Char)
    BY HdfsAssumption
  <2>3. reply.location \in Seq(Char)
    BY <2>1, <2>2
  <2> QED BY <2>2, <2>3 DEF GetRedirectLocation
<1>3. Stays /\ op' = NoOp => RequestInv'
  <2>1. NoOp.kind = "none"
    BY DEF NoOp
  <2> QED BY <2>1 DEF Stays, SoundInv, RequestInv
<1>4. CASE b.http_error
  <2>1. ReportAndStop("error") /\ Stays
    BY <1>4 DEF OnGetRespond
  <2>2. called' = <<"error">> /\ op' = NoOp /\ stop_inited' = TRUE
    BY <1>0, <2>1, StopFacts
  <2>3. <<"error">> # <<"content">>
    OBVIOUS
  <2> QED BY <1>3, <2>1, <2>2, <2>3 DEF ContentIsSound, LeftInv
<1>5. CASE ~b.http_error /\ b.http_resp_code # "307"
  <2>1. ReportAndStop("content") /\ Stays
    BY <1>5 DEF OnGetRespond
  <2>2. called' = <<"content">> /\ op' = NoOp /\ stop_inited' = TRUE
    BY <1>0, <2>1, StopFacts
  <2>3. /\ reply.head = "200"
        /\ reply.announced /\ LinesIn(reply, t) = Len(Lines(reply)) => t = Size(reply)
    BY <1>1, <1>5, AcceptedFacts
  <2>4. ContentIsSound'
    BY <2>3 DEF ContentIsSound
  <2> QED BY <1>3, <2>1, <2>2, <2>4 DEF LeftInv
<1>6. CASE /\ ~b.http_error /\ b.http_resp_code = "307"
           /\ ~name_node_in_process \/ ParseLocation(GetRedirectLocation(b)) = {}
  <2>1. called' = Append(called, "error") /\ Leaves(NoOp, timer, stop_inited) /\ Stays
    BY <1>6 DEF OnGetRespond
  <2>2. called' = <<"error">> /\ op' = NoOp
    <3>1. called' = <<"error">>
      BY ONLY <1>0, <2>1
    <3>2. timer \in Timer \cup {NoTimer} /\ stop_inited \in BOOLEAN
      BY <1>0 DEF IInv, TypeOK
    <3>3. NoOp \in Op \cup {NoOp}
      OBVIOUS
    <3>4. op' = NoOp <=> NoOp = NoOp
      BY ONLY <2>1, <3>2, <3>3, LeavesFacts
    <3> QED BY ONLY <3>1, <3>4
  <2>3. <<"error">> # <<"content">>
    OBVIOUS
  <2>4. /\ reply.head = "307"
        /\ LinesIn(reply, t) = Len(Lines(reply)) =>
              (b.has_location <=> reply.location # <<>>)
    BY <1>1, <1>6, AcceptedFacts
  <2>5. ASSUME name_node_in_process, LinesIn(reply, t) = Len(Lines(reply))
        PROVE  ~WellFormed(reply.location)
    <3>1. GetRedirectLocation(b) = reply.location
      BY <2>4, <2>5 DEF GetRedirectLocation
    <3>2. ParseLocation(reply.location) = {}
      BY <1>6, <2>5, <3>1
    <3> QED BY <1>2, <3>2, UsualLocation
  <2>6. LeftInv'
    BY <2>1, <2>2, <2>4, <2>5 DEF LeftInv, Stays
  <2> QED BY <1>3, <2>1, <2>2, <2>3, <2>6 DEF ContentIsSound
<1>7. CASE /\ ~b.http_error /\ b.http_resp_code = "307"
           /\ ~(~name_node_in_process \/ ParseLocation(GetRedirectLocation(b)) = {})
  <2>1. Follows(GetRedirectLocation(b)) /\ GoesOn("resolve")
    BY <1>7 DEF OnGetRespond
  <2>2. op' # NoOp /\ op'.kind = "resolve" /\ called' = <<>>
    BY <1>0, <2>1, GoesOnFacts
  <2>3. <<>> # <<"content">>
    OBVIOUS
  <2>4. PICK location : location = GetRedirectLocation(b)
    OBVIOUS
  <2>5. PICK to \in ParseLocation(location) :
           redirect' = location /\ endpoint' = to.endpoint /\ file_query' = to.query
    BY <2>1, <2>4 DEF Follows
  <2>6. Rebuilt(location, to.endpoint, to.query)
    BY <1>2, <2>4, ParsedLocation
  <2>7. RequestInv'
    BY <2>2, <2>5, <2>6 DEF RequestInv
  <2> QED BY <2>2, <2>3, <2>7 DEF ContentIsSound, LeftInv
<1> QED BY <1>4, <1>5, <1>6, <1>7

\* Every step keeps it.
LEMMA NextSound == SoundInv /\ [Next]_vars => SoundInv'
<1> SUFFICES ASSUME SoundInv, [Next]_vars PROVE SoundInv'
  OBVIOUS
<1>0. IInv /\ ContentIsSound /\ RequestInv /\ LeftInv /\ IInv'
  BY NextIInv DEF SoundInv
<1>1. SUFFICES (ContentIsSound /\ RequestInv /\ LeftInv)'
  BY <1>0 DEF SoundInv
<1>2. <<>> # <<"content">> /\ <<"error">> # <<"content">>
  OBVIOUS
<1>3. ASSUME Handler PROVE called = <<>>
  <2>1. op.st \in {"pending", "ok", "failed"}
    BY <1>3 DEF Handler, OpFailed, Resolved, Connected, Sent, Received, RunsOnDestructed, Runs
  <2> QED BY <1>0, <2>1, NotReported
<1>4. CASE OpFailed
  <2>1. /\ ReportAndStop("error")
        /\ UNCHANGED <<name_node_in_process, reply, top, endpoint, file_query, request, redirect>>
    BY <1>4 DEF OpFailed
  <2>2. called' = <<"error">> /\ op' = NoOp /\ stop_inited' = TRUE
    BY <1>0, <1>3, <1>4, <2>1, StopFacts DEF Handler
  <2>3. NoOp.kind = "none"
    BY DEF NoOp
  <2>4. RequestInv'
    BY <1>0, <2>1, <2>2, <2>3 DEF RequestInv
  <2> QED BY <1>2, <2>2, <2>4 DEF ContentIsSound, LeftInv
<1>5. CASE Resolved
  <2>1. /\ GoesOn("connect")
        /\ UNCHANGED <<name_node_in_process, reply, top, endpoint, file_query, request, redirect>>
    BY <1>5 DEF Resolved
  <2>2. op' # NoOp /\ op'.kind = "connect" /\ called' = <<>>
    BY <1>0, <1>3, <1>5, <2>1, GoesOnFacts DEF Handler
  <2>3. RequestInv'
    BY <1>0, <2>1, <2>2 DEF RequestInv
  <2> QED BY <1>2, <2>2, <2>3 DEF ContentIsSound, LeftInv
<1>6. CASE Connected
  <2>1. /\ GoesOn("send") /\ request' = Request
        /\ UNCHANGED <<name_node_in_process, reply, top, endpoint, file_query, redirect>>
    BY <1>6 DEF Connected
  <2>2. op' # NoOp /\ op'.kind = "send" /\ called' = <<>>
    BY <1>0, <1>3, <1>6, <2>1, GoesOnFacts DEF Handler
  <2>3. RequestInv'
    BY <1>0, <2>1, <2>2 DEF RequestInv, Request
  <2> QED BY <1>2, <2>2, <2>3 DEF ContentIsSound, LeftInv
<1>7. CASE Sent
  <2>1. /\ op.kind = "send" /\ GoesOn("read")
        /\ UNCHANGED <<name_node_in_process, endpoint, file_query, request, redirect>>
    BY <1>7 DEF Sent, Runs
  <2>2. op' # NoOp /\ op'.kind = "read" /\ called' = <<>>
    BY <1>0, <1>3, <1>7, <2>1, GoesOnFacts DEF Handler
  <2>3. RequestInv'
    BY <1>0, <2>1, <2>2 DEF RequestInv
  <2> QED BY <1>2, <2>2, <2>3 DEF ContentIsSound, LeftInv
<1>8. CASE Received
  <2>1. PICK t \in (top + 1)..Size(reply) :
           /\ top' = t
           /\ \/ Accepted(reply, t) /\ OnGetRespond(Buffer(reply, t))
              \/ GoesOn("read") /\ Stays
    BY <1>8 DEF Received
  <2>2. t \in Nat /\ t # 0
    <3>1. top \in Nat /\ Size(reply) \in Nat
      BY <1>0, SizeNat DEF IInv, TypeOK
    <3> QED BY <2>1, <3>1
  <2>3. op.kind = "read" /\ op.st = "ok" /\ UNCHANGED <<reply, request>>
    BY <1>8 DEF Received, Runs
  <2>4. CASE Accepted(reply, t) /\ OnGetRespond(Buffer(reply, t))
    <3>1. PICK b : b = Buffer(reply, t)
      OBVIOUS
    <3> QED BY <2>1, <2>2, <2>3, <2>4, <3>1, RespondKeeps
  <2>5. CASE GoesOn("read") /\ Stays
    <3>1. op' # NoOp /\ op'.kind = "read" /\ called' = <<>>
      BY <1>0, <1>3, <1>8, <2>5, GoesOnFacts DEF Handler
    <3>2. RequestInv'
      BY <1>0, <2>3, <2>5, <3>1 DEF RequestInv, Stays
    <3> QED BY <1>2, <3>1, <3>2 DEF ContentIsSound, LeftInv
  <2> QED BY <2>1, <2>4, <2>5
<1>9. CASE RunsOnDestructed
  <2>1. /\ op' = NoOp /\ ~alive /\ called' \in {called, Append(called, "error")}
        /\ UNCHANGED <<name_node_in_process, timer, reply, top, stop_inited, alive,
                       endpoint, file_query, request, redirect>>
    BY <1>9 DEF RunsOnDestructed
  <2>2. called' = <<>> \/ called' = <<"error">>
    BY <1>3, <1>9, <2>1 DEF Handler
  <2>3. NoOp.kind = "none"
    BY DEF NoOp
  <2>4. RequestInv'
    BY <1>0, <2>1, <2>3 DEF RequestInv
  <2>5. stop_inited'
    BY <1>0, <2>1 DEF IInv, AliveUnlessStopped
  <2> QED BY <1>2, <2>1, <2>2, <2>4, <2>5 DEF ContentIsSound, LeftInv
<1>10. CASE Complete
  <2>1. PICK st \in {"ok", "failed"} : op' = [op EXCEPT !.st = st]
    BY <1>10 DEF Complete
  <2>2. op \in Op /\ called = <<>>
    BY <1>0, <1>10, NotReported DEF Complete
  <2>3. op' \in Op /\ op'.kind = op.kind
    BY <2>1, <2>2 DEF Op
  <2>4. op' # NoOp
    BY <2>3 DEF Op, NoOp
  <2>5. UNCHANGED <<name_node_in_process, reply, top, called, stop_inited, alive,
                    endpoint, file_query, request, redirect>>
    BY ONLY <1>10 DEF Complete
  <2>6. RequestInv'
    BY <1>0, <2>3, <2>5 DEF RequestInv
  <2> QED BY <1>2, <2>2, <2>4, <2>5, <2>6 DEF ContentIsSound, LeftInv
<1>11. CASE Stop
  <2>1. /\ stop_inited' = TRUE /\ op'.kind = op.kind
        /\ UNCHANGED <<name_node_in_process, reply, top, called,
                       endpoint, file_query, request, redirect>>
    BY ONLY <1>0, <1>11, StopLeaves
  <2>2. RequestInv'
    BY ONLY <1>0, <2>1 DEF RequestInv
  <2>3. ContentIsSound'
    BY ONLY <1>0, <2>1 DEF ContentIsSound
  <2> QED BY ONLY <2>1, <2>2, <2>3 DEF LeftInv
<1>13. CASE TimerHandler \/ Expire
  <2>1. /\ op' = NoOp <=> op = NoOp
        /\ op'.kind = op.kind
        /\ UNCHANGED <<name_node_in_process, reply, top, called, stop_inited,
                       endpoint, file_query, request, redirect>>
    BY ONLY <1>0, <1>13, TimerKeeps
  <2>2. RequestInv'
    BY ONLY <1>0, <2>1 DEF RequestInv
  <2>3. ContentIsSound'
    BY ONLY <1>0, <2>1 DEF ContentIsSound
  <2>4. LeftInv'
    BY ONLY <1>0, <2>1 DEF LeftInv
  <2> QED BY ONLY <2>2, <2>3, <2>4
<1>12. CASE UNCHANGED vars
  BY <1>0, <1>12 DEF vars, ContentIsSound, RequestInv, LeftInv
<1> QED BY <1>4, <1>5, <1>6, <1>7, <1>8, <1>9, <1>10, <1>11, <1>12, <1>13 DEF Next, Handler

LEMMA SoundInvariance == Spec => []SoundInv
BY InitSound, NextSound, PTL DEF Spec

\* AEvHdfsRead reports content only from a reply whose status line it has read
\* and which is no redirect, and behind a whole header only with the whole body.
THEOREM OnlySoundContent == Spec => []ContentIsSound
<1>1. SoundInv => ContentIsSound
  BY DEF SoundInv
<1> QED BY <1>1, SoundInvariance, PTL

\* What is sent after a redirect goes where it says and asks for what it says,
\* and the redirect of the usual form is never reported in place of followed.
THEOREM RedirectsAreFollowed == Spec => []RedirectFollowed
<1>1. SoundInv => RedirectFollowed
  <2> SUFFICES ASSUME SoundInv PROVE RedirectFollowed
    OBVIOUS
  <2>1. RequestInv /\ LeftInv
    BY DEF SoundInv
  <2>2. ASSUME ~name_node_in_process, op.kind \in {"send", "read"}
        PROVE  \E n \in 0..Len(redirect) :
                  redirect = SubSeq(redirect, 1, n) \o <<":", "/", "/">> \o request.host
                                \o <<":">> \o endpoint.port \o request.path
    <3>1. /\ Rebuilt(redirect, endpoint, file_query)
          /\ request.host = endpoint.domain /\ request.path = file_query
      BY <2>1, <2>2 DEF RequestInv
    <3> QED BY ONLY <3>1 DEF Rebuilt
  <2> QED BY <2>1, <2>2 DEF LeftInv, RedirectFollowed
<1> QED BY <1>1, SoundInvariance, PTL

=============================================================================
