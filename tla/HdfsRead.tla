----------------------------- MODULE HdfsRead ------------------------------
(***************************************************************************)
(* The reader of a file from HDFS: aev::AEvHdfs and aev::AEvHdfsRead, with *)
(* the buffer hdfs::HdfsBuffer that parses what a server sends.            *)
(*                                                                         *)
(* The reader asks the name node, is redirected to a data node, asks it,   *)
(* and reports to the callback it was given.  It has one operation         *)
(* outstanding at a time and, beside it, the wait of the timer that every  *)
(* event starts.  What interleaves are their handlers, the acceptor, which *)
(* may stop the reader between any two of them, and the servers, which cut *)
(* a reply anywhere.                                                       *)
(*                                                                         *)
(* A reply is measured in units: every line is two units long, the second  *)
(* of which brings its end, and the body is so many units.                 *)
(***************************************************************************)
EXTENDS HdfsUtils

CONSTANTS
    Char,      \* what a URL is made of
    MaxBody,   \* bound: the units in the body of a reply
    NameNode,  \* URLs of name nodes the reader may be given
    Location   \* values of the header by which a server redirects

ASSUME HdfsAssumption ==
    /\ MaxBody \in Nat
    /\ Location \subseteq Seq(Char)
    /\ NameNode \subseteq Seq(Char)

VARIABLES
    name_node_in_process,
    op,           \* the operation outstanding, or whose handler is queued
    timer,        \* the wait of the timer, likewise
    reply,        \* what the server sends in answer to the last request
    top,          \* units of it received
    called,       \* what _cb was called with
    stop_inited,
    alive,        \* the reader has not been destructed
    endpoint,     \* the server it talks to
    file_query,   \* _file_location.query
    request,      \* what was sent last: the host and the path
    redirect      \* history: the redirect that was followed

vars == <<name_node_in_process, op, timer, reply, top, called, stop_inited, alive,
          endpoint, file_query, request, redirect>>

-----------------------------------------------------------------------------
\* "200" stands for every status other than a redirect.
Reply == [head : {"200", "307", "malformed"},
          location : Location \cup {<<>>},  \* <<>>: there is no such header
          announced : BOOLEAN,
          body : 0..MaxBody]

Lines(r) ==
    <<r.head>>
        \o (IF r.location = <<>> THEN <<>> ELSE <<"Location">>)
        \o (IF r.announced THEN <<"Content-Length">> ELSE <<>>)
        \o <<"blank">>

Size(r) == 2 * Len(Lines(r)) + r.body

\* The lines of which `t` units hold the end.
LinesIn(r, t) ==
    IF t \div 2 < Len(Lines(r)) THEN t \div 2 ELSE Len(Lines(r))

\* HdfsBuffer::when_have_new_part: the line is a status line as long as there is
\* no status, else a header.  A blank line ends the parsing unless it comes
\* without a status.
ParseLine(b, line, body) ==
    IF line = "blank"
    THEN [b EXCEPT !.http_error = @ \/ b.http_resp_code = "none"]
    ELSE IF b.http_resp_code = "none"
    THEN IF line \in {"200", "307"} THEN [b EXCEPT !.http_resp_code = line]
         ELSE IF line = "Content-Length" THEN [b EXCEPT !.http_resp_code = "200"]
         ELSE [b EXCEPT !.http_error = TRUE]
    ELSE IF line = "Content-Length"
    THEN [b EXCEPT !.content_length = body]
    ELSE [b EXCEPT !.has_location = TRUE]

NewBuffer == [http_resp_code |-> "none", http_error |-> FALSE,
              content_length |-> 0, has_location |-> FALSE]

\* The buffer after `t` units.  accept() parses the lines that have come in, in
\* order, so how the units were cut makes no difference to it.
Buffer(r, t) ==
    LET parsed[n \in 0..Len(Lines(r))] ==
            IF n = 0 THEN NewBuffer
            ELSE ParseLine(parsed[n - 1], Lines(r)[n], r.body)
    IN  parsed[LinesIn(r, t)]

\* unaccepted_content_size() is 0: nothing is there beyond the lines that were
\* parsed but as much as the length that was announced.
Accepted(r, t) == t = 2 * LinesIn(r, t) + Buffer(r, t).content_length

\* get_redirect_location, the empty string without the header
GetRedirectLocation(b) == IF b.has_location THEN reply.location ELSE <<>>

\* What parse_location can make of redirects, and where it, or the URL of a name
\* node, leads.
Redirection == UNION {ParseLocation(l) : l \in Location \cup {<<>>}}

FileQuery == {l.query : l \in Redirection} \cup {<<>>}

NoEndpoint == [domain |-> <<>>, port |-> <<>>]

Endpoint ==
    (UNION {ParseUrl(u) : u \in NameNode})
        \cup {l.endpoint : l \in Redirection} \cup {NoEndpoint}

-----------------------------------------------------------------------------
\* `holds` says whether the handler carries a pointer to the reader.
NoOp == [kind |-> "none", st |-> "none", holds |-> FALSE]

Op == [kind : {"resolve", "connect", "send", "read"},
       st : {"pending", "ok", "failed"}, holds : BOOLEAN]

\* The timeout of the reader is 0: the timer only ticks.
NoTimer == [st |-> "none", holds |-> FALSE]

Timer == [st : {"pending", "ok", "failed"}, holds : BOOLEAN]

\* A handler that is queued with success stays so.
Cancelled(o) == IF o.st = "pending" THEN [o EXCEPT !.st = "failed"] ELSE o

\* An operation that is started now.  On a reader that has stopped the socket
\* is closed, and only async_connect opens it again.
Started(kind) ==
    [kind : {kind},
     st : IF kind = "resolve" THEN {"pending"}
          ELSE IF stop_inited /\ kind # "connect" THEN {"failed"}
          ELSE {"pending", "ok", "failed"},
     holds : {~stop_inited}]

\* A handler leaves operation o and wait t and returns.  A stopped reader that
\* no handler points to is destructed, which cancels them.
Leaves(o, t, stopped) ==
    LET living == ~stopped \/ o.holds \/ t.holds
    IN  /\ stop_inited' = stopped
        /\ alive' = living
        /\ op' = IF living THEN o ELSE Cancelled(o)
        /\ timer' = IF living THEN t ELSE Cancelled(t)

\* stop(), of which only the first call has an effect: finish() cancels the timer.
StopsWith(o) ==
    Leaves(o, IF stop_inited THEN timer ELSE Cancelled(timer), TRUE)

\* _cb and stop()
ReportAndStop(result) ==
    /\ called' = Append(called, result)
    /\ StopsWith(NoOp)

\* The handler starts an operation.
GoesOn(kind) ==
    /\ \E o \in Started(kind) : Leaves(o, timer, stop_inited)
    /\ UNCHANGED called

\* The handler of an operation of this kind runs with this result.  One that holds
\* no pointer was started behind the stop, which had queued the timer's handler
\* if it was not queued already: that runs first, and the reader is destructed.
Runs(kind, st) == alive /\ op.holds /\ op.kind = kind /\ op.st = st

-----------------------------------------------------------------------------
\* begin: the timer is started.  The reader resolves the name node, or stops at
\* once when its URL says nothing.
Init ==
    /\ name_node_in_process = TRUE
    /\ reply = [head |-> "200", location |-> <<>>, announced |-> FALSE, body |-> 0]
    /\ top = 0
    /\ file_query = <<>>
    /\ request = [host |-> <<>>, path |-> <<>>]
    /\ redirect = <<>>
    /\ alive = TRUE
    /\ \E url \in NameNode :
          \/ /\ endpoint \in ParseUrl(url)
             /\ op = [kind |-> "resolve", st |-> "pending", holds |-> TRUE]
             /\ timer = [st |-> "pending", holds |-> TRUE]
             /\ called = <<>>
             /\ stop_inited = FALSE
          \/ /\ ParseUrl(url) = {}
             /\ endpoint = NoEndpoint
             /\ op = NoOp
             /\ timer = [st |-> "failed", holds |-> TRUE]
             /\ called = <<"error">>
             /\ stop_inited = TRUE

\* _on_error, from any handler whose operation has failed.
OpFailed ==
    /\ \E kind \in {"resolve", "connect", "send", "read"} : Runs(kind, "failed")
    /\ ReportAndStop("error")
    /\ UNCHANGED <<name_node_in_process, reply, top, endpoint, file_query, request, redirect>>

Resolved ==
    /\ Runs("resolve", "ok")
    /\ GoesOn("connect")
    /\ UNCHANGED <<name_node_in_process, reply, top, endpoint, file_query, request, redirect>>

\* _get_data_node_loc and _get_file.  The path of the file on the name node, which
\* no answer changes, is left out.
Request ==
    [host |-> endpoint.domain,
     path |-> IF name_node_in_process THEN <<>> ELSE file_query]

\* _on_connected: the request is sent.
Connected ==
    /\ Runs("connect", "ok")
    /\ request' = Request
    /\ GoesOn("send")
    /\ UNCHANGED <<name_node_in_process, reply, top, endpoint, file_query, redirect>>

\* The server makes a reply, and the reader starts to receive it.
Sent ==
    /\ Runs("send", "ok")
    /\ reply' \in Reply
    /\ top' = 0
    /\ GoesOn("read")
    /\ UNCHANGED <<name_node_in_process, endpoint, file_query, request, redirect>>

\* The redirect is followed: to its server, for its path.
Follows(location) ==
    /\ redirect' = location
    /\ name_node_in_process' = FALSE
    /\ \E to \in ParseLocation(location) :
          endpoint' = to.endpoint /\ file_query' = to.query

Stays == UNCHANGED <<name_node_in_process, endpoint, file_query, redirect>>

\* Mutants of OnGetRespond: have_error() is not checked; the return behind the
\* report of a bad location is missing.
OnGetRespondMutantNoErrorCheck(b) ==
    LET location == GetRedirectLocation(b)
    IN  IF b.http_resp_code # "307"
        THEN ReportAndStop("content") /\ Stays
        ELSE IF ~name_node_in_process \/ ParseLocation(location) = {}
        THEN /\ called' = Append(called, "error")
             /\ Leaves(NoOp, timer, stop_inited)
             /\ Stays
        ELSE Follows(location) /\ GoesOn("resolve")

OnGetRespondMutantNoReturn(b) ==
    LET location == GetRedirectLocation(b)
    IN  IF b.http_error
        THEN ReportAndStop("error") /\ Stays
        ELSE IF b.http_resp_code # "307"
        THEN ReportAndStop("content") /\ Stays
        ELSE IF ParseLocation(location) = {}
        THEN /\ called' = Append(called, "error")
             /\ \E o \in Started("resolve") : Leaves(o, timer, stop_inited)
             /\ name_node_in_process' = FALSE
             /\ UNCHANGED <<endpoint, file_query, redirect>>
        ELSE Follows(location) /\ GoesOn("resolve")

\* _on_get_respond: a redirect that is not expected, or that leads nowhere, is
\* reported, and the handler returns without stopping the reader.
OnGetRespond(b) ==
    LET location == GetRedirectLocation(b)
    IN  IF b.http_error
        THEN ReportAndStop("error") /\ Stays
        ELSE IF b.http_resp_code # "307"
        THEN ReportAndStop("content") /\ Stays
        ELSE IF ~name_node_in_process \/ ParseLocation(location) = {}
        THEN /\ called' = Append(called, "error")
             /\ Leaves(NoOp, timer, stop_inited)
             /\ Stays
        ELSE Follows(location) /\ GoesOn("resolve")

\* Units of the reply come in: it is read on or taken for complete.
Received ==
    /\ Runs("read", "ok")
    /\ \E t \in (top + 1)..Size(reply) :
          /\ top' = t
          /\ IF Accepted(reply, t)
             THEN OnGetRespond(Buffer(reply, t))
             ELSE /\ GoesOn("read")
                  /\ op'.st = "ok" => t < Size(reply)
                  /\ Stays
    /\ UNCHANGED <<reply, request>>

\* A handler without a pointer runs after the reader was destructed.  It uses a
\* freed object; of what that can do the model keeps that the callback is still
\* called, or that it is not.
RunsOnDestructed ==
    /\ ~alive
    /\ op.st \in {"ok", "failed"}
    /\ op' = NoOp
    /\ called' \in {called, Append(called, "error")}
    /\ UNCHANGED <<name_node_in_process, timer, reply, top, stop_inited, alive,
                   endpoint, file_query, request, redirect>>

Handler ==
    \/ OpFailed
    \/ Resolved \/ Connected \/ Sent \/ Received
    \/ RunsOnDestructed

\* reset_and_start_timer, from its own handler: the wait is started again, also on
\* a reader that has stopped, without a pointer then.
Restarted == [st |-> "pending", holds |-> ~stop_inited]

Tick ==
    /\ alive
    /\ timer.st \in {"ok", "failed"}
    /\ Leaves(op, IF timer.st = "ok" THEN Restarted ELSE NoTimer, stop_inited)
    /\ UNCHANGED <<name_node_in_process, reply, top, called,
                   endpoint, file_query, request, redirect>>

\* The handler of a wait that was aborted returns at once; that of one which has
\* expired uses a freed object.
TickOnDestructed ==
    /\ ~alive
    /\ timer.st \in {"ok", "failed"}
    /\ timer' \in {NoTimer} \cup (IF timer.st = "ok" THEN {Restarted} ELSE {})
    /\ UNCHANGED <<name_node_in_process, op, reply, top, called, stop_inited, alive,
                   endpoint, file_query, request, redirect>>

TimerHandler == Tick \/ TickOnDestructed

-----------------------------------------------------------------------------
\* The operation has its result.  A reply that was received whole brings no
\* more units.
Complete ==
    /\ op.st = "pending"
    /\ \E st \in {"ok", "failed"} :
          /\ op.kind = "read" /\ st = "ok" => top < Size(reply)
          /\ op' = [op EXCEPT !.st = st]
    /\ UNCHANGED <<name_node_in_process, timer, reply, top, called, stop_inited, alive,
                   endpoint, file_query, request, redirect>>

\* The timer expires.
Expire ==
    /\ timer.st = "pending"
    /\ timer' = [timer EXCEPT !.st = "ok"]
    /\ UNCHANGED <<name_node_in_process, op, reply, top, called, stop_inited, alive,
                   endpoint, file_query, request, redirect>>

\* Mutant of Stop: _ev_finish does not close the socket.
StopMutantSocketOpen ==
    /\ ~stop_inited
    /\ StopsWith(op)
    /\ UNCHANGED <<name_node_in_process, reply, top, called,
                   endpoint, file_query, request, redirect>>

\* The acceptor stops the reader: the socket is closed by _ev_finish, a resolve
\* that is under way goes on.
Stop ==
    /\ ~stop_inited
    /\ StopsWith(IF op.kind = "resolve" THEN op ELSE Cancelled(op))
    /\ UNCHANGED <<name_node_in_process, reply, top, called,
                   endpoint, file_query, request, redirect>>

Next == Handler \/ TimerHandler \/ Complete \/ Expire \/ Stop

Spec == Init /\ [][Next]_vars

\* Queued handlers are run, and a resolve returns.  The servers owe nothing.
Fairness ==
    /\ WF_vars(Handler)
    /\ WF_vars(TimerHandler)
    /\ WF_vars(op.kind = "resolve" /\ Complete)

FairSpec == Spec /\ Fairness

-----------------------------------------------------------------------------
\* Every variable stays within its type.
TypeOK ==
    /\ name_node_in_process \in BOOLEAN
    /\ op \in Op \cup {NoOp}
    /\ timer \in Timer \cup {NoTimer}
    /\ reply \in Reply
    /\ top \in Nat
    /\ called \in Seq({"error", "content"})
    /\ stop_inited \in BOOLEAN
    /\ alive \in BOOLEAN
    /\ endpoint \in Endpoint
    /\ file_query \in FileQuery
    /\ request \in [host : {e.domain : e \in Endpoint}, path : FileQuery]
    /\ redirect \in Location \cup {<<>>}

\* The callback is called at most once, nothing is outstanding once it was, and
\* until it was the reader has an operation whose handler will come to it: no
\* path through redirects, errors and stops forgets it or reports twice.
ReportsOnce ==
    /\ Len(called) <= 1
    /\ called # <<>> => op = NoOp
    /\ alive /\ called = <<>> => op # NoOp

\* Content is reported only from a reply whose status line was read, and which
\* is no redirect; once its header has been read, only with the whole body that
\* was announced.
ContentIsSound ==
    called = <<"content">> =>
        /\ reply.head = "200"
        /\ reply.announced /\ LinesIn(reply, top) = Len(Lines(reply)) =>
              top = Size(reply)

\* protocol://domain:port/path, which is how a name node redirects.
WellFormed(url) ==
    \E i, j, k \in DOMAIN url :
        /\ 1 < i /\ i + 3 < j /\ j + 1 < k
        /\ \A n \in 1..i - 1 : url[n] \notin {":", "/"}
        /\ SubSeq(url, i, i + 2) = <<":", "/", "/">>
        /\ \A n \in i + 3..j - 1 : url[n] \notin {":", "/"}
        /\ url[j] = ":"
        /\ \A n \in j + 1..k - 1 : url[n] \in Digit
        /\ url[k] = "/"

\* A redirect is followed or reported.  What is sent after it goes to the server
\* it names and asks for the path it names.  Where the reader is left with no
\* operation and is not stopped, so that only the stop of the acceptor frees it,
\* it has reported a redirect, which was its second one or, when its header had
\* been read, was not of the usual form (_on_get_respond, parse_location).
RedirectFollowed ==
    /\ ~name_node_in_process /\ op.kind \in {"send", "read"} =>
          \E n \in 0..Len(redirect) :
             redirect = SubSeq(redirect, 1, n) \o <<":", "/", "/">> \o request.host
                           \o <<":">> \o endpoint.port \o request.path
    /\ ~stop_inited /\ op = NoOp =>
          /\ called = <<"error">> /\ reply.head = "307"
          /\ name_node_in_process /\ LinesIn(reply, top) = Len(Lines(reply)) =>
                ~WellFormed(reply.location)

\* A reader that is stopped only winds up: nothing that could keep it is started
\* any more, of what still keeps it a resolve comes to its result and the rest has
\* it, and the handler that lets go of it last, be it the operation's or the
\* timer's, leaves nothing pending (_ev_finish, wrap_asio_cb, finish).
StoppedOnlyWindsUp ==
    [][stop_inited =>
          /\ op'.holds =>
                \/ op' = op
                \/ op.kind = "resolve" /\ op.st = "pending" /\ op.holds
                   /\ op'.kind = "resolve" /\ op'.st # "pending"
          /\ timer'.holds => timer' = timer /\ timer.st # "pending"
          /\ alive /\ ~alive' => op'.st # "pending" /\ timer'.st # "pending"]_vars

\* A reader that is stopped comes to rest.
StoppedRests == stop_inited ~> (op = NoOp /\ ~alive)

=============================================================================
