---------------------------- MODULE AEvDnsClient ----------------------------
(***************************************************************************)
(* One DNS query: aev::AEvDnsClient, an event that sends a request, waits  *)
(* for one package and tells its callback, with the DnsBuffer that holds   *)
(* the request, what was received, and the respond parsed from it.         *)
(*                                                                         *)
(* A handler that was queued with success is run whatever happens before.  *)
(* What interleaves is the one operation, the timer, and the parent that   *)
(* stops the query.  The network loses, delays and duplicates packages,    *)
(* and brings packages of others.                                          *)
(***************************************************************************)
EXTENDS DnsUtils, DnsServer

CONSTANTS
    Query,   \* what may be asked: a name and a type
    Id,      \* identifiers of packages
    Reply    \* what a server knows: an error code, records, if it compresses

\* A record as it stands in a zone: an address with its text, and a preference for
\* a mail server only.
InZone(r) ==
    /\ Known(r.answer)
    /\ r.type = 1 => Len(r.ip) = 4 /\ r.answer = [k \in 1..4 |-> Decimal(r.ip[k])]
    /\ r.type # 15 => r.preference = 0

ASSUME DnsAssumption ==
    /\ Id \subseteq 1..2^16 - 2
    /\ Query \subseteq [name : Name, type : Short]
    /\ Reply \subseteq [rcode : 0..15, compress : BOOLEAN, records : Seq(ZoneRecord)]
    /\ \A reply \in Reply : \A i \in DOMAIN reply.records : InZone(reply.records[i])

VARIABLES
    query,
    timeout,      \* the event was created with a timeout
    request,      \* the package that was written into the buffer
    req,          \* DnsBuffer::_request
    op,           \* the operation outstanding, or whose handler is queued
    timer,
    arrived,      \* the package that the receive operation has brought
    stop_inited,  \* since then the socket is closed, the respond withdrawn
    reports,      \* what ret_function_cb was called with
    crashed       \* nothing can be said of the program any more

vars == <<query, timeout, request, req, op, timer, arrived, stop_inited,
          reports, crashed>>

-----------------------------------------------------------------------------
\* What the server is asked.
Question(q) ==
    [name |-> IF q.type = 12 THEN Reverse(q.name) \o InAddrArpa ELSE q.name,
     type |-> q.type]

\* What release() makes available for a package, and what reset() has reserved.
max_pkg_size == 512
BasicBlockSize == 1024

\* The bytes that are received of a package: as many as are available.
Received(bytes) ==
    IF Len(bytes) <= max_pkg_size THEN bytes ELSE SubSeq(bytes, 1, max_pkg_size)

\* A package that arrives: what its sender meant, if it is received whole, and
\* the bytes of it that are.
Package(i, reply) ==
    LET sent == WireRespond(i, reply.rcode, Question(query), reply.records, reply.compress)
    IN  [id |-> i, reply |-> reply,
         whole |-> Len(sent) <= max_pkg_size, bytes |-> Received(sent)]

NoOp == [kind |-> "none", st |-> "none"]

\* An operation that is started; on a closed socket it fails at once.
Started(kind) == [kind |-> kind, st |-> IF stop_inited THEN "failed" ELSE "pending"]

\* rand_qid: a number from 1 to 65534
RandQid == Id

Init ==
    /\ query \in Query
    /\ timeout \in BOOLEAN
    /\ request = <<>>
    /\ req = <<>>
    /\ op = NoOp
    /\ timer = "new"
    /\ arrived = <<>>
    /\ stop_inited = FALSE
    /\ reports = <<>>
    /\ crashed = FALSE

\* Mutant of Stop: it does not matter whether it was called before.
StopMutantAgain(err, alist) ==
    /\ stop_inited' = TRUE
    /\ reports' = Append(reports, [err |-> err, alist |-> alist])

\* stop(), with _ev_stop() and _ev_finish().  The callback gets the member err,
\* which is noerror until the timer or a respond sets it, and the respond.
Stop(err, alist) ==
    /\ stop_inited' = TRUE
    /\ reports' = IF stop_inited THEN reports
                  ELSE Append(reports, [err |-> err, alist |-> alist])

\* finish() cancels the pending wait; a handler in the queue stays there.
TimerCancelled == timer' = IF timer = "queued" THEN "queued" ELSE "off"

\* _ev_finish() closes the socket, which fails its pending operation.
Closed == op' = IF op.st = "pending" THEN [op EXCEPT !.st = "failed"] ELSE op

\* DnsBuffer::prepare_for_request(), of a name that is not refused.  A request
\* that is longer than the bytes available is not accepted, which nobody looks
\* at: an empty package is left to send.
PrepareForRequest ==
    /\ req' \in {DnsRequest(id, query.name, query.type) : id \in RandQid}
    /\ request' = IF Len(RequestWritten(req')) <= max_pkg_size
                  THEN RequestWritten(req') ELSE <<>>

\* request_buff_write() writes beyond what is reserved.
Overruns(req_) == Len(RequestWritten(req_)) > BasicBlockSize

\* begin(): the timer is started, and _send_request() writes the request and
\* sends it, or stops when it is refused.
Begin ==
    /\ timer = "new"
    /\ IF ReqStrErr(query.name, query.type)
       THEN Stop("noerror", <<>>) /\ TimerCancelled /\ UNCHANGED <<request, req, op, crashed>>
       ELSE /\ PrepareForRequest
            /\ crashed' = Overruns(req')
            /\ op' = IF crashed' THEN NoOp ELSE Started("send")
            /\ timer' = IF timeout THEN "pending" ELSE "off"
            /\ UNCHANGED <<stop_inited, reports>>
    /\ UNCHANGED <<query, timeout, arrived>>

\* The network takes the request.  It brings the reply of the server, which
\* knows the name if it can be sent, or a package with another identifier,
\* or nothing.  Operations fail.
Complete ==
    /\ op.st = "pending"
    /\ \/ op' = [op EXCEPT !.st = "ok"] /\ op.kind = "send" /\ UNCHANGED arrived
       \/ /\ op' = [op EXCEPT !.st = "ok"]
          /\ op.kind = "receive"
          /\ \E i \in Id, reply \in Reply :
                /\ i = req.id => Known(Question(query).name)
                /\ arrived' = Package(i, reply)
       \/ op' = [op EXCEPT !.st = "failed"] /\ UNCHANGED arrived
    /\ UNCHANGED <<query, timeout, request, req, timer, stop_inited, reports, crashed>>

TimerExpires ==
    /\ timer = "pending"
    /\ timer' = "queued"
    /\ UNCHANGED <<query, timeout, request, req, op, arrived, stop_inited, reports, crashed>>

-----------------------------------------------------------------------------
Runs(kind, st) == ~crashed /\ op = [kind |-> kind, st |-> st]

\* The handler of the send: _get_respond() resets the buffer and receives.
RequestSent ==
    /\ Runs("send", "ok")
    /\ op' = Started("receive")
    /\ UNCHANGED <<timer, stop_inited, reports, crashed>>

\* DnsBuffer::read_respond()
Parsed == RespondParsed(arrived.bytes, req.id)

\* The handler of the receive: read_respond() and stop().  A respond that was
\* withdrawn by an earlier stop is a null pointer, which the parser writes to.
RespondReceived ==
    /\ Runs("receive", "ok")
    /\ op' = NoOp
    /\ IF stop_inited \/ Parsed = {}
       THEN crashed' = TRUE /\ UNCHANGED <<timer, stop_inited, reports>>
       ELSE \E respond \in Parsed :
               Stop(respond.error, respond.alist) /\ TimerCancelled /\ UNCHANGED crashed

\* The handler of an operation that has failed.
OperationFailed ==
    /\ Runs("send", "failed") \/ Runs("receive", "failed")
    /\ op' = NoOp
    /\ Stop("noerror", <<>>)
    /\ TimerCancelled
    /\ UNCHANGED crashed

\* Mutant of Timeout: the handler does not stop the query.
TimeoutMutantGoesOn ==
    /\ ~crashed
    /\ timer = "queued"
    /\ timer' = "off"
    /\ UNCHANGED <<op, stop_inited, reports, crashed>>

\* The handler of the timer: _ev_timeout() and stop().
Timeout ==
    /\ ~crashed
    /\ timer = "queued"
    /\ timer' = "off"
    /\ Stop("timeout_err", <<>>)
    /\ Closed
    /\ UNCHANGED crashed

\* The parent stops the query.
StopFromAbove ==
    /\ ~crashed
    /\ timer # "new"
    /\ ~stop_inited
    /\ Stop("noerror", <<>>)
    /\ TimerCancelled
    /\ Closed
    /\ UNCHANGED crashed

Handler ==
    /\ RequestSent \/ RespondReceived \/ OperationFailed \/ Timeout
    /\ UNCHANGED <<query, timeout, request, req, arrived>>

Next ==
    \/ Begin
    \/ Complete
    \/ TimerExpires
    \/ Handler
    \/ StopFromAbove /\ UNCHANGED <<query, timeout, request, req, arrived>>

Spec == Init /\ [][Next]_vars

\* A query that is created is begun, time passes, and queued handlers are run.
\* The network owes nothing.
FairSpec == Spec /\ WF_vars(Begin) /\ WF_vars(TimerExpires) /\ WF_vars(Handler)

-----------------------------------------------------------------------------
\* A package that was received whole, of the types the parser knows, without the
\* name of the root, by which a server says that a domain takes no mail (RFC 7505).
Readable(package) ==
    /\ package.whole
    /\ LET records == package.reply.records
       IN  \A i \in DOMAIN records :
              records[i].type \in {1, 12, 15} /\ records[i].answer # <<>>

\* The request is the question that was meant, as RFC 1035 has it, for every name
\* that passes is_fqdn and can be known, of up to 255 bytes: for PTR the octets
\* backwards below in-addr.arpa.  It is never too long for the 512 bytes of the
\* buffer (create_request, request_buff_write, prepare_for_request).
RequestUnderstood ==
    req # <<>> /\ Known(Question(query).name) =>
        request = WireRequest(req.id, Question(query))

\* A readable reply is reported exactly, compressed or not; records are reported
\* of no other query; and what get_mx_sorted and get_rand_rec_value choose from
\* them is in the reply, the most preferred mail server first (DnsUtils.cpp).
AnswersExact ==
    \A i \in DOMAIN reports :
        LET alist == reports[i].alist
            sent == Meaning(Question(query), arrived.reply.records)
            best == {j \in DOMAIN sent : \A k \in DOMAIN sent :
                        sent[j].preference <= sent[k].preference}
        IN  reports[i].err = "noerror" /\ alist # <<>> =>
                /\ arrived.id = req.id
                /\ arrived.reply.rcode = 0
                /\ Readable(arrived) =>
                      /\ alist = sent
                      /\ RandRecValue(alist) \subseteq {sent[j].answer : j \in DOMAIN sent}
                      /\ GetMxSorted(alist)[Min(DOMAIN GetMxSorted(alist))]
                            = sent[Min(best)].answer

\* The callback is called once, by whichever of a package, a failure, the timer
\* and the parent is the first to stop the query; an error comes without
\* records; and a query for a name that can be known that gets a readable reply
\* ends the program only behind the report, when the reply was queued as the
\* query stopped (stop, _ev_finish, read_respond).
ReportedOnce ==
    /\ Len(reports) = IF stop_inited THEN 1 ELSE 0
    /\ \A i \in DOMAIN reports : reports[i].err # "noerror" => reports[i].alist = <<>>
    /\ crashed /\ Known(Question(query).name) /\ Readable(arrived) => reports # <<>>

\* A query that was begun and has not reported is waited for: an operation of it
\* is outstanding or has its handler in the queue and, if it has a timeout, so
\* has its timer; only a request or a reply that does not fit the buffer, and a
\* reply that is not readable, end this otherwise (_ev_begin, _get_respond).
UnreportedIsAwaited ==
    reports = <<>> /\ ~crashed /\ timer # "new" =>
        /\ op # NoOp
        /\ timeout => timer \in {"pending", "queued"}

\* A query with a timeout reports, whatever the network does, unless it writes or
\* parses what ends the program (_ev_timeout).
ReportsInTime == timeout ~> reports # <<>> \/ crashed

=============================================================================
