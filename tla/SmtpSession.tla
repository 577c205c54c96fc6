---------------------------- MODULE SmtpSession ----------------------------
(***************************************************************************)
(* One SMTP connection: aev::AEvSmtpSession with the command handlers of   *)
(* smtp::BaseMod and the state they work on, smtp::IncSmtpState.           *)
(*                                                                         *)
(* A read delivers a batch of complete command lines (what splits the byte *)
(* stream is PBufferAbstract).  The handler of the read answers the whole  *)
(* batch before it returns: `busy` is set meanwhile, and no other handler  *)
(* runs.  What interleaves is everything else: replies are sent by         *)
(* concurrent async_send operations, whose handlers are queued behind, or  *)
(* ahead of, the handler of the next read, and any of them may fail and    *)
(* stop the session while handlers that succeeded are still in the queue.  *)
(***************************************************************************)
EXTENDS Naturals, Sequences, FiniteSets

CONSTANTS Addr,      \* addresses a client may name as recipients
          NoAddr,    \* no recipient
          UintMax,   \* the largest unsigned int
          MaxBatch,  \* bound: command lines one read delivers
          MaxSends,  \* bound: replies on their way before the client is served
          MaxMsgs    \* bound: messages handed over

ASSUME SmtpAssumption ==
    /\ NoAddr \notin Addr
    /\ UintMax \in Nat \ {0}
    /\ MaxBatch \in Nat
    /\ MaxSends \in Nat
    /\ MaxMsgs \in Nat

VARIABLES
    hello,            \* client_hello.inited
    mailform,         \* mailform.inited
    recipients,       \* recipients.list
    unsended_responds,
    waiting_for_data,
    lines_list,       \* command lines read and not yet answered
    busy,             \* inside _begin_transaction
    sends,            \* replies given to async_send, handler not yet run
    reads,            \* read operations, handler not yet run
    stop_inited,
    messages          \* what _rcv_msg_handler was given

state == <<hello, mailform, recipients, unsended_responds, waiting_for_data>>
vars == <<hello, mailform, recipients, unsended_responds, waiting_for_data,
          lines_list, busy, sends, reads, stop_inited, messages>>

-----------------------------------------------------------------------------
\* A command line: its verb, whether its arguments parse, and the recipient.
\* "other" is any command that is answered and changes nothing (VRFY, HELP,
\* NOOP); "unknown" is any verb without a handler.
Cmd ==
    [verb : {"helo", "ehlo", "mail", "data"}, ok : BOOLEAN, addr : {NoAddr}]
        \cup [verb : {"rset", "quit", "other", "unknown"}, ok : {TRUE}, addr : {NoAddr}]
        \cup [verb : {"rcpt"}, ok : {TRUE}, addr : Addr]
        \cup [verb : {"rcpt"}, ok : {FALSE}, addr : {NoAddr}]

Envelope == [hello : BOOLEAN, mailform : BOOLEAN, recipients : SUBSET Addr]

\* An operation is pending, or its handler is queued with success or failure.
\* The handler of the reply to an accepted RCPT carries the confirm function.
Result == {"pending", "ok", "failed"}

Send == [code : {"positive", "negative"}, confirm : Addr \cup {NoAddr},
         st : Result]

\* What a successful read brings: command lines, or whether the data it brings
\* completes the message.
Read == [kind : {"cmd"}, st : Result, batch : Seq(Cmd)]
            \cup [kind : {"data"}, st : Result, complete : BOOLEAN]

CmdRead(st, batch) == [kind |-> "cmd", st |-> st, batch |-> batch]

DataRead(st, complete) == [kind |-> "data", st |-> st, complete |-> complete]

\* Arithmetic of unsigned int.
Incremented(n) == IF n = UintMax THEN 0 ELSE n + 1

Decremented(n) == IF n = 0 THEN UintMax ELSE n - 1

\* Mutant of Cancelled: _ev_stop does not cancel the socket.
CancelledMutantLeft(ops) == [i \in DOMAIN ops |-> ops[i]]

Cancelled(ops) ==
    [i \in DOMAIN ops |->
        IF ops[i].st = "pending" THEN [ops[i] EXCEPT !.st = "failed"] ELSE ops[i]]

-----------------------------------------------------------------------------
\* async_send starts at once when no earlier reply is waiting for the socket;
\* on a socket that _ev_stop has closed it fails at once.
SendResults ==
    IF stop_inited THEN {"failed"}
    ELSE IF \E i \in DOMAIN sends : sends[i].st = "pending" THEN {"pending"}
    ELSE Result

\* _send_respond
Sent(code, confirm) ==
    {Append(sends, [code |-> code, confirm |-> confirm, st |-> st]) :
        st \in SendResults}

SendRespond(code, confirm) == sends' \in Sent(code, confirm)

ReadResult == IF stop_inited THEN "failed" ELSE "pending"

\* _read_command and _read_data
StartRead(read) == reads' = Append(reads, read)

ReadCommand == StartRead(CmdRead(ReadResult, <<>>))

ReadData == StartRead(DataRead(ReadResult, FALSE))

\* stop(): the socket is cancelled and closed.
StopWith(ss, rs) ==
    IF stop_inited
    THEN sends' = ss /\ reads' = rs /\ UNCHANGED stop_inited
    ELSE /\ stop_inited' = TRUE
         /\ sends' = Cancelled(ss)
         /\ reads' = Cancelled(rs)

-----------------------------------------------------------------------------
\* _ev_begin: the greeting is sent and the first read is started.
Init ==
    /\ hello = FALSE
    /\ mailform = FALSE
    /\ recipients = {}
    /\ unsended_responds = 0
    /\ waiting_for_data = FALSE
    /\ lines_list = <<>>
    /\ busy = FALSE
    /\ \E st \in Result :
          sends = <<[code |-> "positive", confirm |-> NoAddr, st |-> st]>>
    /\ reads = <<CmdRead("pending", <<>>)>>
    /\ stop_inited = FALSE
    /\ messages = <<>>

\* Mutant of Take: lines that come behind DATA are handled as commands.
TakeMutantDuringData(verb) ==
    /\ busy
    /\ lines_list # <<>>
    /\ Head(lines_list).verb = verb
    /\ lines_list' = Tail(lines_list)

\* The next line is taken off the list by _begin_transaction.
Take(verb) ==
    /\ busy
    /\ lines_list # <<>>
    /\ ~waiting_for_data
    /\ Head(lines_list).verb = verb
    /\ lines_list' = Tail(lines_list)

Parses == Head(lines_list).ok

\* The handler reports an error: the state is as it was.
Refuse ==
    /\ SendRespond("negative", NoAddr)
    /\ UNCHANGED <<state, busy, reads, stop_inited, messages>>

\* The handler sets the reply; `confirm` is run when the reply has been sent.
Accept(confirm) ==
    /\ SendRespond("positive", confirm)
    /\ UNCHANGED <<busy, reads, stop_inited, messages>>

\* close_conn: the reply is given to the socket, then the session stops, and the
\* lines that are left are not looked at.
ReplyAndClose(code) ==
    /\ \E ss \in Sent(code, NoAddr) : StopWith(ss, reads)
    /\ busy' = FALSE
    /\ UNCHANGED <<state, messages>>

Helo ==
    /\ Take("helo")
    /\ IF Parses
       THEN /\ hello' = TRUE
            /\ Accept(NoAddr)
            /\ UNCHANGED <<mailform, recipients, unsended_responds, waiting_for_data>>
       ELSE ReplyAndClose("negative")

\* EHLO is bound to the handler of MAIL, to whose parser it is a syntax error.
Ehlo ==
    /\ Take("ehlo")
    /\ Refuse

Mail ==
    /\ Take("mail")
    /\ IF hello /\ Parses
       THEN /\ mailform' = TRUE
            /\ Accept(NoAddr)
            /\ UNCHANGED <<hello, recipients, unsended_responds, waiting_for_data>>
       ELSE Refuse

\* A new recipient is listed at once; its reply is counted until it was sent.
Rcpt ==
    /\ Take("rcpt")
    /\ LET a == Head(lines_list).addr
       IN IF ~(mailform /\ Parses)
          THEN Refuse
          ELSE IF a \in recipients
          THEN Accept(NoAddr) /\ UNCHANGED state
          ELSE /\ recipients' = recipients \cup {a}
               /\ unsended_responds' = Incremented(unsended_responds)
               /\ Accept(a)
               /\ UNCHANGED <<hello, mailform, waiting_for_data>>

\* Mutants of Data: the replies on their way are not checked; the list of
\* recipients is not checked.
DataMutantUnsettled ==
    /\ Take("data")
    /\ IF recipients # {} /\ Parses
       THEN /\ waiting_for_data' = TRUE
            /\ Accept(NoAddr)
            /\ UNCHANGED <<hello, mailform, recipients, unsended_responds>>
       ELSE Refuse

DataMutantNoRecipients ==
    /\ Take("data")
    /\ IF unsended_responds = 0 /\ Parses
       THEN /\ waiting_for_data' = TRUE
            /\ Accept(NoAddr)
            /\ UNCHANGED <<hello, mailform, recipients, unsended_responds>>
       ELSE Refuse

Data ==
    /\ Take("data")
    /\ IF unsended_responds = 0 /\ recipients # {} /\ Parses
       THEN /\ waiting_for_data' = TRUE
            /\ Accept(NoAddr)
            /\ UNCHANGED <<hello, mailform, recipients, unsended_responds>>
       ELSE Refuse

\* reset_transaction; the count of unsent replies is not part of it.
ResetTransaction ==
    /\ recipients' = {}
    /\ mailform' = FALSE
    /\ waiting_for_data' = FALSE

\* Mutant of Rset: EmailRcpts::reset resets unsended_responds as well.
RsetMutantCountToo ==
    /\ Take("rset")
    /\ ResetTransaction
    /\ unsended_responds' = 0
    /\ Accept(NoAddr)
    /\ UNCHANGED hello

Rset ==
    /\ Take("rset")
    /\ ResetTransaction
    /\ Accept(NoAddr)
    /\ UNCHANGED <<hello, unsended_responds>>

Quit ==
    /\ Take("quit")
    /\ ReplyAndClose("positive")

Other ==
    /\ Take("other")
    /\ Accept(NoAddr)
    /\ UNCHANGED state

Unknown ==
    /\ Take("unknown")
    /\ Refuse

\* Lines that came in one batch behind DATA.
Excess ==
    /\ busy
    /\ lines_list # <<>>
    /\ waiting_for_data
    /\ lines_list' = Tail(lines_list)
    /\ Refuse

\* Mutant of EndOfBatch: the session always goes on reading commands.
EndOfBatchMutantCommands ==
    /\ busy
    /\ lines_list = <<>>
    /\ busy' = FALSE
    /\ ReadCommand
    /\ UNCHANGED <<state, lines_list, sends, stop_inited, messages>>

\* The list is empty: the next read is started and the handler returns.
EndOfBatch ==
    /\ busy
    /\ lines_list = <<>>
    /\ busy' = FALSE
    /\ IF waiting_for_data THEN ReadData ELSE ReadCommand
    /\ UNCHANGED <<state, lines_list, sends, stop_inited, messages>>

-----------------------------------------------------------------------------
\* The socket has a result for a pending operation; sends finish in order.
SocketSends ==
    /\ ~busy
    /\ \E i \in DOMAIN sends :
          /\ sends[i].st = "pending"
          /\ \A j \in 1..(i - 1) : sends[j].st # "pending"
          /\ \E st \in {"ok", "failed"} : sends' = [sends EXCEPT ![i].st = st]
    /\ UNCHANGED <<state, lines_list, busy, reads, stop_inited, messages>>

\* What a read may bring.
Batches == UNION {[1..n -> Cmd] : n \in 0..MaxBatch}

Arrived(read) ==
    {[read EXCEPT !.st = "failed"]} \cup
    IF read.kind = "cmd"
    THEN {CmdRead("ok", batch) : batch \in Batches}
    ELSE {DataRead("ok", complete) : complete \in BOOLEAN}

SocketReads ==
    /\ ~busy
    /\ Len(sends) <= MaxSends
    /\ Len(messages) < MaxMsgs
    /\ \E i \in DOMAIN reads :
          /\ reads[i].st = "pending"
          /\ \E r \in Arrived(reads[i]) : reads' = [reads EXCEPT ![i] = r]
    /\ UNCHANGED <<state, lines_list, busy, sends, stop_inited, messages>>

-----------------------------------------------------------------------------
\* The handler of a reply that was sent: the confirm function runs on whatever
\* state the session has by now.
ReplySent ==
    /\ ~busy
    /\ sends # <<>>
    /\ Head(sends).st = "ok"
    /\ sends' = Tail(sends)
    /\ unsended_responds' = IF Head(sends).confirm # NoAddr
                            THEN Decremented(unsended_responds)
                            ELSE unsended_responds
    /\ UNCHANGED <<hello, mailform, recipients, waiting_for_data, lines_list,
                   busy, reads, stop_inited, messages>>

ReplyFailed ==
    /\ ~busy
    /\ sends # <<>>
    /\ Head(sends).st = "failed"
    /\ StopWith(Tail(sends), reads)
    /\ UNCHANGED <<state, lines_list, busy, messages>>

\* A read has failed.
ReadFailed ==
    /\ ~busy
    /\ reads # <<>>
    /\ Head(reads).st = "failed"
    /\ StopWith(sends, Tail(reads))
    /\ UNCHANGED <<state, lines_list, busy, messages>>

\* Command lines were read: _begin_transaction is entered.
CommandsRead ==
    /\ ~busy
    /\ reads # <<>>
    /\ Head(reads).kind = "cmd"
    /\ Head(reads).st = "ok"
    /\ reads' = Tail(reads)
    /\ lines_list' = lines_list \o Head(reads).batch
    /\ busy' = TRUE
    /\ UNCHANGED <<state, sends, stop_inited, messages>>

DataArrived(complete) ==
    /\ ~busy
    /\ reads # <<>>
    /\ Head(reads).kind = "data"
    /\ Head(reads).st = "ok"
    /\ Head(reads).complete = complete

\* The message goes on: it is read further.
DataPart ==
    /\ DataArrived(FALSE)
    /\ reads' = Append(Tail(reads), DataRead(ReadResult, FALSE))
    /\ UNCHANGED <<state, lines_list, busy, sends, stop_inited, messages>>

\* _data_acceepted: the positive reply is given to the socket, a new state takes
\* the place of the old one, the old one is handed over, and commands are read
\* again unless the session has stopped.
DataAccepted ==
    /\ DataArrived(TRUE)
    /\ SendRespond("positive", NoAddr)
    /\ messages' = Append(messages, [hello |-> hello, mailform |-> mailform,
                                     recipients |-> recipients])
    /\ ResetTransaction
    /\ unsended_responds' = 0
    /\ reads' = IF stop_inited THEN Tail(reads)
                ELSE Append(Tail(reads), CmdRead("pending", <<>>))
    /\ UNCHANGED <<hello, lines_list, busy, stop_inited>>

-----------------------------------------------------------------------------
Transaction ==
    \/ Helo \/ Ehlo \/ Mail \/ Rcpt \/ Data \/ Rset \/ Quit \/ Other \/ Unknown
    \/ Excess
    \/ EndOfBatch

Socket == SocketSends \/ SocketReads

SendHandler == ReplySent \/ ReplyFailed

ReadHandler == ReadFailed \/ CommandsRead \/ DataPart \/ DataAccepted

Next == Transaction \/ Socket \/ SendHandler \/ ReadHandler

Spec == Init /\ [][Next]_vars

\* A handler that runs returns, and queued handlers are run in turn.  Nothing
\* is assumed of the socket: the client may fall silent or stop reading.
Fairness ==
    /\ WF_vars(Transaction)
    /\ SF_vars(SendHandler)
    /\ SF_vars(ReadHandler)

FairSpec == Spec /\ Fairness

-----------------------------------------------------------------------------
\* Every variable stays within its type.
TypeOK ==
    /\ hello \in BOOLEAN
    /\ mailform \in BOOLEAN
    /\ recipients \subseteq Addr
    /\ unsended_responds \in 0..UintMax
    /\ waiting_for_data \in BOOLEAN
    /\ lines_list \in Seq(Cmd)
    /\ busy \in BOOLEAN
    /\ sends \in Seq(Send)
    /\ reads \in Seq(Read)
    /\ stop_inited \in BOOLEAN
    /\ messages \in Seq(Envelope)

RcptReplies == {i \in DOMAIN sends : sends[i].confirm # NoAddr}

\* unsended_responds counts just the replies to accepted RCPT commands that are
\* on their way, although RSET does not reset it, the confirm function runs on
\* whatever state it finds, and the state is replaced after each message.
ConfirmsCounted ==
    ~stop_inited => unsended_responds = Cardinality(RcptReplies)

\* While the session waits for data the envelope is complete and no reply to a
\* RCPT is on its way, not even one that RSET has made obsolete: its confirm
\* function would run on the state that replaces this one.
DataPhaseSettled ==
    waiting_for_data =>
        /\ hello /\ mailform /\ recipients # {}
        /\ unsended_responds = 0
        /\ RcptReplies = {}

\* A recipient is listed only behind a sender, a sender only behind a HELO.
CommandOrder == (recipients # {} => mailform) /\ (mailform => hello)

\* A message is handed over with a complete envelope, also when its last part
\* is handled after the session has stopped.
EnvelopesComplete ==
    \A i \in DOMAIN messages :
        messages[i].hello /\ messages[i].mailform /\ messages[i].recipients # {}

\* Outside a transaction exactly one read is outstanding, for commands or for
\* data as the state requires; inside one there is none.  With none the client
\* is never heard again, with two, or one of the wrong kind, message text would
\* be taken for commands.
OneRead ==
    /\ Len(reads) <= 1
    /\ busy => reads = <<>>
    /\ ~busy /\ ~stop_inited =>
          reads # <<>> /\ Head(reads).kind = IF waiting_for_data THEN "data" ELSE "cmd"

\* The data phase ends only by handing over exactly the envelope it was entered
\* with: no line that came behind DATA, RSET included, changes it.
DataPhaseHandsOver ==
    [][waiting_for_data =>
          IF waiting_for_data'
          THEN UNCHANGED <<hello, mailform, recipients, messages>>
          ELSE messages' = Append(messages, [hello |-> hello, mailform |-> mailform,
                                             recipients |-> recipients])]_vars

\* A session that has stopped waits for nothing, whatever stopped it: no reply
\* and no read is outstanding, also none that handlers queued with success have
\* started behind the stop (_begin_transaction, _read_data, _data_acceepted).
StoppedWaitsForNothing ==
    stop_inited =>
        /\ \A i \in DOMAIN sends : sends[i].st # "pending"
        /\ \A i \in DOMAIN reads : reads[i].st # "pending"

\* Once the session has stopped every operation has its result and the queue
\* drains: no handler that still succeeds keeps the closed connection going.
StoppedDrains ==
    stop_inited ~> (sends = <<>> /\ reads = <<>> /\ ~busy)

=============================================================================
