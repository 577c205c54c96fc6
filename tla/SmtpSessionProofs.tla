------------------------- MODULE SmtpSessionProofs -------------------------
(***************************************************************************)
(* Proofs about SmtpSession for every set of addresses and every bound:    *)
(* type correctness, the order of commands, the discipline of reads, that  *)
(* every message handed over has a complete envelope, for every bound      *)
(* under which the unsigned count does not wrap around that the count of   *)
(* the replies to RCPT is exact, and that a session which has stopped      *)
(* waits for nothing.                                                      *)
(***************************************************************************)
EXTENDS SmtpSession, SequenceTheorems, FiniteSetTheorems, TLAPS

\* The session waits for data only with a recipient.
DataHasRecipient == waiting_for_data => recipients # {}

\* Every read is of the kind the state asks for.
ReadKinds ==
    \A i \in DOMAIN reads : reads[i].kind = IF waiting_for_data THEN "data" ELSE "cmd"

\* How many reads there are.
ReadCount ==
    /\ Len(reads) <= 1
    /\ busy => reads = <<>>
    /\ ~busy /\ ~stop_inited => reads # <<>>

\* The inductive invariant.
IInv ==
    /\ TypeOK
    /\ CommandOrder
    /\ DataHasRecipient
    /\ ReadKinds
    /\ ReadCount
    /\ EnvelopesComplete

-----------------------------------------------------------------------------
\* Replies and reads are records of their types.
LEMMA Records ==
    /\ \A code \in {"positive", "negative"}, c \in Addr \cup {NoAddr}, st \in Result :
          [code |-> code, confirm |-> c, st |-> st] \in Send
    /\ \A st \in Result, b \in Seq(Cmd) :
          CmdRead(st, b) \in Read /\ CmdRead(st, b).kind = "cmd"
    /\ \A st \in Result, b \in BOOLEAN :
          DataRead(st, b) \in Read /\ DataRead(st, b).kind = "data"
BY DEF Send, Read, CmdRead, DataRead

\* Giving a reply to the socket appends a reply.
LEMMA SentType ==
    ASSUME sends \in Seq(Send), NEW code \in {"positive", "negative"},
           NEW c \in Addr \cup {NoAddr}, NEW ss \in Sent(code, c)
    PROVE  ss \in Seq(Send)
<1>1. PICK st \in SendResults : ss = Append(sends, [code |-> code, confirm |-> c, st |-> st])
  BY DEF Sent
<1>2. st \in Result
  BY DEF SendResults, Result
<1>3. PICK x : x = [code |-> code, confirm |-> c, st |-> st]
  OBVIOUS
<1>4. x \in Send
  BY <1>2, <1>3, Records
<1> QED BY <1>1, <1>3, <1>4

\* Cancelling keeps the replies and the reads as they were but for the result.
LEMMA CancelledSends ==
    ASSUME NEW ss \in Seq(Send)
    PROVE  Cancelled(ss) \in Seq(Send)
<1> DEFINE new(i) == IF ss[i].st = "pending" THEN [ss[i] EXCEPT !.st = "failed"] ELSE ss[i]
<1>1. \A i \in 1..Len(ss) : new(i) \in Send
  <2> SUFFICES ASSUME NEW i \in 1..Len(ss) PROVE new(i) \in Send
    OBVIOUS
  <2>1. ss[i] \in Send
    OBVIOUS
  <2> QED BY <2>1 DEF Send, Result
<1>2. Cancelled(ss) = [i \in 1..Len(ss) |-> new(i)]
  BY DEF Cancelled
<1> HIDE DEF new
<1> QED BY <1>1, <1>2

LEMMA CancelledReads ==
    ASSUME NEW rs \in Seq(Read)
    PROVE  /\ Cancelled(rs) \in Seq(Read)
           /\ Len(Cancelled(rs)) = Len(rs)
           /\ \A i \in DOMAIN Cancelled(rs) :
                 i \in DOMAIN rs /\ Cancelled(rs)[i].kind = rs[i].kind
<1> DEFINE new(i) == IF rs[i].st = "pending" THEN [rs[i] EXCEPT !.st = "failed"] ELSE rs[i]
<1>1. \A i \in 1..Len(rs) : new(i) \in Read /\ new(i).kind = rs[i].kind
  <2> SUFFICES ASSUME NEW i \in 1..Len(rs)
               PROVE  new(i) \in Read /\ new(i).kind = rs[i].kind
    OBVIOUS
  <2>1. rs[i] \in Read
    OBVIOUS
  <2>2. CASE rs[i] \in [kind : {"cmd"}, st : Result, batch : Seq(Cmd)]
    BY <2>2 DEF Read, Result
  <2>3. CASE rs[i] \in [kind : {"data"}, st : Result, complete : BOOLEAN]
    BY <2>3 DEF Read, Result
  <2> QED BY <2>1, <2>2, <2>3 DEF Read
<1>2. Cancelled(rs) = [i \in 1..Len(rs) |-> new(i)]
  BY DEF Cancelled
<1> HIDE DEF new
<1> QED BY <1>1, <1>2

\* stop() keeps what the invariant says of replies and reads.
LEMMA StopWithKeeps ==
    ASSUME NEW ss \in Seq(Send), NEW rs \in Seq(Read), stop_inited \in BOOLEAN,
           StopWith(ss, rs)
    PROVE  /\ sends' \in Seq(Send)
           /\ reads' \in Seq(Read)
           /\ Len(reads') = Len(rs)
           /\ \A i \in DOMAIN reads' : i \in DOMAIN rs /\ reads'[i].kind = rs[i].kind
           /\ stop_inited'
<1>1. CASE stop_inited
  BY <1>1 DEF StopWith
<1>2. CASE ~stop_inited
  BY <1>2, CancelledSends, CancelledReads DEF StopWith
<1> QED BY <1>1, <1>2

-----------------------------------------------------------------------------
\* The initial states satisfy the invariant.
LEMMA InitIInv == Init => IInv
<1> SUFFICES ASSUME Init PROVE IInv
  OBVIOUS
<1>1. PICK x : x = CmdRead("pending", <<>>)
  OBVIOUS
<1>2. x \in Read /\ x.kind = "cmd" /\ reads = <<x>>
  <2>1. "pending" \in Result /\ <<>> \in Seq(Cmd)
    BY DEF Result
  <2>2. x \in Read /\ x.kind = "cmd"
    BY <1>1, <2>1, Records
  <2>3. reads = <<x>>
    BY <1>1 DEF Init
  <2> QED BY <2>2, <2>3
<1>3. PICK st \in Result : sends = <<[code |-> "positive", confirm |-> NoAddr, st |-> st]>>
  BY DEF Init
<1>4. PICK y : y = [code |-> "positive", confirm |-> NoAddr, st |-> st]
  OBVIOUS
<1>5. y \in Send /\ sends = <<y>>
  <2>1. y \in Send
    BY <1>4, Records
  <2> QED BY <1>3, <1>4, <2>1
<1>6. TypeOK
  <2>1. sends \in Seq(Send) /\ reads \in Seq(Read)
    BY <1>2, <1>5
  <2>2. lines_list \in Seq(Cmd) /\ messages \in Seq(Envelope)
    BY DEF Init
  <2>3. 0 \in 0..UintMax
    BY SmtpAssumption
  <2> QED BY <2>1, <2>2, <2>3 DEF Init, TypeOK
<1>7. ReadKinds /\ ReadCount
  BY <1>2 DEF Init, ReadKinds, ReadCount
<1>8. CommandOrder /\ DataHasRecipient /\ EnvelopesComplete
  BY DEF Init, CommandOrder, DataHasRecipient, EnvelopesComplete
<1> QED BY <1>6, <1>7, <1>8 DEF IInv

\* Taking a line off the list.
LEMMA TakeFacts ==
    ASSUME TypeOK, lines_list # <<>>
    PROVE  Head(lines_list) \in Cmd /\ Tail(lines_list) \in Seq(Cmd)
BY DEF TypeOK

\* A command that is answered inside a transaction, and does not close the
\* connection, keeps the invariant if the state it leaves is in order.
LEMMA AnswerKeeps ==
    ASSUME IInv, busy,
           lines_list # <<>>, lines_list' = Tail(lines_list),
           NEW code \in {"positive", "negative"}, NEW c \in Addr \cup {NoAddr},
           SendRespond(code, c),
           UNCHANGED <<busy, reads, stop_inited, messages>>,
           hello' \in BOOLEAN, mailform' \in BOOLEAN, recipients' \subseteq Addr,
           unsended_responds' \in 0..UintMax, waiting_for_data' \in BOOLEAN,
           CommandOrder', DataHasRecipient'
    PROVE  IInv'
<1>1. lines_list' \in Seq(Cmd)
  BY TakeFacts DEF IInv
<1>2. sends' \in Seq(Send)
  BY SentType DEF SendRespond, IInv, TypeOK
<1>3. TypeOK'
  BY <1>1, <1>2 DEF IInv, TypeOK
<1>4. ReadKinds' /\ ReadCount'
  BY DEF IInv, ReadKinds, ReadCount
<1>5. EnvelopesComplete'
  BY DEF IInv, EnvelopesComplete
<1> QED BY <1>3, <1>4, <1>5 DEF IInv

\* A command that is refused.
LEMMA RefuseKeeps ==
    ASSUME IInv, busy, lines_list # <<>>, lines_list' = Tail(lines_list), Refuse
    PROVE  IInv'
<1>1. /\ SendRespond("negative", NoAddr)
      /\ UNCHANGED <<state, busy, reads, stop_inited, messages>>
  BY DEF Refuse
<1>2. /\ hello' \in BOOLEAN /\ mailform' \in BOOLEAN /\ recipients' \subseteq Addr
      /\ unsended_responds' \in 0..UintMax /\ waiting_for_data' \in BOOLEAN
  BY <1>1 DEF state, IInv, TypeOK
<1>3. CommandOrder' /\ DataHasRecipient'
  BY <1>1 DEF state, IInv, CommandOrder, DataHasRecipient
<1> QED BY <1>1, <1>2, <1>3, AnswerKeeps

\* A command that closes the connection.
LEMMA CloseKeeps ==
    ASSUME IInv, busy, lines_list # <<>>, lines_list' = Tail(lines_list),
           NEW code \in {"positive", "negative"}, ReplyAndClose(code)
    PROVE  IInv'
<1>1. lines_list' \in Seq(Cmd)
  BY TakeFacts DEF IInv
<1>2. PICK ss \in Sent(code, NoAddr) : StopWith(ss, reads)
  BY DEF ReplyAndClose
<1>3. ss \in Seq(Send)
  BY <1>2, SentType DEF IInv, TypeOK
<1>4. PICK rs : rs = reads
  OBVIOUS
<1>5. /\ sends' \in Seq(Send)
      /\ reads' \in Seq(Read)
      /\ Len(reads') = Len(rs)
      /\ \A i \in DOMAIN reads' : i \in DOMAIN rs /\ reads'[i].kind = rs[i].kind
      /\ stop_inited'
  BY <1>2, <1>3, <1>4, StopWithKeeps DEF IInv, TypeOK
<1>6. UNCHANGED <<state, messages>> /\ ~busy'
  BY DEF ReplyAndClose
<1>7. TypeOK'
  <2>1. stop_inited' \in BOOLEAN
    BY <1>2 DEF StopWith, IInv, TypeOK
  <2>2. busy' = FALSE
    BY DEF ReplyAndClose
  <2> QED BY <1>1, <1>5, <1>6, <2>1, <2>2 DEF IInv, TypeOK, state
<1>8. ReadKinds' /\ ReadCount'
  BY <1>4, <1>5, <1>6 DEF IInv, ReadKinds, ReadCount, state
<1>9. CommandOrder' /\ DataHasRecipient' /\ EnvelopesComplete'
  BY <1>6 DEF IInv, CommandOrder, DataHasRecipient, EnvelopesComplete, state
<1> QED BY <1>7, <1>8, <1>9 DEF IInv

\* Each command of a transaction keeps the invariant.
LEMMA TransactionKeeps ==
    ASSUME IInv, Transaction
    PROVE  IInv'
<1> USE DEF IInv, TypeOK
<1>1. CASE Helo
  <2>1. busy /\ lines_list # <<>> /\ lines_list' = Tail(lines_list)
    BY <1>1 DEF Helo, Take
  <2>2. CASE Parses
    BY <1>1, <2>1, <2>2, AnswerKeeps
       DEF Helo, Accept, CommandOrder, DataHasRecipient
  <2>3. CASE ~Parses
    BY <1>1, <2>1, <2>3, CloseKeeps DEF Helo
  <2> QED BY <2>2, <2>3
<1>2. CASE Ehlo \/ Unknown \/ Excess
  BY <1>2, RefuseKeeps DEF Ehlo, Unknown, Excess, Take
<1>3. CASE Mail
  <2>1. busy /\ lines_list # <<>> /\ lines_list' = Tail(lines_list)
    BY <1>3 DEF Mail, Take
  <2>2. CASE hello /\ Parses
    BY <1>3, <2>1, <2>2, AnswerKeeps
       DEF Mail, Accept, CommandOrder, DataHasRecipient
  <2>3. CASE ~(hello /\ Parses)
    BY <1>3, <2>1, <2>3, RefuseKeeps DEF Mail
  <2> QED BY <2>2, <2>3
<1>4. CASE Rcpt
  <2>1. busy /\ lines_list # <<>> /\ lines_list' = Tail(lines_list)
    BY <1>4 DEF Rcpt, Take
  <2>2. PICK a : a = Head(lines_list).addr
    OBVIOUS
  <2>3. CASE ~(mailform /\ Parses)
    BY <1>4, <2>1, <2>3, RefuseKeeps DEF Rcpt
  <2>4. CASE mailform /\ Parses /\ a \in recipients
    BY <1>4, <2>1, <2>2, <2>4, AnswerKeeps
       DEF Rcpt, Accept, state, CommandOrder, DataHasRecipient
  <2>5. CASE mailform /\ Parses /\ a \notin recipients
    <3>1. a \in Addr
      BY <1>4, <2>1, <2>2, <2>5, TakeFacts DEF Rcpt, Take, Parses, Cmd
    <3>2. Incremented(unsended_responds) \in 0..UintMax
      BY SmtpAssumption DEF Incremented
    <3>3. /\ recipients' = recipients \cup {a}
          /\ unsended_responds' = Incremented(unsended_responds)
          /\ Accept(a)
          /\ UNCHANGED <<hello, mailform, waiting_for_data>>
      BY <1>4, <2>2, <2>5 DEF Rcpt
    <3> QED BY <2>1, <2>5, <3>1, <3>2, <3>3, AnswerKeeps
            DEF Accept, CommandOrder, DataHasRecipient
  <2> QED BY <2>3, <2>4, <2>5
<1>5. CASE Data
  <2>1. busy /\ lines_list # <<>> /\ lines_list' = Tail(lines_list)
    BY <1>5 DEF Data, Take
  <2>2. CASE unsended_responds = 0 /\ recipients # {} /\ Parses
    BY <1>5, <2>1, <2>2, AnswerKeeps
       DEF Data, Accept, CommandOrder, DataHasRecipient
  <2>3. CASE ~(unsended_responds = 0 /\ recipients # {} /\ Parses)
    BY <1>5, <2>1, <2>3, RefuseKeeps DEF Data
  <2> QED BY <2>2, <2>3
<1>6. CASE Rset
  BY <1>6, AnswerKeeps DEF Rset, ResetTransaction, Take, Accept, CommandOrder, DataHasRecipient
<1>7. CASE Quit
  BY <1>7, CloseKeeps DEF Quit, Take
<1>8. CASE Other
  BY <1>8, AnswerKeeps DEF Other, Take, Accept, state, CommandOrder, DataHasRecipient
<1>9. CASE EndOfBatch
  <2>1. PICK r : r = IF waiting_for_data THEN DataRead(ReadResult, FALSE)
                     ELSE CmdRead(ReadResult, <<>>)
    OBVIOUS
  <2>2. r \in Read /\ r.kind = IF waiting_for_data THEN "data" ELSE "cmd"
    <3>1. ReadResult \in Result /\ <<>> \in Seq(Cmd)
      BY DEF ReadResult, Result
    <3> QED BY <2>1, <3>1, Records
  <2>3. reads = <<>> /\ reads' = Append(reads, r)
    BY <1>9, <2>1 DEF EndOfBatch, ReadData, ReadCommand, StartRead, ReadCount
  <2>4. reads' = <<r>>
    BY <2>3
  <2>5. reads' \in Seq(Read) /\ Len(reads') = 1 /\ DOMAIN reads' = {1} /\ reads'[1] = r
    BY <2>2, <2>4
  <2>6. UNCHANGED <<state, lines_list, sends, stop_inited, messages>> /\ busy' = FALSE
    BY <1>9 DEF EndOfBatch
  <2>7. ReadKinds'
    BY <2>2, <2>5, <2>6 DEF ReadKinds, state
  <2>8. ReadCount'
    <3>1. reads' # <<>>
      BY <2>4
    <3> QED BY <2>5, <2>6, <3>1 DEF ReadCount
  <2>9. TypeOK'
    BY <2>5, <2>6 DEF state
  <2>10. CommandOrder' /\ DataHasRecipient' /\ EnvelopesComplete'
    BY <2>6 DEF state, CommandOrder, DataHasRecipient, EnvelopesComplete
  <2> QED BY <2>7, <2>8, <2>9, <2>10
<1> QED
  BY <1>1, <1>2, <1>3, <1>4, <1>5, <1>6, <1>7, <1>8, <1>9 DEF Transaction

-----------------------------------------------------------------------------
\* A read that is replaced by one of its kind, with nothing else changed.
LEMMA SocketKeeps ==
    ASSUME IInv, Socket
    PROVE  IInv'
<1>1. CASE SocketSends
  <2>1. PICK i \in DOMAIN sends, st \in {"ok", "failed"} :
           sends' = [sends EXCEPT ![i].st = st]
    BY <1>1 DEF SocketSends
  <2>2. /\ UNCHANGED <<state, lines_list, busy, reads, stop_inited, messages>>
    BY <1>1 DEF SocketSends
  <2>3. PICK x : x = sends[i]
    OBVIOUS
  <2>4. PICK y : y = [x EXCEPT !.st = st]
    OBVIOUS
  <2>5. x \in Send
    BY <2>3 DEF IInv, TypeOK
  <2>6. y \in Send
    BY <2>4, <2>5 DEF Send, Result
  <2>7. sends' = [sends EXCEPT ![i] = y]
    BY <2>1, <2>3, <2>4
  <2>8. sends' \in Seq(Send)
    BY <2>6, <2>7 DEF IInv, TypeOK
  <2>9. TypeOK'
    BY <2>2, <2>8 DEF IInv, TypeOK, state
  <2> QED BY <2>2, <2>9
          DEF IInv, state, CommandOrder, DataHasRecipient, ReadKinds, ReadCount,
              EnvelopesComplete
<1>2. CASE SocketReads
  <2>0. PICK i \in DOMAIN reads :
           \E r \in Arrived(reads[i]) : reads' = [reads EXCEPT ![i] = r]
    BY <1>2 DEF SocketReads
  <2>1. PICK r \in Arrived(reads[i]) : reads' = [reads EXCEPT ![i] = r]
    BY <2>0
  <2>2. /\ UNCHANGED <<state, lines_list, busy, sends, stop_inited, messages>>
        /\ ~busy
    BY <1>2 DEF SocketReads
  <2>3. PICK x : x = reads[i]
    OBVIOUS
  <2>4. x \in Read
    BY <2>3 DEF IInv, TypeOK
  <2>5. r \in Read /\ r.kind = x.kind
    <3>1. CASE r = [x EXCEPT !.st = "failed"]
      <4>1. CASE x \in [kind : {"cmd"}, st : Result, batch : Seq(Cmd)]
        BY <3>1, <4>1 DEF Read, Result
      <4>2. CASE x \in [kind : {"data"}, st : Result, complete : BOOLEAN]
        BY <3>1, <4>2 DEF Read, Result
      <4> QED BY <2>4, <4>1, <4>2 DEF Read
    <3>2. CASE r # [x EXCEPT !.st = "failed"] /\ x.kind = "cmd"
      <4>1. PICK n \in 0..MaxBatch : \E batch \in [1..n -> Cmd] : r = CmdRead("ok", batch)
        BY <2>1, <2>3, <3>2 DEF Arrived, Batches
      <4>2. PICK batch \in [1..n -> Cmd] : r = CmdRead("ok", batch)
        BY <4>1
      <4>3. batch \in Seq(Cmd)
        BY <4>2, SmtpAssumption
      <4> QED BY <3>2, <4>2, <4>3, Records DEF Result
    <3>3. CASE r # [x EXCEPT !.st = "failed"] /\ x.kind # "cmd"
      <4>1. PICK complete \in BOOLEAN : r = DataRead("ok", complete)
        BY <2>1, <2>3, <3>3 DEF Arrived
      <4>2. x.kind = "data"
        BY <2>4, <3>3 DEF Read
      <4> QED BY <4>1, <4>2, Records DEF Result
    <3> QED BY <3>1, <3>2, <3>3
  <2>6. /\ reads' \in Seq(Read)
        /\ Len(reads') = Len(reads)
        /\ \A j \in DOMAIN reads' : j \in DOMAIN reads /\ reads'[j].kind = reads[j].kind
    BY <2>1, <2>3, <2>5 DEF IInv, TypeOK
  <2>7. TypeOK'
    BY <2>2, <2>6 DEF IInv, TypeOK, state
  <2>8. ReadKinds' /\ ReadCount'
    <3>1. reads # <<>> => reads' # <<>>
      BY <2>6 DEF IInv, TypeOK
    <3> QED BY <2>2, <2>6, <3>1 DEF IInv, ReadKinds, ReadCount, state
  <2> QED BY <2>2, <2>7, <2>8
          DEF IInv, state, CommandOrder, DataHasRecipient, EnvelopesComplete
<1> QED BY <1>1, <1>2 DEF Socket

\* A handler that stops the session with no read more than there was.
LEMMA StoppedKeeps ==
    ASSUME IInv, ~busy, NEW rs \in Seq(Read), Len(rs) <= 1,
           \A i \in DOMAIN rs : rs[i].kind = IF waiting_for_data THEN "data" ELSE "cmd",
           NEW ss \in Seq(Send), StopWith(ss, rs),
           UNCHANGED <<state, lines_list, busy, messages>>
    PROVE  IInv'
<1>1. /\ sends' \in Seq(Send)
      /\ reads' \in Seq(Read)
      /\ Len(reads') = Len(rs)
      /\ \A i \in DOMAIN reads' : i \in DOMAIN rs /\ reads'[i].kind = rs[i].kind
      /\ stop_inited'
  BY StopWithKeeps DEF IInv, TypeOK
<1>2. stop_inited' \in BOOLEAN
  BY DEF StopWith, IInv, TypeOK
<1>3. TypeOK'
  BY <1>1, <1>2 DEF IInv, TypeOK, state
<1>4. ReadKinds' /\ ReadCount'
  BY <1>1 DEF ReadKinds, ReadCount, state
<1>5. CommandOrder' /\ DataHasRecipient' /\ EnvelopesComplete'
  BY DEF IInv, CommandOrder, DataHasRecipient, EnvelopesComplete, state
<1> QED BY <1>3, <1>4, <1>5 DEF IInv

\* The handlers of replies keep the invariant.
LEMMA SendHandlerKeeps ==
    ASSUME IInv, SendHandler
    PROVE  IInv'
<1>1. CASE ReplySent
  <2>1. /\ sends # <<>> /\ sends' = Tail(sends)
        /\ unsended_responds' \in {unsended_responds, Decremented(unsended_responds)}
        /\ UNCHANGED <<hello, mailform, recipients, waiting_for_data, lines_list,
                       busy, reads, stop_inited, messages>>
    BY <1>1 DEF ReplySent
  <2>2. sends' \in Seq(Send)
    BY <2>1 DEF IInv, TypeOK
  <2>3. unsended_responds' \in 0..UintMax
    BY <2>1, SmtpAssumption DEF IInv, TypeOK, Decremented
  <2>4. TypeOK'
    BY <2>1, <2>2, <2>3 DEF IInv, TypeOK
  <2> QED BY <2>1, <2>4
          DEF IInv, CommandOrder, DataHasRecipient, ReadKinds, ReadCount,
              EnvelopesComplete
<1>2. CASE ReplyFailed
  <2>1. PICK ss : ss = Tail(sends)
    OBVIOUS
  <2>2. PICK rs : rs = reads
    OBVIOUS
  <2>3. ss \in Seq(Send) /\ rs \in Seq(Read)
    BY <1>2, <2>1, <2>2 DEF ReplyFailed, IInv, TypeOK
  <2>4. StopWith(ss, rs) /\ UNCHANGED <<state, lines_list, busy, messages>>
    BY <1>2, <2>1, <2>2 DEF ReplyFailed
  <2>5. /\ Len(rs) <= 1
        /\ \A i \in DOMAIN rs : rs[i].kind = IF waiting_for_data THEN "data" ELSE "cmd"
    BY <2>2 DEF IInv, ReadKinds, ReadCount
  <2>6. ~busy
    BY <1>2 DEF ReplyFailed
  <2> QED BY <2>3, <2>4, <2>5, <2>6, StoppedKeeps
<1> QED BY <1>1, <1>2 DEF SendHandler

\* The read whose handler runs is the only one, and of the kind the state asks for.
LEMMA HeadRead ==
    ASSUME IInv, reads # <<>>
    PROVE  /\ Head(reads) \in Read
           /\ Tail(reads) = <<>>
           /\ Head(reads).kind = IF waiting_for_data THEN "data" ELSE "cmd"
<1>1. reads \in Seq(Read) /\ Len(reads) <= 1
  BY DEF IInv, TypeOK, ReadCount
<1>2. Len(reads) = 1
  <2>1. \A rs \in Seq(Read) : rs # <<>> => Len(rs) \in Nat \ {0}
    BY EmptySeq
  <2>2. PICK n \in Nat \ {0} : n = Len(reads)
    BY <1>1, <2>1
  <2>3. n <= 1
    BY <1>1, <2>2
  <2>4. n = 1
    BY <2>3
  <2> QED BY <2>2, <2>4
<1>3. 1 \in DOMAIN reads /\ Head(reads) = reads[1] /\ reads[1] \in Read
  BY <1>1, <1>2
<1>4. Tail(reads) \in Seq(Read) /\ Len(Tail(reads)) = 0
  BY <1>1, <1>2
<1>5. Tail(reads) = <<>>
  <2>1. Tail(reads) # <<>> => Len(Tail(reads)) \in Nat \ {0}
    BY <1>4, EmptySeq
  <2> QED BY <1>4, <2>1
<1> QED BY <1>3, <1>5 DEF IInv, ReadKinds

\* A new read in the place of the one whose handler runs.
LEMMA OneReadStarted ==
    ASSUME NEW r \in Read, NEW s, s = Append(<<>>, r)
    PROVE  /\ s \in Seq(Read) /\ Len(s) = 1 /\ s # <<>>
           /\ \A i \in DOMAIN s : s[i] = r
<1>1. s = <<r>>
  OBVIOUS
<1> QED BY <1>1

\* The handlers of reads keep the invariant.
LEMMA ReadHandlerKeeps ==
    ASSUME IInv, ReadHandler
    PROVE  IInv'
<1>0. reads # <<>> /\ ~busy
  BY DEF ReadHandler, ReadFailed, CommandsRead, DataPart, DataAccepted, ResetTransaction, DataArrived
<1>1. CASE ReadFailed
  <2>1. PICK rs : rs = Tail(reads)
    OBVIOUS
  <2>2. PICK ss : ss = sends
    OBVIOUS
  <2>3. StopWith(ss, rs) /\ UNCHANGED <<state, lines_list, busy, messages>>
    BY <1>1, <2>1, <2>2 DEF ReadFailed
  <2>4. rs = <<>>
    BY <1>0, <2>1, HeadRead
  <2>5. /\ rs \in Seq(Read) /\ Len(rs) <= 1
        /\ \A i \in DOMAIN rs : rs[i].kind = IF waiting_for_data THEN "data" ELSE "cmd"
    BY <2>4
  <2>6. ss \in Seq(Send)
    BY <2>2 DEF IInv, TypeOK
  <2> QED BY <1>0, <2>3, <2>5, <2>6, StoppedKeeps
<1>2. CASE CommandsRead
  <2>1. /\ reads' = <<>>
        /\ lines_list' = lines_list \o Head(reads).batch
        /\ Head(reads).kind = "cmd"
        /\ busy' = TRUE
        /\ UNCHANGED <<state, sends, stop_inited, messages>>
    BY <1>0, <1>2, HeadRead DEF CommandsRead
  <2>2. Head(reads).batch \in Seq(Cmd)
    BY <1>0, <2>1, HeadRead DEF Read
  <2>3. lines_list' \in Seq(Cmd)
    BY <2>1, <2>2 DEF IInv, TypeOK
  <2>4. reads' \in Seq(Read) /\ Len(reads') <= 1 /\ DOMAIN reads' = {}
    BY <2>1
  <2>5. TypeOK'
    BY <2>1, <2>3, <2>4 DEF IInv, TypeOK, state
  <2>6. ReadKinds' /\ ReadCount'
    BY <2>1, <2>4 DEF ReadKinds, ReadCount
  <2> QED BY <2>1, <2>5, <2>6
          DEF IInv, state, CommandOrder, DataHasRecipient, EnvelopesComplete
<1>3. CASE DataPart
  <2>1. PICK r : r = DataRead(ReadResult, FALSE)
    OBVIOUS
  <2>2. r \in Read /\ r.kind = "data"
    <3>1. ReadResult \in Result
      BY DEF ReadResult, Result
    <3> QED BY <2>1, <3>1, Records
  <2>3. /\ reads' = Append(<<>>, r)
        /\ waiting_for_data
        /\ UNCHANGED <<state, lines_list, busy, sends, stop_inited, messages>>
    BY <1>0, <1>3, <2>1, HeadRead DEF DataPart, DataArrived
  <2>4. /\ reads' \in Seq(Read) /\ Len(reads') = 1 /\ reads' # <<>>
        /\ \A i \in DOMAIN reads' : reads'[i] = r
    BY <2>2, <2>3, OneReadStarted
  <2>5. TypeOK'
    BY <2>3, <2>4 DEF IInv, TypeOK, state
  <2>6. ReadKinds' /\ ReadCount'
    BY <1>0, <2>2, <2>3, <2>4 DEF ReadKinds, ReadCount, state
  <2> QED BY <2>3, <2>5, <2>6
          DEF IInv, state, CommandOrder, DataHasRecipient, EnvelopesComplete
<1>4. CASE DataAccepted
  <2>1. PICK m : m = [hello |-> hello, mailform |-> mailform, recipients |-> recipients]
    OBVIOUS
  <2>2. /\ waiting_for_data
        /\ SendRespond("positive", NoAddr)
        /\ messages' = Append(messages, m)
        /\ mailform' = FALSE /\ recipients' = {}
        /\ unsended_responds' = 0 /\ waiting_for_data' = FALSE
        /\ UNCHANGED <<hello, lines_list, busy, stop_inited>>
    BY <1>0, <1>4, <2>1, HeadRead DEF DataAccepted, ResetTransaction, DataArrived
  <2>3. m \in Envelope /\ m.hello /\ m.mailform /\ m.recipients # {}
    BY <2>1, <2>2 DEF IInv, TypeOK, Envelope, CommandOrder, DataHasRecipient
  <2>4. messages' \in Seq(Envelope) /\ EnvelopesComplete'
    <3>1. messages \in Seq(Envelope)
      BY DEF IInv, TypeOK
    <3>2. messages' \in Seq(Envelope)
      BY <2>2, <2>3, <3>1
    <3>3. ASSUME NEW i \in DOMAIN messages'
          PROVE  messages'[i] = m \/ (i \in DOMAIN messages /\ messages'[i] = messages[i])
      BY <2>2, <2>3, <3>1
    <3>4. EnvelopesComplete'
      BY <2>3, <3>3 DEF IInv, EnvelopesComplete
    <3> QED BY <3>2, <3>4
  <2>5. sends' \in Seq(Send)
    BY <2>2, SentType DEF SendRespond, IInv, TypeOK
  <2>6. /\ reads' \in Seq(Read) /\ Len(reads') <= 1
        /\ ~stop_inited => reads' # <<>>
        /\ \A i \in DOMAIN reads' : reads'[i].kind = "cmd"
    <3>1. CASE stop_inited
      <4>1. reads' = <<>>
        BY <1>0, <1>4, <3>1, HeadRead DEF DataAccepted, ResetTransaction
      <4> QED BY <3>1, <4>1
    <3>2. CASE ~stop_inited
      <4>1. PICK r : r = CmdRead("pending", <<>>)
        OBVIOUS
      <4>2. r \in Read /\ r.kind = "cmd"
        <5>1. "pending" \in Result /\ <<>> \in Seq(Cmd)
          BY DEF Result
        <5> QED BY <4>1, <5>1, Records
      <4>3. reads' = Append(<<>>, r)
        BY <1>0, <1>4, <3>2, <4>1, HeadRead DEF DataAccepted, ResetTransaction
      <4> QED BY <4>2, <4>3, OneReadStarted
    <3> QED BY <3>1, <3>2
  <2>7. TypeOK'
    <3>1. /\ unsended_responds' \in 0..UintMax
          /\ recipients' \subseteq Addr
          /\ mailform' \in BOOLEAN /\ waiting_for_data' \in BOOLEAN
      <4>1. 0 \in 0..UintMax
        BY SmtpAssumption
      <4> QED BY <2>2, <4>1
    <3>2. /\ hello' \in BOOLEAN /\ lines_list' \in Seq(Cmd)
          /\ busy' \in BOOLEAN /\ stop_inited' \in BOOLEAN
      BY <2>2 DEF IInv, TypeOK
    <3> QED BY <2>4, <2>5, <2>6, <3>1, <3>2 DEF TypeOK
  <2>8. ReadKinds' /\ ReadCount'
    BY <1>0, <2>2, <2>6 DEF ReadKinds, ReadCount
  <2>9. CommandOrder' /\ DataHasRecipient'
    BY <2>2 DEF CommandOrder, DataHasRecipient
  <2> QED BY <2>4, <2>7, <2>8, <2>9 DEF IInv
<1> QED BY <1>1, <1>2, <1>3, <1>4 DEF ReadHandler

\* Every step keeps the invariant.
LEMMA NextIInv == IInv /\ [Next]_vars => IInv'
<1> SUFFICES ASSUME IInv, [Next]_vars PROVE IInv'
  OBVIOUS
<1>1. CASE Next
  BY <1>1, TransactionKeeps, SocketKeeps, SendHandlerKeeps, ReadHandlerKeeps DEF Next
<1>2. CASE UNCHANGED vars
  BY <1>2 DEF vars, IInv, TypeOK, CommandOrder, DataHasRecipient, ReadKinds,
              ReadCount, EnvelopesComplete
<1> QED BY <1>1, <1>2

-----------------------------------------------------------------------------
\* The invariant holds of every execution of the session.
THEOREM Invariance == Spec => []IInv
BY InitIInv, NextIInv, PTL DEF Spec

\* Every variable of the session stays within its type, the unsigned count of
\* replies to RCPT included.
THEOREM TypeCorrect == Spec => []TypeOK
<1>1. IInv => TypeOK
  BY DEF IInv
<1> QED BY <1>1, Invariance, PTL

\* BaseMod accepts a recipient only behind a sender, a sender only behind HELO.
THEOREM CommandsInOrder == Spec => []CommandOrder
<1>1. IInv => CommandOrder
  BY DEF IInv
<1> QED BY <1>1, Invariance, PTL

\* _data_acceepted hands over only messages with sender, recipients and HELO.
THEOREM CompleteEnvelopes == Spec => []EnvelopesComplete
<1>1. IInv => EnvelopesComplete
  BY DEF IInv
<1> QED BY <1>1, Invariance, PTL

\* Outside a transaction the session has one read outstanding, of the kind its
\* state asks for; inside one it has none.
THEOREM SingleRead == Spec => []OneRead
<1>1. IInv => OneRead
  BY HeadRead DEF IInv, OneRead, ReadCount
<1> QED BY <1>1, Invariance, PTL

\* The data phase ends only by handing over the envelope it was entered with.
THEOREM DataPhaseKeepsEnvelope == Spec => DataPhaseHandsOver
<1> DEFINE m == [hello |-> hello, mailform |-> mailform, recipients |-> recipients]
<1> DEFINE HandsOver ==
      waiting_for_data =>
         IF waiting_for_data'
         THEN UNCHANGED <<hello, mailform, recipients, messages>>
         ELSE messages' = Append(messages, m)
<1>1. Next => HandsOver
  <2> SUFFICES ASSUME Next, waiting_for_data
               PROVE  IF waiting_for_data'
                      THEN UNCHANGED <<hello, mailform, recipients, messages>>
                      ELSE messages' = Append(messages, m)
    OBVIOUS
  <2>1. CASE Transaction
    <3>1. Excess \/ EndOfBatch
      BY <2>1 DEF Transaction, Helo, Ehlo, Mail, Rcpt, Data, Rset, ResetTransaction, Quit, Other,
                  Unknown, Take
    <3> QED BY <3>1 DEF Excess, EndOfBatch, Refuse, state
  <2>2. CASE Socket \/ SendHandler
    BY <2>2 DEF Socket, SocketSends, SocketReads, SendHandler, ReplySent,
                ReplyFailed, state
  <2>3. CASE ReadFailed \/ CommandsRead \/ DataPart
    BY <2>3 DEF ReadFailed, CommandsRead, DataPart, state
  <2>4. CASE DataAccepted
    BY <2>4 DEF DataAccepted, ResetTransaction
  <2> QED BY <2>1, <2>2, <2>3, <2>4 DEF Next, ReadHandler
<1>2. [Next]_vars => [HandsOver]_vars
  BY <1>1
<1>3. Spec => [][HandsOver]_vars
  BY <1>2, PTL DEF Spec
<1> QED BY <1>3 DEF DataPhaseHandsOver

-----------------------------------------------------------------------------
(* The count of the replies to RCPT. *)

\* The replies of a sequence that carry the confirm function.
Confirms(ss) == {i \in DOMAIN ss : ss[i].confirm # NoAddr}

\* The count is never below the replies on their way, and exact until the stop:
\* from then on replies fail and are not counted down.
Counted ==
    /\ Cardinality(RcptReplies) <= unsended_responds
    /\ ~stop_inited => unsended_responds = Cardinality(RcptReplies)

\* Why the count stays small: a read delivers its lines only while few replies
\* are on their way, and each line adds at most one.
Room ==
    /\ unsended_responds <= MaxSends + MaxBatch
    /\ busy => unsended_responds + Len(lines_list) <= MaxSends + MaxBatch
    /\ ~busy /\ reads # <<>> => lines_list = <<>>
    /\ \A i \in DOMAIN reads : reads[i].st = "ok" =>
          /\ unsended_responds <= MaxSends
          /\ reads[i].kind = "cmd" => Len(reads[i].batch) <= MaxBatch

\* A stop leaves no read pending.
PendingReads == \A i \in DOMAIN reads : reads[i].st = "pending" => ~stop_inited

DataUncounted == waiting_for_data => unsended_responds = 0

\* The inductive invariant.
CInv == IInv /\ Counted /\ Room /\ PendingReads /\ DataUncounted

-----------------------------------------------------------------------------
\* The replies of a sequence are finitely many.
LEMMA ConfirmsFinite ==
    ASSUME NEW ss \in Seq(Send)
    PROVE  /\ IsFiniteSet(Confirms(ss))
           /\ Cardinality(Confirms(ss)) \in Nat
           /\ Cardinality(Confirms(ss)) <= Len(ss)
<1>1. PICK n \in Nat : n = Len(ss)
  OBVIOUS
<1>2. IsFiniteSet(1..n) /\ Cardinality(1..n) = n
  BY FS_Interval
<1>3. Confirms(ss) \subseteq 1..n
  BY <1>1 DEF Confirms
<1>4. IsFiniteSet(Confirms(ss)) /\ Cardinality(Confirms(ss)) <= n
  BY <1>2, <1>3, FS_Subset
<1> QED BY <1>1, <1>4, FS_CardinalityType

\* A reply without confirm function changes nothing; one with it is one more.
LEMMA ConfirmsAppend ==
    ASSUME NEW ss \in Seq(Send), NEW x \in Send
    PROVE  Cardinality(Confirms(Append(ss, x)))
              = Cardinality(Confirms(ss)) + (IF x.confirm = NoAddr THEN 0 ELSE 1)
<1>1. PICK n \in Nat : n = Len(ss)
  OBVIOUS
<1>2. PICK app : app = Append(ss, x)
  OBVIOUS
<1>3. /\ DOMAIN app = 1..(n + 1) /\ DOMAIN ss = 1..n
      /\ app[n + 1] = x
      /\ \A i \in 1..n : app[i] = ss[i]
  BY <1>1, <1>2
<1>4. CASE x.confirm = NoAddr
  <2>1. Confirms(app) = Confirms(ss)
    BY <1>3, <1>4 DEF Confirms
  <2> QED BY <1>2, <1>4, <2>1, ConfirmsFinite
<1>5. CASE x.confirm # NoAddr
  <2>1. Confirms(app) = Confirms(ss) \cup {n + 1}
    BY <1>3, <1>5 DEF Confirms
  <2>2. n + 1 \notin Confirms(ss)
    BY <1>3 DEF Confirms
  <2> QED BY <1>2, <1>5, <2>1, <2>2, ConfirmsFinite, FS_AddElement
<1> QED BY <1>4, <1>5

\* The first reply leaves the sequence.
LEMMA ConfirmsTail ==
    ASSUME NEW ss \in Seq(Send), ss # <<>>
    PROVE  Cardinality(Confirms(ss))
              = Cardinality(Confirms(Tail(ss))) + (IF Head(ss).confirm = NoAddr THEN 0 ELSE 1)
<1>1. PICK tail : tail = Tail(ss)
  OBVIOUS
<1>2. tail \in Seq(Send) /\ Len(ss) = Len(tail) + 1
  BY <1>1
<1>3. /\ DOMAIN tail = 1..Len(tail) /\ DOMAIN ss = 1..(Len(tail) + 1)
      /\ \A i \in 1..Len(tail) : tail[i] = ss[i + 1]
      /\ Head(ss) = ss[1]
  BY <1>1, <1>2
<1> DEFINE Others == Confirms(ss) \ {1}
           shift == [i \in Confirms(tail) |-> i + 1]
<1>4. IsFiniteSet(Confirms(tail)) /\ Cardinality(Confirms(tail)) \in Nat
  BY <1>2, ConfirmsFinite
<1>5. shift \in Bijection(Confirms(tail), Others)
  <2>1. \A i \in Confirms(tail) : i \in 1..Len(tail) /\ i + 1 \in Others
    BY <1>2, <1>3 DEF Confirms
  <2>2. \A j \in Others : j - 1 \in Confirms(tail)
    <3> SUFFICES ASSUME NEW j \in Others PROVE j - 1 \in Confirms(tail)
      OBVIOUS
    <3>1. j \in 2..(Len(tail) + 1) /\ ss[j].confirm # NoAddr
      BY <1>2, <1>3 DEF Confirms
    <3>2. j - 1 \in 1..Len(tail) /\ (j - 1) + 1 = j
      BY <1>2, <3>1
    <3> QED BY <1>3, <3>1, <3>2 DEF Confirms
  <2>3. shift \in [Confirms(tail) -> Others]
    BY <2>1
  <2>4. \A a, b \in Confirms(tail) : shift[a] = shift[b] => a = b
    BY <2>1
  <2>5. \A j \in Others : \E i \in Confirms(tail) : shift[i] = j
    <3> SUFFICES ASSUME NEW j \in Others PROVE \E i \in Confirms(tail) : shift[i] = j
      OBVIOUS
    <3>1. j - 1 \in Confirms(tail) /\ j \in Nat
      BY <2>2, <1>3 DEF Confirms
    <3>2. shift[j - 1] = j
      BY <3>1
    <3> QED BY <3>1, <3>2
  <2> QED BY <2>3, <2>4, <2>5 DEF Bijection, Injection, Surjection, IsInjective
<1> HIDE DEF shift
<1>6. IsFiniteSet(Others) /\ Cardinality(Others) = Cardinality(Confirms(tail))
  BY <1>4, <1>5, FS_Bijection DEF ExistsBijection
<1>7. CASE Head(ss).confirm = NoAddr
  <2>1. Others = Confirms(ss)
    BY <1>3, <1>7 DEF Confirms
  <2> HIDE DEF Others
  <2> QED BY <1>1, <1>4, <1>6, <1>7, <2>1
<1>8. CASE Head(ss).confirm # NoAddr
  <2>1. Confirms(ss) = Others \cup {1} /\ 1 \notin Others
    BY <1>2, <1>3, <1>8 DEF Confirms
  <2> HIDE DEF Others
  <2> QED BY <1>1, <1>4, <1>6, <1>8, <2>1, FS_AddElement
<1> QED BY <1>7, <1>8

\* A stop changes no confirm function.
LEMMA ConfirmsCancelled ==
    ASSUME NEW ss \in Seq(Send)
    PROVE  Confirms(Cancelled(ss)) = Confirms(ss)
<1>1. \A i \in DOMAIN ss : Cancelled(ss)[i].confirm = ss[i].confirm
  <2> SUFFICES ASSUME NEW i \in DOMAIN ss
               PROVE  Cancelled(ss)[i].confirm = ss[i].confirm
    OBVIOUS
  <2>1. ss[i] \in Send
    OBVIOUS
  <2> QED BY <2>1 DEF Cancelled, Send
<1>2. DOMAIN Cancelled(ss) = DOMAIN ss
  BY DEF Cancelled
<1> QED BY <1>1, <1>2 DEF Confirms

-----------------------------------------------------------------------------
\* The invariant speaks of natural numbers.
LEMMA Counts ==
    ASSUME CInv
    PROVE  /\ sends \in Seq(Send) /\ reads \in Seq(Read) /\ lines_list \in Seq(Cmd)
           /\ RcptReplies = Confirms(sends)
           /\ Cardinality(Confirms(sends)) \in Nat
           /\ Cardinality(Confirms(sends)) <= Len(sends)
           /\ Cardinality(Confirms(sends)) <= unsended_responds
           /\ ~stop_inited => unsended_responds = Cardinality(Confirms(sends))
           /\ unsended_responds \in Nat
           /\ Len(lines_list) \in Nat
           /\ MaxSends \in Nat /\ MaxBatch \in Nat
           /\ busy => reads = <<>>
<1>1. sends \in Seq(Send) /\ reads \in Seq(Read) /\ lines_list \in Seq(Cmd)
  BY DEF CInv, IInv, TypeOK
<1>2. unsended_responds \in Nat
  BY SmtpAssumption DEF CInv, IInv, TypeOK
<1>3. RcptReplies = Confirms(sends)
  BY DEF RcptReplies, Confirms
<1>4. busy => reads = <<>>
  BY DEF CInv, IInv, ReadCount
<1> QED BY <1>1, <1>2, <1>3, <1>4, ConfirmsFinite, SmtpAssumption DEF CInv, Counted

\* What is left to show of a step.
LEMMA Kept ==
    ASSUME IInv', Room', PendingReads', DataUncounted',
           NEW n \in Nat, Cardinality(Confirms(sends')) = n,
           n <= unsended_responds', ~stop_inited' => unsended_responds' = n
    PROVE  CInv'
<1>1. RcptReplies' = Confirms(sends')
  BY DEF RcptReplies, Confirms
<1> QED BY <1>1 DEF CInv, Counted

\* A reply that is given to the socket is counted if it confirms a recipient.
LEMMA SentCounts ==
    ASSUME sends \in Seq(Send), NEW code \in {"positive", "negative"},
           NEW c \in Addr \cup {NoAddr}, NEW ss \in Sent(code, c)
    PROVE  /\ ss \in Seq(Send)
           /\ Cardinality(Confirms(ss))
                 = Cardinality(Confirms(sends)) + (IF c = NoAddr THEN 0 ELSE 1)
<1>1. PICK st \in SendResults : ss = Append(sends, [code |-> code, confirm |-> c, st |-> st])
  BY DEF Sent
<1>2. st \in Result
  BY DEF SendResults, Result
<1>3. PICK x : x = [code |-> code, confirm |-> c, st |-> st]
  OBVIOUS
<1>4. x \in Send /\ x.confirm = c
  BY <1>2, <1>3, Records
<1>5. ss = Append(sends, x)
  BY <1>1, <1>3
<1> QED BY <1>4, <1>5, ConfirmsAppend

\* A stop leaves the replies to be counted, and no read pending.
LEMMA StopCounts ==
    ASSUME NEW ss \in Seq(Send), NEW rs \in Seq(Read), stop_inited \in BOOLEAN,
           \A i \in DOMAIN rs : rs[i].st = "pending" => ~stop_inited,
           StopWith(ss, rs)
    PROVE  /\ Confirms(sends') = Confirms(ss)
           /\ stop_inited'
           /\ \A i \in DOMAIN reads' :
                 /\ i \in DOMAIN rs
                 /\ reads'[i].st # "pending"
                 /\ reads'[i].st = "ok" => reads'[i] = rs[i]
<1>1. CASE stop_inited
  BY <1>1 DEF StopWith
<1>2. CASE ~stop_inited
  <2>1. sends' = Cancelled(ss) /\ reads' = Cancelled(rs) /\ stop_inited' = TRUE
    BY <1>2 DEF StopWith
  <2>2. ASSUME NEW i \in DOMAIN Cancelled(rs)
        PROVE  /\ i \in DOMAIN rs
               /\ Cancelled(rs)[i].st # "pending"
               /\ Cancelled(rs)[i].st = "ok" => Cancelled(rs)[i] = rs[i]
    <3>1. i \in DOMAIN rs
      BY DEF Cancelled
    <3>2. rs[i] \in Read
      BY <3>1
    <3>3. CASE rs[i].st = "pending"
      <4>1. Cancelled(rs)[i] = [rs[i] EXCEPT !.st = "failed"]
        BY <3>1, <3>3 DEF Cancelled
      <4>2. CASE rs[i] \in [kind : {"cmd"}, st : Result, batch : Seq(Cmd)]
        BY <3>1, <4>1, <4>2
      <4>3. CASE rs[i] \in [kind : {"data"}, st : Result, complete : BOOLEAN]
        BY <3>1, <4>1, <4>3
      <4> QED BY <3>2, <4>2, <4>3 DEF Read
    <3>4. CASE rs[i].st # "pending"
      BY <3>1, <3>4 DEF Cancelled
    <3> QED BY <3>3, <3>4
  <2> QED BY <2>1, <2>2, ConfirmsCancelled
<1> QED BY <1>1, <1>2

-----------------------------------------------------------------------------
\* The initial states satisfy the invariant.
LEMMA InitCInv == Init => CInv
<1> SUFFICES ASSUME Init PROVE CInv
  OBVIOUS
<1>1. IInv
  BY InitIInv
<1>2. PICK st \in Result : sends = <<[code |-> "positive", confirm |-> NoAddr, st |-> st]>>
  BY DEF Init
<1>3. RcptReplies = {}
  BY <1>2 DEF RcptReplies
<1>4. Counted
  BY <1>3, FS_EmptySet DEF Init, Counted
<1>5. reads = <<CmdRead("pending", <<>>)>>
  BY DEF Init
<1>6. DOMAIN reads = {1} /\ reads[1].st = "pending"
  BY <1>5 DEF CmdRead
<1>7. Room /\ PendingReads /\ DataUncounted
  BY <1>6, SmtpAssumption DEF Init, Room, PendingReads, DataUncounted
<1> QED BY <1>1, <1>4, <1>7 DEF CInv

\* An answer without confirm function, to a line of the batch.
LEMMA PlainAnswer ==
    ASSUME CInv, IInv', busy, lines_list # <<>>, lines_list' = Tail(lines_list),
           NEW code \in {"positive", "negative"}, SendRespond(code, NoAddr),
           UNCHANGED <<unsended_responds, busy, reads, stop_inited>>,
           waiting_for_data' => unsended_responds = 0
    PROVE  CInv'
<1>1. PICK n \in Nat : n = Cardinality(Confirms(sends))
  BY Counts
<1>2. Cardinality(Confirms(sends')) = n
  BY <1>1, Counts, SentCounts DEF SendRespond
<1>3. Len(lines_list') \in Nat /\ Len(lines_list') <= Len(lines_list)
  BY Counts
<1>4. Room'
  BY <1>3, Counts DEF CInv, Room
<1>5. PendingReads' /\ DataUncounted'
  BY DEF CInv, PendingReads, DataUncounted
<1> QED BY <1>1, <1>2, <1>4, <1>5, Counts, Kept

LEMMA RefuseCounts ==
    ASSUME CInv, IInv', busy, lines_list # <<>>, lines_list' = Tail(lines_list), Refuse
    PROVE  CInv'
<1>1. /\ SendRespond("negative", NoAddr)
      /\ UNCHANGED <<unsended_responds, waiting_for_data, busy, reads, stop_inited>>
  BY DEF Refuse, state
<1>2. waiting_for_data' => unsended_responds = 0
  BY <1>1 DEF CInv, DataUncounted
<1> QED BY <1>1, <1>2, PlainAnswer

\* The reply to a new recipient is counted.  There is room for it, so the
\* unsigned number does not wrap around.
LEMMA RcptCounts ==
    ASSUME CInv, IInv', busy, lines_list # <<>>, lines_list' = Tail(lines_list),
           MaxSends + MaxBatch <= UintMax,
           NEW a \in Addr, SendRespond("positive", a), ~waiting_for_data,
           unsended_responds' = Incremented(unsended_responds),
           UNCHANGED <<waiting_for_data, busy, reads, stop_inited>>
    PROVE  CInv'
<1>1. PICK n \in Nat : n = Cardinality(Confirms(sends))
  BY Counts
<1>2. Cardinality(Confirms(sends')) = n + 1
  <2>1. a # NoAddr
    BY SmtpAssumption
  <2> QED BY <1>1, <2>1, Counts, SentCounts DEF SendRespond
<1>3. Len(lines_list') \in Nat /\ Len(lines_list') + 1 = Len(lines_list)
  BY Counts
<1>4. unsended_responds + Len(lines_list) <= MaxSends + MaxBatch
  BY DEF CInv, Room
<1>5. unsended_responds' = unsended_responds + 1
  <2>1. unsended_responds < MaxSends + MaxBatch
    BY <1>3, <1>4, Counts
  <2> QED BY <2>1, Counts, SmtpAssumption DEF Incremented
<1>6. Room'
  BY <1>3, <1>4, <1>5, Counts DEF CInv, Room
<1>7. PendingReads' /\ DataUncounted'
  BY DEF CInv, PendingReads, DataUncounted
<1>8. n + 1 \in Nat
  BY <1>1
<1> QED BY <1>1, <1>2, <1>5, <1>6, <1>7, <1>8, Counts, Kept

\* QUIT and a HELO in error close the connection.
LEMMA CloseCounts ==
    ASSUME CInv, IInv', busy, NEW code \in {"positive", "negative"}, ReplyAndClose(code)
    PROVE  CInv'
<1>1. PICK n \in Nat : n = Cardinality(Confirms(sends))
  BY Counts
<1>2. PICK ss \in Sent(code, NoAddr) : StopWith(ss, reads)
  BY DEF ReplyAndClose
<1>3. ss \in Seq(Send) /\ Cardinality(Confirms(ss)) = n
  BY <1>1, <1>2, Counts, SentCounts
<1>4. PICK rs : rs = reads
  OBVIOUS
<1>5. rs = <<>> /\ rs \in Seq(Read) /\ DOMAIN rs = {}
  BY <1>4, Counts
<1>6. /\ Confirms(sends') = Confirms(ss)
      /\ stop_inited'
      /\ \A i \in DOMAIN reads' : i \in DOMAIN rs
  <2>1. stop_inited \in BOOLEAN
    BY DEF CInv, IInv, TypeOK
  <2>2. StopWith(ss, rs)
    BY <1>2, <1>4
  <2> QED BY <1>3, <1>5, <2>1, <2>2, StopCounts
<1>7. reads' \in Seq(Read)
  BY DEF IInv, TypeOK
<1>8. reads' = <<>>
  <2>1. PICK k \in Nat : k = Len(reads') /\ DOMAIN reads' = 1..k
    BY <1>7
  <2>2. k = 0
    BY <1>5, <1>6, <2>1
  <2> QED BY <1>7, <2>1, <2>2, EmptySeq
<1>9. UNCHANGED <<unsended_responds, waiting_for_data>> /\ ~busy'
  BY DEF ReplyAndClose, state
<1>10. Room' /\ PendingReads' /\ DataUncounted'
  BY <1>5, <1>6, <1>8, <1>9 DEF CInv, Room, PendingReads, DataUncounted
<1> QED BY <1>1, <1>3, <1>6, <1>9, <1>10, Counts, Kept

\* Each command of a transaction keeps the count.
LEMMA TransactionCounts ==
    ASSUME CInv, IInv', Transaction, MaxSends + MaxBatch <= UintMax
    PROVE  CInv'
<1>1. CASE Helo
  <2>1. busy /\ lines_list # <<>> /\ lines_list' = Tail(lines_list) /\ ~waiting_for_data
    BY <1>1 DEF Helo, Take
  <2>2. CASE Parses
    BY <1>1, <2>1, <2>2, PlainAnswer DEF Helo, Accept
  <2>3. CASE ~Parses
    BY <1>1, <2>1, <2>3, CloseCounts DEF Helo
  <2> QED BY <2>2, <2>3
<1>2. CASE Ehlo \/ Unknown \/ Excess
  BY <1>2, RefuseCounts DEF Ehlo, Unknown, Excess, Take
<1>3. CASE Mail
  <2>1. busy /\ lines_list # <<>> /\ lines_list' = Tail(lines_list) /\ ~waiting_for_data
    BY <1>3 DEF Mail, Take
  <2>2. CASE hello /\ Parses
    BY <1>3, <2>1, <2>2, PlainAnswer DEF Mail, Accept
  <2>3. CASE ~(hello /\ Parses)
    BY <1>3, <2>1, <2>3, RefuseCounts DEF Mail
  <2> QED BY <2>2, <2>3
<1>4. CASE Rcpt
  <2>1. busy /\ lines_list # <<>> /\ lines_list' = Tail(lines_list) /\ ~waiting_for_data
    BY <1>4 DEF Rcpt, Take
  <2>2. PICK a : a = Head(lines_list).addr
    OBVIOUS
  <2>3. CASE ~(mailform /\ Parses)
    BY <1>4, <2>1, <2>3, RefuseCounts DEF Rcpt
  <2>4. CASE mailform /\ Parses /\ a \in recipients
    BY <1>4, <2>1, <2>2, <2>4, PlainAnswer DEF Rcpt, Accept, state
  <2>5. CASE mailform /\ Parses /\ a \notin recipients
    <3>1. a \in Addr
      BY <1>4, <2>1, <2>2, <2>5, TakeFacts DEF Rcpt, Take, Parses, Cmd, CInv, IInv
    <3>2. /\ unsended_responds' = Incremented(unsended_responds)
          /\ Accept(a)
          /\ UNCHANGED waiting_for_data
      BY <1>4, <2>2, <2>5 DEF Rcpt
    <3> QED BY <2>1, <3>1, <3>2, RcptCounts DEF Accept
  <2> QED BY <2>3, <2>4, <2>5
<1>5. CASE Data
  <2>1. busy /\ lines_list # <<>> /\ lines_list' = Tail(lines_list) /\ ~waiting_for_data
    BY <1>5 DEF Data, Take
  <2>2. CASE unsended_responds = 0 /\ recipients # {} /\ Parses
    BY <1>5, <2>1, <2>2, PlainAnswer DEF Data, Accept
  <2>3. CASE ~(unsended_responds = 0 /\ recipients # {} /\ Parses)
    BY <1>5, <2>1, <2>3, RefuseCounts DEF Data
  <2> QED BY <2>2, <2>3
<1>6. CASE Rset
  BY <1>6, PlainAnswer DEF Rset, ResetTransaction, Take, Accept
<1>7. CASE Quit
  BY <1>7, CloseCounts DEF Quit, Take
<1>8. CASE Other
  BY <1>8, PlainAnswer DEF Other, Take, Accept, state
<1>9. CASE EndOfBatch
  <2>1. PICK r : r = IF waiting_for_data THEN DataRead(ReadResult, FALSE)
                     ELSE CmdRead(ReadResult, <<>>)
    OBVIOUS
  <2>2. r.st = ReadResult
    BY <2>1 DEF DataRead, CmdRead
  <2>3. reads = <<>> /\ reads' = Append(reads, r)
    BY <1>9, <2>1, Counts DEF EndOfBatch, ReadData, ReadCommand, StartRead
  <2>4. reads' = <<r>>
    BY <2>3
  <2>5. DOMAIN reads' = {1} /\ reads'[1] = r
    BY <2>4
  <2>6. /\ lines_list = <<>> /\ busy /\ busy' = FALSE
        /\ UNCHANGED <<unsended_responds, waiting_for_data, lines_list, sends, stop_inited>>
    BY <1>9 DEF EndOfBatch, state
  <2>7. Room'
    BY <2>2, <2>5, <2>6 DEF CInv, Room, ReadResult
  <2>8. PendingReads' /\ DataUncounted'
    BY <2>2, <2>5, <2>6 DEF CInv, PendingReads, DataUncounted, ReadResult
  <2> QED BY <2>6, <2>7, <2>8, Counts, Kept
<1> QED
  BY <1>1, <1>2, <1>3, <1>4, <1>5, <1>6, <1>7, <1>8, <1>9 DEF Transaction

\* A result of the socket keeps it: a read succeeds while the replies on their
\* way, and so the count, are few.
LEMMA SocketCounts ==
    ASSUME CInv, IInv', Socket
    PROVE  CInv'
<1>1. CASE SocketSends
  <2>1. PICK i \in DOMAIN sends, st \in {"ok", "failed"} :
           sends' = [sends EXCEPT ![i].st = st]
    BY <1>1 DEF SocketSends
  <2>2. UNCHANGED <<unsended_responds, waiting_for_data, lines_list, busy, reads, stop_inited>>
    BY <1>1 DEF SocketSends, state
  <2>3. DOMAIN sends' = DOMAIN sends
    BY <2>1
  <2>4. \A j \in DOMAIN sends : sends'[j].confirm = sends[j].confirm
    <3> SUFFICES ASSUME NEW j \in DOMAIN sends PROVE sends'[j].confirm = sends[j].confirm
      OBVIOUS
    <3>1. sends[j] \in Send
      BY Counts
    <3>2. CASE j = i
      BY <2>1, <3>1, <3>2 DEF Send
    <3>3. CASE j # i
      BY <2>1, <3>3
    <3> QED BY <3>2, <3>3
  <2>5. Confirms(sends') = Confirms(sends)
    BY <2>3, <2>4 DEF Confirms
  <2>6. Room' /\ PendingReads' /\ DataUncounted'
    BY <2>2 DEF CInv, Room, PendingReads, DataUncounted
  <2> QED BY <2>2, <2>5, <2>6, Counts, Kept
<1>2. CASE SocketReads
  <2>1. PICK i \in DOMAIN reads :
           reads[i].st = "pending" /\ \E r \in Arrived(reads[i]) : reads' = [reads EXCEPT ![i] = r]
    BY <1>2 DEF SocketReads
  <2>2. PICK r \in Arrived(reads[i]) : reads' = [reads EXCEPT ![i] = r]
    BY <2>1
  <2>3. /\ UNCHANGED <<unsended_responds, waiting_for_data, lines_list, busy, sends, stop_inited>>
        /\ ~busy /\ Len(sends) <= MaxSends
    BY <1>2 DEF SocketReads, state
  <2>4. unsended_responds <= MaxSends
    <3>1. ~stop_inited
      BY <2>1 DEF CInv, PendingReads
    <3>2. unsended_responds <= Len(sends)
      BY <3>1, Counts
    <3>3. Len(sends) \in Nat
      BY Counts
    <3> QED BY <2>3, <3>2, <3>3, Counts
  <2>5. r.st # "pending" /\ (r.kind = "cmd" /\ r.st = "ok" => Len(r.batch) <= MaxBatch)
    <3>1. CASE r = [reads[i] EXCEPT !.st = "failed"]
      <4>1. PICK x \in Read : x = reads[i]
        BY Counts
      <4>2. CASE x \in [kind : {"cmd"}, st : Result, batch : Seq(Cmd)]
        BY <3>1, <4>1, <4>2
      <4>3. CASE x \in [kind : {"data"}, st : Result, complete : BOOLEAN]
        BY <3>1, <4>1, <4>3
      <4> QED BY <4>2, <4>3 DEF Read
    <3>2. CASE \E batch \in Batches : r = CmdRead("ok", batch)
      <4>1. PICK batch \in Batches : r = CmdRead("ok", batch)
        BY <3>2
      <4>2. PICK n \in 0..MaxBatch : batch \in [1..n -> Cmd]
        BY <4>1 DEF Batches
      <4>3. Len(batch) = n
        BY <4>2
      <4> QED BY <4>1, <4>2, <4>3, Counts DEF CmdRead
    <3>3. CASE \E complete \in BOOLEAN : r = DataRead("ok", complete)
      BY <3>3 DEF DataRead
    <3> QED BY <2>2, <3>1, <3>2, <3>3 DEF Arrived
  <2>6. /\ DOMAIN reads' = DOMAIN reads
        /\ \A j \in DOMAIN reads : reads'[j] = IF j = i THEN r ELSE reads[j]
    BY <2>2, Counts
  <2>7. reads # <<>>
    BY <2>1
  <2>8. Room'
    <3>1. \A j \in DOMAIN reads' : reads'[j].st = "ok" =>
             /\ unsended_responds <= MaxSends
             /\ reads'[j].kind = "cmd" => Len(reads'[j].batch) <= MaxBatch
      BY <2>4, <2>5, <2>6 DEF CInv, Room
    <3> QED BY <2>3, <2>7, <3>1 DEF CInv, Room
  <2>9. PendingReads' /\ DataUncounted'
    BY <2>3, <2>5, <2>6 DEF CInv, PendingReads, DataUncounted
  <2> QED BY <2>3, <2>8, <2>9, Counts, Kept
<1> QED BY <1>1, <1>2 DEF Socket

\* A handler that stops the session: the reads that are left were there.
LEMMA StopKeepsCount ==
    ASSUME CInv, IInv', ~busy,
           NEW ss \in Seq(Send), NEW rs \in Seq(Read), StopWith(ss, rs),
           rs = reads \/ rs = <<>>,
           NEW n \in Nat, n = Cardinality(Confirms(ss)), n <= unsended_responds,
           UNCHANGED <<unsended_responds, waiting_for_data, lines_list, busy>>
    PROVE  CInv'
<1>1. /\ Confirms(sends') = Confirms(ss)
      /\ stop_inited'
      /\ \A i \in DOMAIN reads' :
            /\ i \in DOMAIN rs
            /\ reads'[i].st # "pending"
            /\ reads'[i].st = "ok" => reads'[i] = rs[i]
  <2>1. stop_inited \in BOOLEAN
    BY DEF CInv, IInv, TypeOK
  <2>2. \A i \in DOMAIN rs : rs[i].st = "pending" => ~stop_inited
    BY DEF CInv, PendingReads
  <2> QED BY <2>1, <2>2, StopCounts
<1>2. reads' # <<>> => reads # <<>>
  <2>1. reads' \in Seq(Read)
    BY DEF IInv, TypeOK
  <2>2. reads' # <<>> => 1 \in DOMAIN reads'
    BY <2>1
  <2>3. reads' # <<>> => 1 \in DOMAIN rs
    BY <1>1, <2>2
  <2> QED BY <2>3
<1>3. \A i \in DOMAIN reads' : reads'[i].st = "ok" =>
         i \in DOMAIN reads /\ reads'[i] = reads[i]
  BY <1>1
<1>4. Room'
  BY <1>2, <1>3 DEF CInv, Room
<1>5. PendingReads' /\ DataUncounted'
  BY <1>1 DEF CInv, PendingReads, DataUncounted
<1> QED BY <1>1, <1>4, <1>5, Kept

\* The handler of a reply counts it down, if it was sent.
LEMMA SendHandlerCounts ==
    ASSUME CInv, IInv', SendHandler
    PROVE  CInv'
<1>0. sends # <<>> /\ ~busy
  BY DEF SendHandler, ReplySent, ReplyFailed
<1>1. PICK ss \in Seq(Send) : ss = Tail(sends)
  <2>1. sends \in Seq(Send)
    BY Counts
  <2>2. Tail(sends) \in Seq(Send)
    BY <1>0, <2>1
  <2> QED BY <2>2
<1>2. PICK n \in Nat : n = Cardinality(Confirms(ss))
  BY ConfirmsFinite
<1>3. Cardinality(Confirms(sends)) = n + (IF Head(sends).confirm = NoAddr THEN 0 ELSE 1)
  BY <1>0, <1>1, <1>2, Counts, ConfirmsTail
<1>4. CASE ReplySent
  <2>1. /\ sends' = ss
        /\ unsended_responds' = IF Head(sends).confirm # NoAddr
                                THEN Decremented(unsended_responds)
                                ELSE unsended_responds
        /\ UNCHANGED <<waiting_for_data, lines_list, busy, reads, stop_inited>>
    BY <1>1, <1>4 DEF ReplySent
  <2>2. unsended_responds'
           = unsended_responds - (IF Head(sends).confirm = NoAddr THEN 0 ELSE 1)
    <3>1. Head(sends).confirm # NoAddr => unsended_responds # 0
      BY <1>2, <1>3, Counts
    <3> QED BY <2>1, <3>1, Counts DEF Decremented
  <2>3. unsended_responds' \in Nat /\ unsended_responds' <= unsended_responds
        /\ n <= unsended_responds' /\ (~stop_inited' => unsended_responds' = n)
    <3>1. PICK a, b, d : /\ a = unsended_responds /\ b = unsended_responds'
                         /\ d = IF Head(sends).confirm = NoAddr THEN 0 ELSE 1
      OBVIOUS
    <3>2. a \in Nat /\ n + d <= a /\ (~stop_inited => a = n + d)
      BY <1>2, <1>3, <3>1, Counts
    <3>3. d \in {0, 1} /\ b = a - d /\ stop_inited' = stop_inited
      BY ONLY <2>1, <2>2, <3>1
    <3>4. b \in Nat /\ b <= a /\ n <= b /\ (~stop_inited => b = n)
      BY ONLY <3>2, <3>3, n \in Nat
    <3> QED BY ONLY <3>1, <3>3, <3>4
  <2>4. Room'
    <3>1. PICK a, b : a = unsended_responds /\ b = unsended_responds'
      OBVIOUS
    <3>2. PICK most : most = MaxSends + MaxBatch
      OBVIOUS
    <3>3. a \in Nat /\ b \in Nat /\ b <= a /\ MaxSends \in Nat /\ most \in Nat
      BY <2>3, <3>1, <3>2, Counts
    <3>4. /\ a <= most /\ ~busy /\ (reads # <<>> => lines_list = <<>>)
          /\ \A i \in DOMAIN reads : reads[i].st = "ok" =>
                /\ a <= MaxSends
                /\ reads[i].kind = "cmd" => Len(reads[i].batch) <= MaxBatch
      BY <1>0, <3>1, <3>2 DEF CInv, Room
    <3>5. b <= most /\ (a <= MaxSends => b <= MaxSends)
      BY ONLY <3>3, <3>4
    <3>6. UNCHANGED <<lines_list, busy, reads>>
      BY ONLY <2>1
    <3> QED BY ONLY <3>1, <3>2, <3>4, <3>5, <3>6 DEF Room
  <2>5. PendingReads'
    BY <2>1 DEF CInv, PendingReads
  <2>6. DataUncounted'
    BY <2>1, <2>3, Counts DEF CInv, DataUncounted
  <2> QED BY <1>2, <2>1, <2>3, <2>4, <2>5, <2>6, Kept
<1>5. CASE ReplyFailed
  <2>1. n <= unsended_responds
    BY <1>2, <1>3, Counts
  <2>2. StopWith(ss, reads)
        /\ UNCHANGED <<unsended_responds, waiting_for_data, lines_list, busy>>
    BY <1>1, <1>5 DEF ReplyFailed, state
  <2>3. reads \in Seq(Read)
    BY Counts
  <2> QED BY <1>0, <1>1, <1>2, <2>1, <2>2, <2>3, StopKeepsCount
<1> QED BY <1>4, <1>5 DEF SendHandler

\* The handlers of reads keep the count; a message that is complete replaces the
\* state when nothing is counted.
LEMMA ReadHandlerCounts ==
    ASSUME CInv, IInv', ReadHandler
    PROVE  CInv'
<1>0. reads # <<>> /\ ~busy /\ lines_list = <<>>
  BY DEF ReadHandler, ReadFailed, CommandsRead, DataPart, DataAccepted, ResetTransaction, DataArrived,
         CInv, Room
<1>1. /\ Head(reads) \in Read /\ Tail(reads) = <<>>
      /\ Head(reads).kind = IF waiting_for_data THEN "data" ELSE "cmd"
  BY <1>0, HeadRead DEF CInv
<1>2. 1 \in DOMAIN reads /\ Head(reads) = reads[1]
  BY <1>0, Counts
<1>3. PICK n \in Nat : n = Cardinality(Confirms(sends))
  BY Counts
<1>4. CASE ReadFailed
  <2>1. StopWith(sends, <<>>)
        /\ UNCHANGED <<unsended_responds, waiting_for_data, lines_list, busy>>
    BY <1>1, <1>4 DEF ReadFailed, state
  <2>2. <<>> \in Seq(Read)
    OBVIOUS
  <2> QED BY <1>0, <1>3, <2>1, <2>2, Counts, StopKeepsCount
<1>5. CASE CommandsRead
  <2>1. /\ reads' = <<>>
        /\ Head(reads).kind = "cmd" /\ Head(reads).st = "ok"
        /\ lines_list' = lines_list \o Head(reads).batch
        /\ busy' = TRUE
        /\ UNCHANGED <<unsended_responds, waiting_for_data, sends, stop_inited>>
    BY <1>1, <1>5 DEF CommandsRead, state
  <2>2. PICK batch \in Seq(Cmd) : batch = Head(reads).batch
    BY <1>1, <2>1 DEF Read
  <2>3. unsended_responds <= MaxSends /\ Len(batch) <= MaxBatch
    BY <1>2, <2>1, <2>2 DEF CInv, Room
  <2>4. lines_list' = batch
    BY <1>0, <2>1, <2>2
  <2>5. Room'
    <3>1. DOMAIN reads' = {} /\ Len(batch) \in Nat
      BY <2>1
    <3> QED BY <2>1, <2>3, <2>4, <3>1, Counts DEF CInv, Room
  <2>6. PendingReads' /\ DataUncounted'
    <3>1. DOMAIN reads' = {}
      BY <2>1
    <3> QED BY <2>1, <3>1 DEF CInv, PendingReads, DataUncounted
  <2> QED BY <1>3, <2>1, <2>5, <2>6, Counts, Kept
<1>6. CASE DataPart
  <2>1. PICK r : r = DataRead(ReadResult, FALSE)
    OBVIOUS
  <2>2. /\ reads' = Append(<<>>, r)
        /\ UNCHANGED <<unsended_responds, waiting_for_data, lines_list, busy, sends, stop_inited>>
    BY <1>1, <1>6, <2>1 DEF DataPart, state
  <2>3. reads' = <<r>>
    BY <2>2
  <2>4. DOMAIN reads' = {1} /\ reads'[1] = r /\ r.st = ReadResult
    BY <2>1, <2>3 DEF DataRead
  <2>5. Room' /\ PendingReads' /\ DataUncounted'
    BY <1>0, <2>2, <2>4 DEF CInv, Room, PendingReads, DataUncounted, ReadResult
  <2> QED BY <1>3, <2>2, <2>5, Counts, Kept
<1>7. CASE DataAccepted
  <2>1. /\ waiting_for_data
        /\ SendRespond("positive", NoAddr)
        /\ unsended_responds' = 0 /\ waiting_for_data' = FALSE
        /\ reads' = IF stop_inited THEN <<>> ELSE Append(<<>>, CmdRead("pending", <<>>))
        /\ UNCHANGED <<lines_list, busy, stop_inited>>
    BY <1>1, <1>7 DEF DataAccepted, ResetTransaction, DataArrived
  <2>2. n = 0
    BY <1>3, <2>1, Counts DEF CInv, DataUncounted
  <2>3. Cardinality(Confirms(sends')) = 0
    BY <1>3, <2>1, <2>2, Counts, SentCounts DEF SendRespond
  <2>4. \A i \in DOMAIN reads' : ~stop_inited /\ reads'[i].st = "pending"
    <3>1. CASE stop_inited
      BY <2>1, <3>1
    <3>2. CASE ~stop_inited
      <4>1. PICK r : r = CmdRead("pending", <<>>)
        OBVIOUS
      <4>2. reads' = <<r>> /\ r.st = "pending"
        BY <2>1, <3>2, <4>1 DEF CmdRead
      <4> QED BY <3>2, <4>2
    <3> QED BY <3>1, <3>2
  <2>5. Room'
    BY <1>0, <2>1, <2>4, Counts DEF Room
  <2>6. PendingReads' /\ DataUncounted'
    BY <2>1, <2>4 DEF PendingReads, DataUncounted
  <2> QED BY <2>1, <2>3, <2>5, <2>6, Kept
<1> QED BY <1>4, <1>5, <1>6, <1>7 DEF ReadHandler

LEMMA NextCInv ==
    ASSUME CInv, [Next]_vars, MaxSends + MaxBatch <= UintMax
    PROVE  CInv'
<1>1. IInv'
  BY NextIInv DEF CInv
<1>2. CASE Next
  BY <1>1, <1>2, TransactionCounts, SocketCounts, SendHandlerCounts, ReadHandlerCounts
     DEF Next
<1>3. CASE UNCHANGED vars
  BY <1>1, <1>3 DEF vars, CInv, Counted, RcptReplies, Room, PendingReads, DataUncounted
<1> QED BY <1>2, <1>3

-----------------------------------------------------------------------------
\* The invariant holds of every execution in which the replies that may be on
\* their way are no more than an unsigned int counts.
THEOREM CountInvariance ==
    ASSUME MaxSends + MaxBatch <= UintMax
    PROVE  Spec => []CInv
<1>1. CInv /\ [Next]_vars => CInv'
  BY NextCInv
<1> QED BY InitCInv, <1>1, PTL DEF Spec

\* unsended_responds is the number of replies to accepted RCPT commands that are
\* on their way, whatever RSET, further messages and late confirm functions did
\* (EmailRcpts, _Rcpt_Handler, _Rset_Handler, _data_acceepted).
THEOREM RepliesCounted ==
    ASSUME MaxSends + MaxBatch <= UintMax
    PROVE  Spec => []ConfirmsCounted
<1>1. CInv => ConfirmsCounted
  BY DEF CInv, Counted, ConfirmsCounted
<1> QED BY <1>1, CountInvariance, PTL

\* The data phase has a complete envelope, and no confirm function will run on the
\* state that replaces it (_Data_Handler).
THEOREM DataPhaseIsSettled ==
    ASSUME MaxSends + MaxBatch <= UintMax
    PROVE  Spec => []DataPhaseSettled
<1>1. CInv => DataPhaseSettled
  <2> SUFFICES ASSUME CInv, waiting_for_data
               PROVE  /\ hello /\ mailform /\ recipients # {}
                      /\ unsended_responds = 0
                      /\ RcptReplies = {}
    BY DEF DataPhaseSettled
  <2>1. hello /\ mailform /\ recipients # {}
    BY DEF CInv, IInv, CommandOrder, DataHasRecipient
  <2>2. unsended_responds = 0
    BY DEF CInv, DataUncounted
  <2>3. Cardinality(Confirms(sends)) = 0 /\ IsFiniteSet(Confirms(sends))
    BY <2>2, Counts, ConfirmsFinite
  <2>4. RcptReplies = {}
    BY <2>3, Counts, FS_EmptySet
  <2> QED BY <2>1, <2>2, <2>4
<1> QED BY <1>1, CountInvariance, PTL

-----------------------------------------------------------------------------
(* What a stop leaves. *)

\* No operation of the list is outstanding.
NoPending(ops) == \A i \in DOMAIN ops : ops[i].st # "pending"

\* One operation more that has its result, and one less.
LEMMA SettledAppend ==
    ASSUME NEW R, NEW ops \in Seq(R), NoPending(ops), NEW x \in R, x.st # "pending"
    PROVE  NoPending(Append(ops, x))
<1>1. /\ DOMAIN Append(ops, x) = 1..(Len(ops) + 1) /\ DOMAIN ops = 1..Len(ops)
      /\ Append(ops, x)[Len(ops) + 1] = x
      /\ \A i \in 1..Len(ops) : Append(ops, x)[i] = ops[i]
  OBVIOUS
<1>2. \A i \in 1..(Len(ops) + 1) : i \in 1..Len(ops) \/ i = Len(ops) + 1
  OBVIOUS
<1> QED BY ONLY <1>1, <1>2, NoPending(ops), x.st # "pending" DEF NoPending

LEMMA SettledTail ==
    ASSUME NEW R, NEW ops \in Seq(R), ops # <<>>, NoPending(ops)
    PROVE  NoPending(Tail(ops))
<1>1. \A i \in DOMAIN Tail(ops) : i + 1 \in DOMAIN ops /\ Tail(ops)[i] = ops[i + 1]
  OBVIOUS
<1> QED BY ONLY <1>1, NoPending(ops) DEF NoPending

\* Cancelling leaves no operation outstanding.
LEMMA CancelledSettled ==
    ASSUME NEW R \in {Send, Read}, NEW ops \in Seq(R)
    PROVE  NoPending(Cancelled(ops))
<1> SUFFICES ASSUME NEW i \in DOMAIN ops PROVE Cancelled(ops)[i].st # "pending"
  BY DEF NoPending, Cancelled
<1>1. PICK o : o = ops[i]
  OBVIOUS
<1>2. o \in Send \cup Read
  <2>1. ops[i] \in R
    OBVIOUS
  <2> QED BY <1>1, <2>1
<1>3. [o EXCEPT !.st = "failed"].st = "failed"
  <2>1. CASE o \in Send
    BY ONLY <2>1 DEF Send
  <2>2. CASE o \in [kind : {"cmd"}, st : Result, batch : Seq(Cmd)]
    BY ONLY <2>2
  <2>3. CASE o \in [kind : {"data"}, st : Result, complete : BOOLEAN]
    BY ONLY <2>3
  <2> QED BY ONLY <1>2, <2>1, <2>2, <2>3 DEF Read
<1>4. Cancelled(ops)[i]
         = IF o.st = "pending" THEN [o EXCEPT !.st = "failed"] ELSE o
  BY ONLY <1>1 DEF Cancelled
<1> QED BY ONLY <1>3, <1>4

\* stop(), the first time or again.
LEMMA StopSettles ==
    ASSUME NEW ss \in Seq(Send), NEW rs \in Seq(Read), StopWith(ss, rs),
           stop_inited \in BOOLEAN,
           stop_inited => NoPending(ss) /\ NoPending(rs)
    PROVE  NoPending(sends') /\ NoPending(reads')
<1>1. CASE stop_inited
  BY <1>1 DEF StopWith
<1>2. CASE ~stop_inited
  <2>1. sends' = Cancelled(ss) /\ reads' = Cancelled(rs)
    BY <1>2 DEF StopWith
  <2>2. NoPending(Cancelled(ss)) /\ NoPending(Cancelled(rs))
    BY CancelledSettled
  <2> QED BY <2>1, <2>2
<1> QED BY <1>1, <1>2

\* The session that has stopped has no operation outstanding.
Settled == stop_inited => NoPending(sends) /\ NoPending(reads)

\* On the closed socket a reply fails at once.
LEMMA SentSettled ==
    ASSUME IInv, Settled, stop_inited,
           NEW code \in {"positive", "negative"}, NEW c \in Addr \cup {NoAddr},
           NEW ss \in Sent(code, c)
    PROVE  NoPending(ss)
<1>1. PICK x : x = [code |-> code, confirm |-> c, st |-> "failed"]
  OBVIOUS
<1>2. ss = Append(sends, x)
  BY <1>1 DEF Sent, SendResults
<1>3. "failed" \in Result
  BY DEF Result
<1>4. x \in Send /\ x.st # "pending"
  BY <1>1, <1>3, Records
<1>5. sends \in Seq(Send) /\ NoPending(sends)
  BY DEF IInv, TypeOK, Settled
<1> QED BY ONLY <1>2, <1>4, <1>5, SettledAppend

\* A command of a transaction that stops nothing.
LEMMA AnswerSettled ==
    ASSUME IInv, Settled,
           NEW code \in {"positive", "negative"}, NEW c \in Addr \cup {NoAddr},
           SendRespond(code, c), UNCHANGED <<reads, stop_inited>>
    PROVE  Settled'
BY SentSettled DEF SendRespond, Settled

LEMMA RefuseSettled == ASSUME IInv, Settled, Refuse PROVE Settled'
<1>1. SendRespond("negative", NoAddr) /\ UNCHANGED <<reads, stop_inited>>
  BY DEF Refuse
<1> QED BY <1>1, AnswerSettled

LEMMA CloseSettled ==
    ASSUME IInv, Settled, NEW code \in {"positive", "negative"}, ReplyAndClose(code)
    PROVE  Settled'
<1>1. PICK ss \in Sent(code, NoAddr) : StopWith(ss, reads)
  BY DEF ReplyAndClose
<1>2. ss \in Seq(Send) /\ reads \in Seq(Read) /\ stop_inited \in BOOLEAN
  BY SentType DEF IInv, TypeOK
<1>3. stop_inited => NoPending(ss) /\ NoPending(reads)
  BY SentSettled DEF Settled
<1> QED BY <1>1, <1>2, <1>3, StopSettles DEF Settled

LEMMA TransactionSettled == ASSUME IInv, Settled, Transaction PROVE Settled'
<1>1. CASE Helo
  <2>1. CASE Parses
    BY <1>1, <2>1, AnswerSettled DEF Helo, Accept
  <2>2. CASE ~Parses
    BY <1>1, <2>2, CloseSettled DEF Helo
  <2> QED BY <2>1, <2>2
<1>2. CASE Ehlo \/ Unknown \/ Excess
  BY <1>2, RefuseSettled DEF Ehlo, Unknown, Excess
<1>3. CASE Mail \/ Data
  <2>1. Refuse \/ Accept(NoAddr)
    BY <1>3 DEF Mail, Data
  <2> QED BY <2>1, RefuseSettled, AnswerSettled DEF Accept
<1>4. CASE Rcpt
  <2>1. PICK a : /\ a = Head(lines_list).addr
                 /\ Refuse \/ Accept(NoAddr) \/ (Accept(a) /\ mailform /\ Parses)
    BY <1>4 DEF Rcpt
  <2>2. Parses => a \in Addr
    BY <1>4, <2>1, TakeFacts DEF Rcpt, Take, Parses, Cmd, IInv
  <2> QED BY <2>1, <2>2, RefuseSettled, AnswerSettled DEF Accept
<1>5. CASE Rset \/ Other
  BY <1>5, AnswerSettled DEF Rset, Other, Accept
<1>6. CASE Quit
  BY <1>6, CloseSettled DEF Quit
<1>7. CASE EndOfBatch
  <2>1. PICK r : r = IF waiting_for_data THEN DataRead(ReadResult, FALSE)
                     ELSE CmdRead(ReadResult, <<>>)
    OBVIOUS
  <2>2. r.st = ReadResult
    BY <2>1 DEF DataRead, CmdRead
  <2>3. reads = <<>> /\ reads' = Append(reads, r) /\ UNCHANGED <<sends, stop_inited>>
    BY <1>7, <2>1 DEF EndOfBatch, ReadData, ReadCommand, StartRead, IInv, ReadCount
  <2>4. DOMAIN reads' = {1} /\ reads'[1] = r
    BY <2>3
  <2> QED BY ONLY <2>2, <2>3, <2>4, Settled DEF Settled, NoPending, ReadResult
<1> QED BY <1>1, <1>2, <1>3, <1>4, <1>5, <1>6, <1>7 DEF Transaction

\* The socket gives results only to operations that are outstanding.
LEMMA SocketSettled == ASSUME Settled, Socket PROVE Settled'
<1>1. UNCHANGED stop_inited
  BY DEF Socket, SocketSends, SocketReads
<1>2. stop_inited => FALSE
  BY DEF Socket, SocketSends, SocketReads, Settled, NoPending
<1> QED BY <1>1, <1>2 DEF Settled

LEMMA SendHandlerSettled == ASSUME IInv, Settled, SendHandler PROVE Settled'
<1>1. /\ sends # <<>> /\ sends \in Seq(Send) /\ reads \in Seq(Read)
      /\ stop_inited \in BOOLEAN
  BY DEF SendHandler, ReplySent, ReplyFailed, IInv, TypeOK
<1>2. Tail(sends) \in Seq(Send)
  BY <1>1
<1>3. stop_inited => NoPending(Tail(sends)) /\ NoPending(reads)
  BY <1>1, SettledTail DEF Settled
<1>4. CASE ReplySent
  BY <1>3, <1>4 DEF ReplySent, Settled
<1>5. CASE ReplyFailed
  <2>1. StopWith(Tail(sends), reads)
    BY <1>5 DEF ReplyFailed
  <2> QED BY <1>1, <1>2, <1>3, <2>1, StopSettles DEF Settled
<1> QED BY <1>4, <1>5 DEF SendHandler

LEMMA ReadHandlerSettled == ASSUME IInv, Settled, ReadHandler PROVE Settled'
<1>0. reads # <<>>
  BY DEF ReadHandler, ReadFailed, CommandsRead, DataPart, DataAccepted, DataArrived
<1>1. reads # <<>> /\ sends \in Seq(Send) /\ stop_inited \in BOOLEAN /\ <<>> \in Seq(Read)
  BY <1>0 DEF IInv, TypeOK
<1>2. Tail(reads) = <<>>
  BY <1>1, HeadRead
<1>3. NoPending(<<>>)
  BY DEF NoPending
<1>4. CASE ReadFailed
  <2>1. StopWith(sends, <<>>)
    BY <1>2, <1>4 DEF ReadFailed
  <2> QED BY <1>1, <1>3, <2>1, StopSettles DEF Settled
<1>5. CASE CommandsRead
  BY <1>2, <1>3, <1>5 DEF CommandsRead, Settled
<1>6. CASE DataPart
  <2>1. PICK r : r = DataRead(ReadResult, FALSE)
    OBVIOUS
  <2>2. reads' = Append(<<>>, r) /\ r.st = ReadResult /\ UNCHANGED <<sends, stop_inited>>
    BY <1>2, <1>6, <2>1 DEF DataPart, DataRead
  <2>3. DOMAIN reads' = {1} /\ reads'[1] = r
    BY <2>2
  <2> QED BY ONLY <2>2, <2>3, Settled DEF Settled, NoPending, ReadResult
<1>7. CASE DataAccepted
  <2>1. SendRespond("positive", NoAddr) /\ UNCHANGED stop_inited
        /\ (stop_inited => reads' = <<>>)
    BY <1>2, <1>7 DEF DataAccepted
  <2>2. stop_inited => NoPending(sends')
    BY <2>1, SentSettled DEF SendRespond
  <2> QED BY <1>3, <2>1, <2>2 DEF Settled
<1> QED BY <1>4, <1>5, <1>6, <1>7 DEF ReadHandler

\* StoppedWaitsForNothing: once stop() was called no reply and no read is
\* outstanding, whichever handlers were queued before it (AEvSmtpSession::_ev_stop,
\* _send_respond, _read_command, _read_data, _data_acceepted).
THEOREM StoppedSessionIsSettled == Spec => []StoppedWaitsForNothing
<1>1. Init => Settled
  BY DEF Init, Settled
<1>2. IInv /\ Settled /\ [Next]_vars => Settled'
  <2> SUFFICES ASSUME IInv, Settled, [Next]_vars PROVE Settled'
    OBVIOUS
  <2>1. CASE Next
    BY <2>1, TransactionSettled, SocketSettled, SendHandlerSettled, ReadHandlerSettled
       DEF Next
  <2>2. CASE UNCHANGED vars
    BY <2>2 DEF vars, Settled
  <2> QED BY <2>1, <2>2
<1>3. Settled => StoppedWaitsForNothing
  BY DEF Settled, NoPending, StoppedWaitsForNothing
<1> QED BY <1>1, <1>2, <1>3, Invariance, PTL DEF Spec

=============================================================================
