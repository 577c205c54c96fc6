----------------------------- MODULE SmtpStream -----------------------------
(***************************************************************************)
(* The bytes of one SMTP connection: how aev::AEvSmtpSession reads them    *)
(* into SmtpCmdBuffer and SmtpDataBuffer, and how PBufferAbstract splits   *)
(* them, wherever the network cuts the stream.                             *)
(*                                                                         *)
(* SmtpSession has what the lines do; here a line is either DATA, with     *)
(* which the session may go on to read a message, or any other.            *)
(***************************************************************************)
EXTENDS Buff, Sequences, SequencesExt

CONSTANTS
    Byte,         \* what a stream is made of
    Stream,       \* what a client may send
    CmdChunk,     \* what _read_command releases
    DataChunk,    \* what _read_data releases
    KeepPercent   \* mem_reduce keeps a buffer with more than this unparsed

\* PBufferAbstract has its own calculate_mem, which keeps two blocks free.
ASSUME StreamAssumption ==
    /\ {"D", "r", "n", "."} \subseteq Byte
    /\ \A s \in Stream : s \in Seq(Byte)
    /\ FreeBlocks >= 2
    /\ CmdChunk \in Nat \ {0}
    /\ DataChunk \in Nat \ {0}
    /\ KeepPercent \in 0..99

VARIABLES
    stream,    \* what the client sends
    pos,       \* how much of it was read
    stage,     \* a read for commands or for data is outstanding
    cmd,       \* _read_cmd_buffer
    msg,       \* message_data
    cmdBytes,  \* history: the bytes read as commands
    lines,     \* history: the lines taken from the command buffer
    messages   \* history: messages handed over, and what was read for them

vars == <<stream, pos, stage, cmd, msg, cmdBytes, lines, messages>>

CRLF == <<"r", "n">>
DataEnd == <<"r", "n", ".", "r", "n">>
DataLine == <<"D">>

-----------------------------------------------------------------------------
\* PBufferAbstract adds to the buffer its contents and two offsets.
NewBuffer ==
    [data |-> <<>>, unparsed |-> 0, unsearched |-> 0,
     top |-> NewMem.top, size |-> NewMem.size, reserved |-> NewMem.reserved]

Buffer ==
    [data : Seq(Byte), unparsed : Nat, unsearched : Nat,
     top : Nat, size : Nat, reserved : Nat]

\* std::search from offset i: where the matches of the delimiter end.
MatchEnds(data, delim, i) ==
    {j \in (i + Len(delim))..Len(data) : SubSeq(data, j - Len(delim) + 1, j) = delim}

\* The ends of the parts that parse() finds, one search behind the other.
Ends(data, delim, from) ==
    LET ends[i \in 0..Len(data)] ==
            LET found == MatchEnds(data, delim, i)
            IN IF found = {} THEN <<>> ELSE <<Min(found)>> \o ends[Min(found)]
    IN ends[from]

\* Mutants of Searched: the condition is missing; the whole buffer counts as
\* searched, so that a delimiter the network has cut is not found.
SearchedMutantUnchecked(b, delim, unparsed, from) == b.top - Len(delim)

SearchedMutantNoOverlap(b, delim, unparsed, from) ==
    IF b.top - unparsed > Len(delim) THEN b.top ELSE from

\* _unsearched_offset behind a search that has found nothing more.
Searched(b, delim, unparsed, from) ==
    IF b.top - unparsed > Len(delim) THEN b.top - Len(delim) ELSE from

\* accept() of bytes that were written to the buffer, without what it parses.
Filled(b, bytes) == [Accept(b, Len(bytes)) EXCEPT !.data = @ \o bytes]

NewEnds(b, delim) == Ends(b.data, delim, b.unsearched)

\* What parse() does to the offsets.
Parsed(b, delim) ==
    LET ends == NewEnds(b, delim)
        unparsed == IF ends = <<>> THEN b.unparsed ELSE Last(ends)
        from == IF ends = <<>> THEN b.unsearched ELSE unparsed
    IN [b EXCEPT !.unparsed = unparsed,
                 !.unsearched = Searched(b, delim, unparsed, from)]

\* The parts that parse() reports, without their delimiters.
Parts(b, delim) ==
    LET ends == NewEnds(b, delim)
    IN [i \in DOMAIN ends |->
           SubSeq(b.data, (IF i = 1 THEN b.unparsed ELSE ends[i - 1]) + 1,
                  ends[i] - Len(delim))]

Redundant(b) == SubSeq(b.data, b.unparsed + 1, b.top)

\* PBufferAbstract::reset
ResetParser(b) ==
    [Reset(b) EXCEPT !.data = <<>>, !.unparsed = 0, !.unsearched = 0]

\* Mutant of MemReduce: a buffer that could be reduced is kept.
MemReduceMutantNever(b) == IF Redundant(b) = <<>> THEN ResetParser(b) ELSE b

\* mem_reduce: the unparsed rest is written to the beginning of the buffer,
\* unless it is a large part of it.
MemReduce(b) ==
    LET rest == Redundant(b)
    IN IF rest = <<>> THEN ResetParser(b)
       ELSE IF Len(rest) * 100 > KeepPercent * b.top THEN b
       ELSE Release(Parsed(Filled(Release(ResetParser(b), Len(rest)), rest), CRLF),
                    Avail(b))

-----------------------------------------------------------------------------
\* The session has sent its greeting and reads commands.
Init ==
    /\ stream \in Stream
    /\ pos = 0
    /\ stage = "cmd"
    /\ cmd = Release(NewBuffer, CmdChunk)
    /\ msg = NewBuffer
    /\ cmdBytes = <<>>
    /\ lines = <<>>
    /\ messages = <<>>

\* A read into buffer b brings so many bytes.
Arrives(b, n) ==
    /\ n <= Avail(b)
    /\ pos + n <= Len(stream)
    /\ pos' = pos + n

Bytes(n) == SubSeq(stream, pos + 1, pos + n)

\* _read_command; release() throws if the buffer is too large.
ReadCommand(b) ==
    IF Overflows(b)
    THEN stage' = "terminated" /\ cmd' = b
    ELSE stage' = "cmd" /\ cmd' = Release(b, CmdChunk)

\* _read_data
ReadData(b) ==
    IF Overflows(b)
    THEN stage' = "terminated" /\ msg' = b
    ELSE stage' = "data" /\ msg' = Release(b, DataChunk)

\* The handler of a read for commands: the bytes are accepted, every line is
\* taken and answered, the buffer is reduced, and the next read is started, for
\* data if a DATA command was accepted.
CommandsRead(n) ==
    LET b == Filled(cmd, Bytes(n))
        new == Parts(b, CRLF)
        rest == MemReduce(Parsed(b, CRLF))
    IN /\ stage = "cmd"
       /\ Arrives(cmd, n)
       /\ lines' = lines \o new
       /\ cmdBytes' = cmdBytes \o Bytes(n)
       /\ \/ ReadCommand(rest) /\ UNCHANGED msg
          \/ /\ \E i \in DOMAIN new : new[i] = DataLine
             /\ ReadData(ResetParser(msg))
             /\ cmd' = rest
       /\ UNCHANGED <<stream, messages>>

\* Mutant of DataSize: every part sets data_end_offset.
DataSizeMutantLast(parts) == IF parts = <<>> THEN 0 ELSE Len(Last(parts))

\* SmtpDataBuffer::when_have_new_part: data_end_offset, which is 0 until there is
\* a part that is not empty.
DataSize(parts) ==
    LET full == {i \in DOMAIN parts : parts[i] # <<>>}
    IN IF full = {} THEN 0 ELSE Len(parts[Min(full)])

\* The handler of a read for data: the message is read on, or it is handed over
\* and its buffer replaced, and commands are read again.
DataRead(n) ==
    LET b == Filled(msg, Bytes(n))
        size == DataSize(Parts(b, DataEnd))
    IN /\ stage = "data"
       /\ Arrives(msg, n)
       /\ IF size = 0
          THEN /\ ReadData(Parsed(b, DataEnd))
               /\ UNCHANGED <<cmd, messages>>
          ELSE /\ messages' = Append(messages, [text |-> SubSeq(b.data, 1, size),
                                                read |-> b.data])
               /\ msg' = NewBuffer
               /\ ReadCommand(cmd)
       /\ UNCHANGED <<stream, cmdBytes, lines>>

Next ==
    \/ \E n \in 1..Avail(cmd) : CommandsRead(n)
    \/ \E n \in 1..Avail(msg) : DataRead(n)

Spec == Init /\ [][Next]_vars

-----------------------------------------------------------------------------
OffsetsIn(b) ==
    /\ Len(b.data) = b.top
    /\ b.unparsed \in 0..b.top
    /\ b.unsearched \in b.unparsed..b.top

\* Every variable stays within its type, and the offsets within their buffer.
TypeOK ==
    /\ stream \in Stream
    /\ pos \in 0..Len(stream)
    /\ stage \in {"cmd", "data", "terminated"}
    /\ cmd \in Buffer /\ OffsetsIn(cmd)
    /\ msg \in Buffer /\ OffsetsIn(msg)
    /\ cmdBytes \in Seq(Byte)
    /\ lines \in Seq(Seq(Byte))
    /\ messages \in Seq([text : Seq(Byte), read : Seq(Byte)])
    /\ \A i \in DOMAIN messages : Len(messages[i].text) <= Len(messages[i].read)

\* One byte more: it completes a part, which ends before the delimiter, or is
\* added to the rest.
SplitStep(s, byte, delim) ==
    LET rest == Append(s.rest, byte)
    IN IF IsSuffix(delim, rest)
       THEN [parts |-> Append(s.parts, SubSeq(rest, 1, Len(rest) - Len(delim))),
             rest |-> <<>>]
       ELSE [parts |-> s.parts, rest |-> rest]

\* Bytes split at a delimiter, one byte after the other: the parts, and the rest
\* that has no delimiter yet.
Split(bytes, delim) ==
    LET split[i \in 0..Len(bytes)] ==
            IF i = 0 THEN [parts |-> <<>>, rest |-> <<>>]
            ELSE SplitStep(split[i - 1], bytes[i], delim)
    IN split[Len(bytes)]

\* The lines the session has taken and the rest in its buffer are the bytes read
\* as commands, split at CRLF: no cut of the stream, no search that starts where
\* the last one ended and no reduction of the buffer loses or moves a byte.
LinesAreExact ==
    Split(cmdBytes, CRLF) = [parts |-> lines, rest |-> Redundant(cmd)]

\* A message is handed over as soon as its terminator was read, and is the text
\* before it, unless the terminator comes first: an empty message is not seen to
\* end, and the next terminator ends it.
MessagesAreExact ==
    /\ \A i \in DOMAIN messages :
          LET first == Head(Split(messages[i].read, DataEnd).parts)
          IN first # <<>> => messages[i].text = first
    /\ \A i \in DOMAIN Split(msg.data, DataEnd).parts :
          Split(msg.data, DataEnd).parts[i] = <<>>

\* What a read may fill is allocated, in both buffers, whatever was released,
\* reset and reduced before.
BuffersFit == Fit(cmd) /\ Fit(msg)

\* The command buffer does not grow with the connection: mem_reduce leaves in it
\* nothing, or a rest that is no line yet and is a large part of it.
CommandsReduced ==
    cmd.top = 0 \/ Len(Redundant(cmd)) * 100 > KeepPercent * cmd.top

=============================================================================
