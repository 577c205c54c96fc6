---------------------------- MODULE MCSmtpStream ----------------------------
\* SmtpStream for clients that send a few of the tokens a stream is made of.
EXTENDS SmtpStream

CONSTANT MaxTokens  \* bound: the tokens of a stream

\* A DATA line, a message of one letter, and what an end is made of.
Token == {DataLine \o CRLF, <<"D">> \o DataEnd, DataEnd, CRLF, <<"r">>, <<".">>}

SmallStreams ==
    {FlattenSeq(tokens) : tokens \in UNION {[1..k -> Token] : k \in 0..MaxTokens}}

=============================================================================
