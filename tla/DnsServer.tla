----------------------------- MODULE DnsServer -----------------------------
(***************************************************************************)
(* The packages as RFC 1035 has them: the question of a client, and what a *)
(* name server that compresses names makes of the records it knows.        *)
(*                                                                         *)
(* A question has a name and a type; a record has a type, a preference, an *)
(* answer (a name, or an address as text) and, for an address, its bytes.  *)
(***************************************************************************)
EXTENDS Integers, SequencesExt, FiniteSetsExt

\* What of a name can be sent: RFC 1035 has sections of up to 63 characters.
Legal(name) == \A i \in DOMAIN name : Len(name[i]) \in 1..63

Word(n) == <<n \div 256, n % 256>>

Plain(name) == FlattenSeq([i \in DOMAIN name |-> <<Len(name[i])>> \o name[i]]) \o <<0>>

\* What a server can know of: names of up to 255 bytes.
Known(name) == Legal(name) /\ Len(Plain(name)) <= 255

\* Characters and bytes are numbers, and so are types.
Byte == 0..2^8 - 1
Short == 0..2^16 - 1
Name == Seq(Seq(Byte))
ZoneRecord == [type : Short, preference : Short, answer : Name, ip : Seq(Byte)]

\* A name that ends in a pointer to the longest end it has in common with
\* `known`, which begins behind the header.
Compressed(name, known) ==
    LET end(s, i) == SubSeq(s, i, Len(s))
        common == {p \in (DOMAIN name) \X (DOMAIN known) :
                      end(name, p[1]) = end(known, p[2])}
        first == CHOOSE p \in common : \A q \in common : p[1] <= q[1]
        head == Plain(SubSeq(name, 1, first[1] - 1))
    IN  IF common = {} THEN Plain(name)
        ELSE Front(head) \o Word(192 * 256 + 11 + Len(Plain(SubSeq(known, 1, first[2] - 1))))

WireRequest(id, question) ==
    Word(id) \o <<1, 0, 0, 1, 0, 0, 0, 0, 0, 0>>
        \o Plain(question.name) \o Word(question.type) \o Word(1)

\* A record belongs to the name asked for, behind an alias to the aliased name.
Meaning(question, records) ==
    LET aliases(i) == {j \in 1..i - 1 : records[j].type = 5}
        owner(i) == IF aliases(i) = {} THEN question.name
                    ELSE records[Max(aliases(i))].answer
    IN  [i \in DOMAIN records |->
            [req_name |-> owner(i), type |-> records[i].type,
             preference |-> records[i].preference, answer |-> records[i].answer]]

WireRespond(id, rcode, question, records, compress) ==
    LET name(n) == IF compress THEN Compressed(n, question.name) ELSE Plain(n)
        data(r) == CASE r.type = 1 -> r.ip
                     [] r.type = 15 -> Word(r.preference) \o name(r.answer)
                     [] OTHER -> name(r.answer)
        record(i) == name(Meaning(question, records)[i].req_name)
                        \o Word(records[i].type) \o <<0, 1, 0, 0, 1, 44>>
                        \o Word(Len(data(records[i]))) \o data(records[i])
    IN  Word(id) \o <<129, 128 + rcode, 0, 1>> \o Word(Len(records)) \o <<0, 0, 0, 0>>
            \o Plain(question.name) \o Word(question.type) \o <<0, 1>>
            \o FlattenSeq([i \in DOMAIN records |-> record(i)])

=============================================================================
