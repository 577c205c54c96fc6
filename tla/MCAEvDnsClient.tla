--------------------------- MODULE MCAEvDnsClient ---------------------------
\* AEvDnsClient with a few names, records and replies.
EXTENDS AEvDnsClient

\* "a.b", "m.a.b", "b.a"; an address; what is refused; a part that is too long.
ab == <<<<97>>, <<98>>>>
mab == <<<<109>>, <<97>>, <<98>>>>
ba == <<<<98>>, <<97>>>>
ip == <<<<49>>, <<50, 53, 53>>, <<52, 48>>, <<48>>>>
Refused == {<<<<97>>>>, <<<<97>>, <<>>>>, <<<<97, 95>>, <<98>>>>, <<<<>>>>}
TooLong == <<[i \in 1..64 |-> 97], <<98>>>>

\* n parts of k characters: 245 bytes, so that a reply without compression is cut;
\* and names of more than 512 and 1024 bytes.
Parts(n, k) == [j \in 1..n |-> [i \in 1..k |-> 97 + (j % 26)]]
Long == {Parts(4, 60), Parts(9, 60), Parts(17, 63)}

SmallQuery ==
    [name : {ab, ip} \union Refused, type : {1, 12, 15}]
        \union [name : {TooLong} \union Long, type : {1}]

Address == [type |-> 1, preference |-> 0, answer |-> ip, ip |-> <<1, 255, 40, 0>>]
Other == [Address EXCEPT !.answer = <<<<56>>, <<56>>, <<56>>, <<56>>>>, !.ip = <<8, 8, 8, 8>>]
Record ==
    {Address, Other}
        \union [type : {5, 12}, preference : {0}, answer : {mab, ba}, ip : {<<>>}]
        \union [type : {15}, preference : {10, 300}, answer : {mab, ba, <<>>}, ip : {<<>>}]

SmallReply ==
    [rcode : {0}, records : UNION {[1..k -> Record] : k \in 0..2}, compress : BOOLEAN]
        \union [rcode : {3}, records : {<<>>}, compress : {TRUE}]

=============================================================================
