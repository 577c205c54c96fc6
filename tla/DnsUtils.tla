------------------------------ MODULE DnsUtils ------------------------------
(***************************************************************************)
(* The codec of DNS packages, dns::utils, as pure operators on sequences   *)
(* of bytes.  Offsets begin with 0, as they do in the code.                *)
(*                                                                         *)
(* A domain name is what hstrings::split makes of it: the sequence of its  *)
(* parts, each a sequence of characters.  So "a..b" has an empty part, and *)
(* the empty string is one empty part.                                     *)
(*                                                                         *)
(* What reads a package returns the set of its results: one, or none where *)
(* the code leaves the package and its behaviour is not defined.           *)
(***************************************************************************)
EXTENDS Integers, SequencesExt

DnsQType == [A |-> 1, PTR |-> 12, MX |-> 15]

\* sizeof(DnsPkgHeaderMap): ident, flags and the four counts.
HeaderSize == 12

-----------------------------------------------------------------------------
\* buff_read of n bytes
BuffRead(pkg, at, n) ==
    LET value[i \in 0..n] == IF i = 0 THEN 0 ELSE 256 * value[i - 1] + pkg[at + i]
    IN  value[n]

\* buff_write of 16 bits.  The cast of a double above 127 to char is undefined;
\* it keeps the low byte in this build (x86-64).
BuffWrite(val) == <<val \div 256, val % 256>>

\* set_flag, in flags that are 0: the first bit is the highest.
SetFlag(flag) ==
    IF flag <= 7 THEN <<2^(7 - flag), 0>> ELSE <<0, 2^(15 - flag)>>

\* get_error of the second byte of the flags
GetError(pkg) == pkg[4] % 16

\* write_step_qdn_to_buff
WriteQdn(name) ==
    FlattenSeq([i \in DOMAIN name |-> <<Len(name[i]) % 256>> \o name[i]]) \o <<0>>

\* std::to_string of a byte
Decimal(n) ==
    IF n < 10 THEN <<48 + n>>
    ELSE IF n < 100 THEN <<48 + (n \div 10), 48 + (n % 10)>>
    ELSE <<48 + (n \div 100), 48 + ((n \div 10) % 10), 48 + (n % 10)>>

\* ip_step_read
IpRead(pkg, at) == [i \in 1..4 |-> Decimal(pkg[at + i])]

\* is_ip_v4, by inet_pton
IsIpV4(name) ==
    Len(name) = 4 /\ \A i \in 1..4 : \E n \in 0..255 : name[i] = Decimal(n)

InAddrArpa == <<<<105, 110, 45, 97, 100, 100, 114>>, <<97, 114, 112, 97>>>>

\* Mutant of IpToArpa: the octets in the order of the address.
IpToArpaMutantForward(ip) == ip \o InAddrArpa

\* ip_to_arpa, the empty string for what does not have four octets
IpToArpa(ip) == IF Len(ip) = 4 THEN Reverse(ip) \o InAddrArpa ELSE <<<<>>>>

\* is_fqdn.  The dot is between the parts, so it is no character of one.
IsFqdn(name) ==
    /\ Len(name) >= 2
    /\ \A i \in DOMAIN name :
          /\ name[i] # <<>>
          /\ \A j \in DOMAIN name[i] :
                name[i][j] \in {45} \union (48..57) \union (65..90) \union (97..122)

\* create_request refuses the string: an address is asked for with PTR, and
\* every string has to look like a domain name, which an address does.
ReqStrErr(name, type) == (type = DnsQType.PTR /\ ~IsIpV4(name)) \/ ~IsFqdn(name)

\* DnsRequest as create_request() leaves it, with one question of class IN
DnsRequest(id, name, type) == [id |-> id, q_count |-> 1, name |-> name, type |-> type]

\* request_buff_write, of a request with one question.  Flag 7 is RD.
RequestWritten(req) ==
    BuffWrite(req.id) \o SetFlag(7)
        \o BuffWrite(req.q_count) \o BuffWrite(0) \o BuffWrite(0) \o BuffWrite(0)
        \o WriteQdn(IF req.type = DnsQType.PTR THEN IpToArpa(req.name) ELSE req.name)
        \o BuffWrite(req.type) \o BuffWrite(1)

\* DnsPkgAnswer, of which class, ttl and dsize are used by nobody
DnsPkgAnswer(name, type, preference, answer) ==
    [req_name |-> name, type |-> type, preference |-> preference, answer |-> answer]

-----------------------------------------------------------------------------
\* Mutant of ReadQdn: the cursor goes on where the pointer points to.
ReadQdnMutantFollows(pkg, at) ==
    LET read[left \in 0..Len(pkg)] == [p \in Nat |->
            IF left = 0 \/ p >= Len(pkg) THEN {}
            ELSE IF pkg[p + 1] = 0 THEN {[name |-> <<>>, next |-> p + 1]}
            ELSE IF pkg[p + 1] >= 192 THEN read[left - 1][pkg[p + 2]]
            ELSE {[r EXCEPT !.name = <<SubSeq(pkg, p + 2, p + 1 + pkg[p + 1])>> \o @] :
                    r \in read[left - 1][p + 1 + pkg[p + 1]]}]
    IN  read[Len(pkg)][at]

\* buff_step_read_qdn: the name at an offset, and the cursor behind it.  A byte
\* with its two upper bits set begins a pointer to the rest of the name, behind
\* which the cursor stays; any other byte but 0 is the length of a section.
\* Not defined: to leave the package, to follow pointers in a circle, and to
\* read the name of the root, which pop_back() takes a character from.
ReadQdn(pkg, at) ==
    LET last(p) == p + (IF pkg[p + 1] >= 192 THEN 1 ELSE pkg[p + 1])
        read[left \in 0..Len(pkg)] == [p \in Nat |->
            IF left = 0 \/ p >= Len(pkg) \/ last(p) >= Len(pkg) THEN {}
            ELSE IF pkg[p + 1] = 0 THEN {[name |-> <<>>, next |-> p + 1]}
            ELSE IF pkg[p + 1] >= 192
            THEN {[r EXCEPT !.next = p + 2] : r \in read[left - 1][BuffRead(pkg, p, 2) % 2^14]}
            ELSE {[r EXCEPT !.name = <<SubSeq(pkg, p + 2, last(p) + 1)>> \o @] :
                    r \in read[left - 1][last(p) + 1]}]
    IN  {r \in read[Len(pkg)][at] : r.name # <<>>}

\* A question of a respond is passed over: its name, type and class.
QuestionRead(pkg, res) ==
    {[res EXCEPT !.cursor = name.next + 4] : name \in ReadQdn(pkg, res.cursor)}

\* The data of an answer of a known type; other data is not passed over.
DataRead(pkg, at, type) ==
    CASE at + 4 <= Len(pkg) /\ type = DnsQType.A ->
            {[preference |-> 0, answer |-> IpRead(pkg, at), next |-> at + 4]}
      [] type = DnsQType.PTR ->
            {[preference |-> 0, answer |-> r.name, next |-> r.next] : r \in ReadQdn(pkg, at)}
      [] at + 2 <= Len(pkg) /\ type = DnsQType.MX ->
            {[preference |-> BuffRead(pkg, at, 2), answer |-> r.name, next |-> r.next] :
                r \in ReadQdn(pkg, at + 2)}
      [] type \notin {DnsQType.A, DnsQType.PTR, DnsQType.MX} ->
            {[preference |-> 0, answer |-> <<>>, next |-> at]}
      [] OTHER -> {}

\* An answer: its name, 10 bytes from the type to dsize, and its data.
AnswerRead(pkg, res) ==
    UNION {{[cursor |-> data.next,
             alist |-> Append(res.alist,
                DnsPkgAnswer(owner.name, BuffRead(pkg, owner.next, 2),
                             data.preference, data.answer))] :
            data \in IF owner.next + 10 > Len(pkg) THEN {}
                     ELSE DataRead(pkg, owner.next + 10, BuffRead(pkg, owner.next, 2))} :
        owner \in ReadQdn(pkg, res.cursor)}

\* respond_buff_parse, for a request with this identifier.  Truncation, and the
\* flag that tells a respond from a request, are not looked at.
RespondParsed(pkg, req_id) ==
    LET q_count == BuffRead(pkg, 4, 2)
        a_count == BuffRead(pkg, 6, 2)
        questions[n \in 0..q_count] ==
            IF n = 0 THEN {[cursor |-> HeaderSize, alist |-> <<>>]}
            ELSE UNION {QuestionRead(pkg, res) : res \in questions[n - 1]}
        answers[n \in 0..a_count] ==
            IF n = 0 THEN questions[q_count]
            ELSE UNION {AnswerRead(pkg, res) : res \in answers[n - 1]}
    IN  CASE BuffRead(pkg, 0, 2) # req_id -> {[error |-> "id_match_err", alist |-> <<>>]}
          [] BuffRead(pkg, 0, 2) = req_id /\ GetError(pkg) # 0 ->
                {[error |-> "resolv_err", alist |-> <<>>]}
          [] OTHER -> {[error |-> "noerror", alist |-> res.alist] : res \in answers[a_count]}

-----------------------------------------------------------------------------
\* get_mx_sorted: what std::map::insert keeps, the first of every preference.
GetMxSorted(alist) ==
    [p \in {alist[i].preference : i \in DOMAIN alist} |->
        alist[CHOOSE i \in DOMAIN alist :
                 /\ alist[i].preference = p
                 /\ \A j \in 1..i - 1 : alist[j].preference # p].answer]

\* get_rand_rec_value: the values it may return.
RandRecValue(alist) ==
    CASE Len(alist) = 0 -> {<<>>}
      [] Len(alist) = 1 -> {alist[1].answer}
      [] OTHER -> {alist[(r % (Len(alist) - 1)) + 1].answer : r \in 0..Len(alist)}

=============================================================================
