----------------------------- MODULE HdfsUtils ------------------------------
(***************************************************************************)
(* How the reader takes a URL apart: hdfs::utils, with what it uses of     *)
(* hstrings.  A string is a sequence of characters.  What may fail returns *)
(* the set of its results: one, or none where the code returns false.      *)
(***************************************************************************)
EXTENDS Naturals, SequencesExt

Digit == {"0", "1"}  \* these two stand for all of them

\* is_digit_only
IsDigitOnly(s) == s # <<>> /\ \A i \in DOMAIN s : s[i] \in Digit

\* The places of a character at or behind `first`, in order.
Places(s, delim, first) ==
    LET places[n \in 0..Len(s)] ==
            IF n = 0 THEN <<>>
            ELSE IF n >= first /\ s[n] = delim THEN Append(places[n - 1], n)
            ELSE places[n - 1]
    IN  places[Len(s)]

\* splitted, which keeps empty parts
Splitted(s, delim) ==
    LET ends == Append(Places(s, delim, 1), Len(s) + 1)
    IN  [i \in DOMAIN ends |->
            SubSeq(s, IF i = 1 THEN 1 ELSE ends[i - 1] + 1, ends[i] - 1)]

\* Mutant of ParseUrl: the slashes before the domain are not removed.
ParseUrlMutantSlashes(url) ==
    LET parts == Splitted(url, ":")
    IN  IF Len(parts) = 3 /\ IsPrefix(<<"/", "/">>, parts[2]) /\ IsDigitOnly(parts[3])
        THEN {[domain |-> parts[2], port |-> parts[3]]}
        ELSE {}

\* parse_url.  The protocol may be anything, and the domain may be empty.
ParseUrl(url) ==
    LET parts == Splitted(url, ":")
    IN  IF Len(parts) = 3 /\ IsPrefix(<<"/", "/">>, parts[2]) /\ IsDigitOnly(parts[3])
        THEN {[domain |-> SubSeq(parts[2], 3, Len(parts[2])), port |-> parts[3]]}
        ELSE {}

\* parse_location: the third slash, one in front not counted, begins the query.
ParseLocation(location) ==
    LET slashes == Places(location, "/", 2)
    IN  IF Len(slashes) < 3 THEN {}
        ELSE {[endpoint |-> endpoint,
               query |-> SubSeq(location, slashes[3], Len(location))] :
                 endpoint \in ParseUrl(SubSeq(location, 1, slashes[3] - 1))}

=============================================================================
