--------------------------- MODULE SmtpStreamProofs ---------------------------
(***************************************************************************)
(* Proofs about SmtpStream: the lines and the messages of a connection are *)
(* those of its bytes, wherever the network cuts the stream, and what a    *)
(* read may fill is allocated, for every stream, block size and limit.     *)
(*                                                                         *)
(* The heart is ReceivedSplit: parse() finds in a buffer, with searches    *)
(* that start where the last read ended less a delimiter, what a split     *)
(* finds that looks at one byte after the other. Both are recursive; their *)
(* recursions and what they agree on are proved by induction over offsets, *)
(* with the sets of SetInduction.                                          *)
(***************************************************************************)
EXTENDS SmtpStream, SetInduction, SequenceTheorems

\* What SubSeq returns.
LEMMA SubSeqFacts ==
    ASSUME NEW s \in Seq(Byte), NEW m \in 1..Len(s) + 1, NEW n \in 0..Len(s), m <= n + 1
    PROVE  /\ SubSeq(s, m, n) \in Seq(Byte)
           /\ Len(SubSeq(s, m, n)) = n - m + 1
           /\ \A i \in 1..n - m + 1 : SubSeq(s, m, n)[i] = s[m + i - 1]
OBVIOUS

\* IsSuffix, byte for byte.
LEMMA SuffixFacts ==
    ASSUME NEW s \in Seq(Byte), NEW t \in Seq(Byte)
    PROVE  IsSuffix(s, t) <=>
              /\ Len(s) <= Len(t)
              /\ \A k \in 1..Len(s) : t[Len(t) - Len(s) + k] = s[k]
<1> DEFINE a == Reverse(s)  b == Reverse(t)
<1>1. /\ a \in Seq(Byte) /\ Len(a) = Len(s) /\ \A i \in 1..Len(s) : a[i] = s[Len(s) - i + 1]
      /\ b \in Seq(Byte) /\ Len(b) = Len(t) /\ \A i \in 1..Len(t) : b[i] = t[Len(t) - i + 1]
  BY DEF Reverse
<1>2. IsSuffix(s, t) <=> Len(a) <= Len(b) /\ SubSeq(a, 1, Len(a)) = SubSeq(b, 1, Len(a))
  BY DEF IsSuffix, IsPrefix
<1> HIDE DEF a, b
<1>3. SubSeq(a, 1, Len(a)) = a
  BY <1>1
<1>4. ASSUME Len(a) <= Len(b)
      PROVE  /\ SubSeq(b, 1, Len(a)) \in Seq(Byte) /\ Len(SubSeq(b, 1, Len(a))) = Len(a)
             /\ \A i \in 1..Len(a) : SubSeq(b, 1, Len(a))[i] = b[i]
  BY <1>1, <1>4
<1>5. ASSUME Len(a) <= Len(b)
      PROVE  SubSeq(b, 1, Len(a)) = a <=> \A i \in 1..Len(a) : b[i] = a[i]
  <2>1. PICK p : p = SubSeq(b, 1, Len(a))
    OBVIOUS
  <2>2. p \in Seq(Byte) /\ Len(p) = Len(a) /\ \A i \in 1..Len(a) : p[i] = b[i]
    BY <1>4, <1>5, <2>1
  <2>3. p = a <=> \A i \in 1..Len(a) : p[i] = a[i]
    BY <1>1, <2>2, SeqEqual
  <2> QED BY <2>1, <2>2, <2>3
<1>6. ASSUME Len(s) <= Len(t), \A i \in 1..Len(a) : b[i] = a[i], NEW k \in 1..Len(s)
      PROVE  t[Len(t) - Len(s) + k] = s[k]
  <2>0. Len(s) - k + 1 \in 1..Len(s)
    OBVIOUS
  <2>1. PICK i \in 1..Len(s) : i = Len(s) - k + 1
    BY <2>0
  <2>2. a[i] = s[k] /\ b[i] = t[Len(t) - Len(s) + k]
    <3>1. Len(s) - i + 1 = k /\ Len(t) - i + 1 = Len(t) - Len(s) + k
      BY <2>1
    <3>2. i \in 1..Len(t)
      BY <1>6
    <3> QED BY <1>1, <3>1, <3>2
  <2> QED BY <1>1, <1>6, <2>2
<1>7. ASSUME Len(s) <= Len(t), \A k \in 1..Len(s) : t[Len(t) - Len(s) + k] = s[k],
             NEW i \in 1..Len(a)
      PROVE  b[i] = a[i]
  <2>1. PICK k \in 1..Len(s) : k = Len(s) - i + 1
    BY <1>1
  <2>2. a[i] = s[k] /\ b[i] = t[Len(t) - Len(s) + k]
    <3>1. Len(t) - i + 1 = Len(t) - Len(s) + k
      BY <1>1, <2>1
    <3>2. i \in 1..Len(t) /\ i \in 1..Len(s)
      BY <1>1, <1>7
    <3> QED BY <1>1, <2>1, <3>1, <3>2
  <2> QED BY <1>7, <2>2
<1> QED BY <1>1, <1>2, <1>3, <1>5, <1>6, <1>7

\* Where a match ends, byte for byte.
LEMMA MatchFacts ==
    ASSUME NEW data \in Seq(Byte), NEW delim \in Seq(Byte), NEW i \in Nat, NEW j
    PROVE  j \in MatchEnds(data, delim, i) <=>
              /\ j \in (i + Len(delim))..Len(data)
              /\ \A k \in 1..Len(delim) : data[j - Len(delim) + k] = delim[k]
<1> SUFFICES ASSUME j \in (i + Len(delim))..Len(data)
             PROVE  SubSeq(data, j - Len(delim) + 1, j) = delim <=>
                        \A k \in 1..Len(delim) : data[j - Len(delim) + k] = delim[k]
  BY DEF MatchEnds
<1>1. PICK m : m = j - Len(delim) + 1
  OBVIOUS
<1>2. m \in 1..Len(data) + 1 /\ j \in 0..Len(data) /\ m <= j + 1 /\ j - m + 1 = Len(delim)
  BY <1>1
<1>3. PICK p : p = SubSeq(data, m, j)
  OBVIOUS
<1>4. /\ p \in Seq(Byte) /\ Len(p) = Len(delim)
      /\ \A k \in 1..Len(delim) : p[k] = data[m + k - 1]
  BY <1>2, <1>3, SubSeqFacts
<1>5. p = delim <=> \A k \in 1..Len(delim) : p[k] = delim[k]
  BY <1>4, SeqEqual
<1>6. \A k \in 1..Len(delim) : m + k - 1 = j - Len(delim) + k
  BY <1>1, <1>2
<1> QED BY <1>1, <1>3, <1>4, <1>5, <1>6

-----------------------------------------------------------------------------
\* Ends: the recursion, and what it returns. A match ends at j.
Match(data, delim, j) ==
    /\ j \in Len(delim)..Len(data)
    /\ \A k \in 1..Len(delim) : data[j - Len(delim) + k] = delim[k]

\* What std::search can find from offset i.
LEMMA FoundFacts ==
    ASSUME NEW data \in Seq(Byte), NEW delim \in Seq(Byte), NEW i \in Nat
    PROVE  MatchEnds(data, delim, i) = {j \in (i + Len(delim))..Len(data) : Match(data, delim, j)}
<1>1. \A j : j \in (i + Len(delim))..Len(data) => j \in Len(delim)..Len(data)
  OBVIOUS
<1>2. ASSUME NEW j
      PROVE  j \in MatchEnds(data, delim, i) <=>
                j \in (i + Len(delim))..Len(data) /\ Match(data, delim, j)
  <2>1. j \in MatchEnds(data, delim, i) <=>
           /\ j \in (i + Len(delim))..Len(data)
           /\ \A k \in 1..Len(delim) : data[j - Len(delim) + k] = delim[k]
    BY ONLY MatchFacts, data \in Seq(Byte), delim \in Seq(Byte), i \in Nat
  <2> QED BY ONLY <1>1, <2>1 DEF Match
<1>3. PICK found : found = MatchEnds(data, delim, i)
  OBVIOUS
<1>4. found = {j \in (i + Len(delim))..Len(data) : Match(data, delim, j)}
  BY ONLY <1>2, <1>3
<1> QED BY ONLY <1>3, <1>4

\* The first match is one, and there is none before it.
LEMMA FirstMatch ==
    ASSUME NEW data \in Seq(Byte), NEW delim \in Seq(Byte), NEW i \in Nat,
           MatchEnds(data, delim, i) # {}
    PROVE  LET e == Min(MatchEnds(data, delim, i))
           IN /\ e \in (i + Len(delim))..Len(data)
              /\ Match(data, delim, e)
              /\ \A j \in (i + Len(delim))..e - 1 : ~Match(data, delim, j)
<1> DEFINE T == MatchEnds(data, delim, i)
<1>1. T = {j \in (i + Len(delim))..Len(data) : Match(data, delim, j)}
  BY FoundFacts
<1> HIDE DEF T
<1>2. T \subseteq Nat /\ T # {}
  BY <1>1 DEF T
<1>3. PICK m \in T : \A y \in T : m <= y
  BY <1>2, Least
<1>4. Min(T) \in T /\ \A y \in T : Min(T) <= y
  BY <1>3 DEF Min
<1>5. PICK e : e = Min(T)
  OBVIOUS
<1>6. e \in T /\ \A y \in T : e <= y
  BY <1>4, <1>5
<1>7. /\ e \in (i + Len(delim))..Len(data)
      /\ Match(data, delim, e)
      /\ \A j \in (i + Len(delim))..e - 1 : ~Match(data, delim, j)
  BY <1>1, <1>6
<1> QED BY <1>5, <1>7 DEF T

\* The right-hand side of the recursion of Ends.
EndsFrom(ends, data, delim, i) ==
    IF MatchEnds(data, delim, i) = {} THEN <<>>
    ELSE <<Min(MatchEnds(data, delim, i))>> \o ends[Min(MatchEnds(data, delim, i))]

\* There is a function that satisfies the recursion of Ends.
LEMMA EndsExist ==
    ASSUME NEW data \in Seq(Byte), NEW delim \in Seq(Byte), Len(delim) > 0
    PROVE  \E f : f = [i \in 0..Len(data) |-> EndsFrom(f, data, delim, i)]
<1> DEFINE N == Len(data)
           S == {m \in 0..N : \E f : f = [i \in m..N |-> EndsFrom(f, data, delim, i)]}
<1>0. N \in Nat /\ Len(delim) \in Nat
  OBVIOUS
<1>1. ASSUME NEW m \in 0..N, \A j \in m + 1..N : j \in S
      PROVE  m \in S
  <2>1. PICK f : f = [i \in m + 1..N |-> EndsFrom(f, data, delim, i)]
    <3>1. CASE m = N
      <4>1. [i \in m + 1..N |-> EndsFrom(<<>>, data, delim, i)] =
            [i \in m + 1..N |-> EndsFrom([k \in m + 1..N |-> EndsFrom(<<>>, data, delim, k)], data, delim, i)]
        <5>1. m + 1..N = {}
          BY <1>0, <3>1
        <5> QED BY <5>1
      <4> QED BY <4>1
    <3>2. CASE m # N
      <4>1. m + 1 \in m + 1..N
        BY <1>0, <3>2
      <4> QED BY <1>1, <4>1
    <3> QED BY <3>1, <3>2
  <2> DEFINE g == [i \in m..N |-> IF i = m THEN EndsFrom(f, data, delim, m) ELSE f[i]]
  <2>2. ASSUME NEW i \in m..N PROVE g[i] = EndsFrom(g, data, delim, i)
    <3>1. g[i] = EndsFrom(f, data, delim, i)
      <4>1. CASE i = m
        BY <4>1
      <4>2. CASE i # m
        <5>1. i \in m + 1..N
          BY <1>0, <4>2
        <5>2. g[i] = f[i]
          BY <4>2
        <5> HIDE DEF g
        <5> QED BY <2>1, <5>1, <5>2
      <4> QED BY <4>1, <4>2
    <3>2. ASSUME MatchEnds(data, delim, i) # {}
          PROVE  f[Min(MatchEnds(data, delim, i))] = g[Min(MatchEnds(data, delim, i))]
      <4>1. PICK e : e = Min(MatchEnds(data, delim, i))
        OBVIOUS
      <4>2. i \in Nat
        BY <1>0
      <4>3. e \in (i + Len(delim))..N
        BY <3>2, <4>1, <4>2, FirstMatch
      <4>4. e \in m..N /\ e # m
        BY <1>0, <4>3
      <4> QED BY <4>1, <4>4
    <3> HIDE DEF g
    <3> QED BY <3>1, <3>2 DEF EndsFrom
  <2>3. g = [i \in m..N |-> EndsFrom(g, data, delim, i)]
    <3>1. g = [i \in m..N |-> g[i]]
      OBVIOUS
    <3> HIDE DEF g
    <3> QED BY <2>2, <3>1
  <2> HIDE DEF g
  <2> QED BY <2>3
<1>2. 0..N \subseteq S
  <2> HIDE DEF S, N
  <2> QED BY <1>0, <1>1, DownFrom
<1>3. 0 \in S
  BY <1>0, <1>2
<1> QED BY <1>3

\* The recursion of Ends.
LEMMA EndsDef ==
    ASSUME NEW data \in Seq(Byte), NEW delim \in Seq(Byte), Len(delim) > 0,
           NEW i \in 0..Len(data)
    PROVE  /\ MatchEnds(data, delim, i) = {} => Ends(data, delim, i) = <<>>
           /\ MatchEnds(data, delim, i) # {} =>
                 LET e == Min(MatchEnds(data, delim, i))
                 IN Ends(data, delim, i) = <<e>> \o Ends(data, delim, e)
<1> DEFINE g == CHOOSE f : f = [k \in 0..Len(data) |-> EndsFrom(f, data, delim, k)]
<1>1. g = [k \in 0..Len(data) |-> EndsFrom(g, data, delim, k)]
  BY EndsExist
<1>2. \A k : Ends(data, delim, k) = g[k]
  BY DEF Ends, EndsFrom
<1> HIDE DEF g
<1>3. g[i] = EndsFrom(g, data, delim, i)
  BY <1>1
<1> QED BY <1>2, <1>3 DEF EndsFrom

\* The last end, or where the search began if there is none.
EndOr(ends, from) == IF ends = <<>> THEN from ELSE ends[Len(ends)]

\* What Ends returns: offsets behind the first search, and no match behind the last.
LEMMA EndsFacts ==
    ASSUME NEW data \in Seq(Byte), NEW delim \in Seq(Byte), Len(delim) > 0
    PROVE  \A i \in 0..Len(data) :
              LET ends == Ends(data, delim, i)
              IN /\ ends \in Seq(Nat)
                 /\ \A k \in 1..Len(ends) : ends[k] \in (i + Len(delim))..Len(data)
                 /\ \A j \in (EndOr(ends, i) + Len(delim))..Len(data) : ~Match(data, delim, j)
<1> DEFINE N == Len(data)
           L == Len(delim)
           Good(i, ends) == /\ ends \in Seq(Nat)
                            /\ \A k \in 1..Len(ends) : ends[k] \in (i + L)..N
                            /\ \A j \in (EndOr(ends, i) + L)..N : ~Match(data, delim, j)
           S == {i \in 0..N : Good(i, Ends(data, delim, i))}
<1>0. N \in Nat /\ L \in Nat /\ L > 0
  OBVIOUS
<1>1. ASSUME NEW i \in 0..N, \A j \in i + 1..N : j \in S
      PROVE  Good(i, Ends(data, delim, i))
  <2>0. i \in Nat
    BY <1>0
  <2>1. CASE MatchEnds(data, delim, i) = {}
    <3>1. Ends(data, delim, i) = <<>>
      BY <2>1, EndsDef
    <3>2. \A j \in (i + L)..N : ~Match(data, delim, j)
      BY <2>0, <2>1, FoundFacts
    <3> QED BY <3>1, <3>2 DEF EndOr
  <2>2. CASE MatchEnds(data, delim, i) # {}
    <3>1. PICK e : e = Min(MatchEnds(data, delim, i))
      OBVIOUS
    <3>2. e \in (i + L)..N
      BY <2>0, <2>2, <3>1, FirstMatch
    <3>3. PICK rest : rest = Ends(data, delim, e)
      OBVIOUS
    <3>4. Good(e, rest)
      <4>1. e \in i + 1..N
        BY <1>0, <2>0, <3>2
      <4> QED BY <1>1, <3>3, <4>1
    <3>5. PICK all : all = <<e>> \o rest
      OBVIOUS
    <3>6. Ends(data, delim, i) = all
      BY <2>2, <3>1, <3>3, <3>5, EndsDef
    <3>7. /\ all \in Seq(Nat) /\ Len(all) = Len(rest) + 1
          /\ all[1] = e /\ \A k \in 2..Len(all) : all[k] = rest[k - 1]
      <4>1. rest \in Seq(Nat) /\ e \in Nat
        BY <1>0, <2>0, <3>2, <3>4
      <4> QED BY <3>5, <4>1
    <3>8. \A k \in 1..Len(all) : all[k] \in (i + L)..N
      <4> SUFFICES ASSUME NEW k \in 1..Len(all), k # 1 PROVE all[k] \in (i + L)..N
        BY <3>2, <3>7
      <4>1. k - 1 \in 1..Len(rest) /\ k \in 2..Len(all)
        BY <3>4, <3>7
      <4>2. all[k] \in (e + L)..N
        BY <3>4, <3>7, <4>1
      <4> QED BY <1>0, <2>0, <3>2, <4>2
    <3>9. EndOr(all, i) = EndOr(rest, e)
      <4>1. all # <<>>
        BY <3>7
      <4>2. CASE rest = <<>>
        <5>1. Len(all) = 1
          BY <3>4, <3>7, <4>2
        <5> QED BY <3>7, <4>1, <4>2, <5>1 DEF EndOr
      <4>3. CASE rest # <<>>
        <5>1. Len(all) \in 2..Len(all) /\ Len(all) - 1 = Len(rest)
          BY <3>4, <3>7, <4>3
        <5> QED BY <3>7, <4>1, <4>3, <5>1 DEF EndOr
      <4> QED BY <4>2, <4>3
    <3> QED BY <3>4, <3>6, <3>7, <3>8, <3>9
  <2> QED BY <2>1, <2>2
<1>2. 0..N \subseteq S
  <2>1. \A i \in 0..N : (\A j \in i + 1..N : j \in S) => i \in S
    BY <1>1
  <2> HIDE DEF S, N
  <2> QED BY <1>0, <2>1, DownFrom
<1> QED BY <1>2

-----------------------------------------------------------------------------
\* Split: the recursion.
NoParts == [parts |-> <<>>, rest |-> <<>>]

\* The right-hand side of the recursion of Split.
SplitFrom(split, bytes, delim, i) ==
    IF i = 0 THEN NoParts ELSE SplitStep(split[i - 1], bytes[i], delim)

\* There is a function that satisfies the recursion of Split.
LEMMA SplitExists ==
    ASSUME NEW bytes, NEW delim, NEW n \in Nat
    PROVE  \E f : f = [i \in 0..n |-> SplitFrom(f, bytes, delim, i)]
<1> DEFINE S == {m \in 0..n : \E f : f = [i \in 0..m |-> SplitFrom(f, bytes, delim, i)]}
<1>1. 0 \in S
  <2> DEFINE g == [i \in 0..0 |-> NoParts]
  <2>1. g = [i \in 0..0 |-> SplitFrom(g, bytes, delim, i)]
    BY DEF SplitFrom
  <2> HIDE DEF g
  <2> QED BY <2>1
<1>2. ASSUME NEW m \in 0..n - 1, m \in S PROVE m + 1 \in S
  <2>1. PICK f : f = [i \in 0..m |-> SplitFrom(f, bytes, delim, i)]
    BY <1>2
  <2> DEFINE g == [i \in 0..m + 1 |-> IF i = m + 1 THEN SplitFrom(f, bytes, delim, i) ELSE f[i]]
  <2>2. ASSUME NEW i \in 0..m + 1 PROVE g[i] = SplitFrom(g, bytes, delim, i)
    <3>1. g[i] = SplitFrom(f, bytes, delim, i)
      <4>1. CASE i = m + 1
        BY <4>1
      <4>2. CASE i # m + 1
        <5>1. i \in 0..m
          BY <4>2
        <5>2. g[i] = f[i]
          BY <4>2
        <5> HIDE DEF g
        <5> QED BY <2>1, <5>1, <5>2
      <4> QED BY <4>1, <4>2
    <3>2. i # 0 => f[i - 1] = g[i - 1]
      OBVIOUS
    <3> HIDE DEF g
    <3> QED BY <3>1, <3>2 DEF SplitFrom
  <2>3. g = [i \in 0..m + 1 |-> SplitFrom(g, bytes, delim, i)]
    <3>1. g = [i \in 0..m + 1 |-> g[i]]
      OBVIOUS
    <3> HIDE DEF g
    <3> QED BY <2>2, <3>1
  <2>4. m + 1 \in 0..n
    OBVIOUS
  <2> HIDE DEF g
  <2> QED BY <2>3, <2>4
<1>3. 0..n \subseteq S
  <2> HIDE DEF S
  <2> QED BY <1>1, <1>2, UpFrom
<1> QED BY <1>3

\* What Split's function is at each place.
LEMMA SplitFunction ==
    ASSUME NEW bytes \in Seq(Byte), NEW delim
    PROVE  \E f : /\ f = [i \in 0..Len(bytes) |-> SplitFrom(f, bytes, delim, i)]
                  /\ Split(bytes, delim) = f[Len(bytes)]
<1> DEFINE f == CHOOSE f : f = [i \in 0..Len(bytes) |-> SplitFrom(f, bytes, delim, i)]
<1>1. f = [i \in 0..Len(bytes) |-> SplitFrom(f, bytes, delim, i)]
  BY SplitExists
<1>2. Split(bytes, delim) = f[Len(bytes)]
  BY DEF Split, SplitFrom, NoParts
<1> HIDE DEF f
<1> QED BY <1>1, <1>2

\* Split is a fold of SplitStep: no bytes have no part,
LEMMA SplitEmpty ==
    ASSUME NEW delim
    PROVE  Split(<<>>, delim) = NoParts
<1>1. <<>> \in Seq(Byte) /\ Len(<<>>) = 0
  OBVIOUS
<1>2. PICK f : /\ f = [i \in 0..0 |-> SplitFrom(f, <<>>, delim, i)]
               /\ Split(<<>>, delim) = f[0]
  BY <1>1, SplitFunction
<1>3. f[0] = SplitFrom(f, <<>>, delim, 0)
  BY <1>2
<1> QED BY <1>2, <1>3 DEF SplitFrom

\* and one byte more is one step more.
LEMMA SplitAppend ==
    ASSUME NEW bytes \in Seq(Byte), NEW delim, NEW byte \in Byte
    PROVE  Split(Append(bytes, byte), delim) = SplitStep(Split(bytes, delim), byte, delim)
<1> DEFINE n == Len(bytes)
<1>0. n \in Nat
  OBVIOUS
<1>1. PICK more : more = Append(bytes, byte)
  OBVIOUS
<1>2. /\ more \in Seq(Byte) /\ Len(more) = n + 1 /\ more[n + 1] = byte
      /\ \A i \in 1..n : more[i] = bytes[i]
  BY <1>1
<1>3. PICK f : /\ f = [i \in 0..n |-> SplitFrom(f, bytes, delim, i)]
               /\ Split(bytes, delim) = f[n]
  BY SplitFunction
<1>4. PICK g : /\ g = [i \in 0..n + 1 |-> SplitFrom(g, more, delim, i)]
               /\ Split(more, delim) = g[n + 1]
  <2>1. PICK l : l = Len(more)
    OBVIOUS
  <2>2. \E g : /\ g = [i \in 0..l |-> SplitFrom(g, more, delim, i)]
               /\ Split(more, delim) = g[l]
    BY ONLY <1>2, <2>1, SplitFunction
  <2> QED BY ONLY <1>2, <2>1, <2>2
<1> HIDE DEF n
<1> DEFINE S == {i \in 0..n : g[i] = f[i]}
<1>5. f[0] = SplitFrom(f, bytes, delim, 0) /\ g[0] = SplitFrom(g, more, delim, 0)
  <2>1. 0 \in 0..n /\ 0 \in 0..n + 1
    BY <1>0
  <2>2. f[0] = SplitFrom(f, bytes, delim, 0)
    BY <1>3, <2>1
  <2>3. g[0] = SplitFrom(g, more, delim, 0)
    BY <1>4, <2>1
  <2> QED BY <2>2, <2>3
<1>6. 0 \in S
  BY <1>0, <1>5 DEF SplitFrom
<1>7. ASSUME NEW i \in 0..n - 1, i \in S PROVE i + 1 \in S
  <2>1. f[i + 1] = SplitFrom(f, bytes, delim, i + 1) /\ g[i + 1] = SplitFrom(g, more, delim, i + 1)
    <3>1. i + 1 \in 0..n /\ i + 1 \in 0..n + 1
      BY <1>0
    <3> QED BY <1>3, <1>4, <3>1
  <2>2. i + 1 # 0 /\ (i + 1) - 1 = i /\ i + 1 \in 1..n /\ i + 1 \in 0..n
    BY <1>0
  <2>3. more[i + 1] = bytes[i + 1] /\ f[i] = g[i]
    BY <1>2, <1>7, <2>2
  <2> QED BY <2>1, <2>2, <2>3 DEF SplitFrom
<1>8. n \in S
  <2>1. 0..n \subseteq S
    <3> HIDE DEF S
    <3> QED BY <1>0, <1>6, <1>7, UpFrom
  <2> QED BY <1>0, <2>1
<1>9. g[n + 1] = SplitFrom(g, more, delim, n + 1)
  <2>1. n + 1 \in 0..n + 1
    BY ONLY <1>0
  <2> QED BY ONLY <1>4, <2>1
<1>10. n + 1 # 0 /\ (n + 1) - 1 = n
  BY <1>0
<1> QED BY <1>1, <1>2, <1>3, <1>4, <1>8, <1>9, <1>10 DEF SplitFrom

-----------------------------------------------------------------------------
\* Ends and Split agree. The bytes of a buffer from p to r, and one more.
LEMMA OneMore ==
    ASSUME NEW data \in Seq(Byte), NEW p \in Nat, NEW r \in Nat, p <= r, r < Len(data)
    PROVE  /\ SubSeq(data, p + 1, r) \in Seq(Byte)
           /\ data[r + 1] \in Byte
           /\ SubSeq(data, p + 1, r + 1) = Append(SubSeq(data, p + 1, r), data[r + 1])
<1>1. p + 1 \in 1..Len(data) + 1 /\ r \in 0..Len(data) /\ r + 1 \in 1..Len(data) /\ r + 1 \in 0..Len(data)
  OBVIOUS
<1>2. PICK s : s = SubSeq(data, p + 1, r)
  OBVIOUS
<1>3. PICK t : t = SubSeq(data, p + 1, r + 1)
  OBVIOUS
<1>4. /\ s \in Seq(Byte) /\ Len(s) = r - p
      /\ \A i \in 1..r - p : s[i] = data[p + i]
  BY <1>1, <1>2, SubSeqFacts
<1>5. /\ t \in Seq(Byte) /\ Len(t) = r - p + 1
      /\ \A i \in 1..r - p + 1 : t[i] = data[p + i]
  BY <1>1, <1>3, SubSeqFacts
<1>6. data[r + 1] \in Byte
  BY <1>1
<1>7. PICK a : a = Append(s, data[r + 1])
  OBVIOUS
<1>8. /\ a \in Seq(Byte) /\ Len(a) = r - p + 1
      /\ \A i \in 1..r - p : a[i] = s[i]
      /\ a[r - p + 1] = data[r + 1]
  <2>1. r - p = Len(s) /\ Len(s) \in Nat
    BY <1>4
  <2>2. /\ a \in Seq(Byte) /\ Len(a) = Len(s) + 1
        /\ \A i \in 1..Len(s) : a[i] = s[i]
        /\ a[Len(s) + 1] = data[r + 1]
    <3>1. s \in Seq(Byte)
      BY <1>4
    <3> QED BY <1>6, <1>7, <3>1, AppendProperties
  <2> QED BY <2>1, <2>2
<1>9. \A i \in 1..r - p + 1 : a[i] = t[i]
  <2> TAKE i \in 1..r - p + 1
  <2>1. CASE i = r - p + 1
    <3>1. p + (r - p + 1) = r + 1
      OBVIOUS
    <3> QED BY <1>5, <1>8, <2>1, <3>1
  <2>2. CASE i # r - p + 1
    <3>1. i \in 1..r - p
      BY <2>2
    <3> QED BY <1>4, <1>5, <1>8, <3>1
  <2> QED BY <2>1, <2>2
<1>10. a = t
  BY <1>5, <1>8, <1>9, SeqEqual
<1> QED BY <1>2, <1>3, <1>4, <1>6, <1>7, <1>10

\* The rest behind u ends with the delimiter when a match ends there.
LEMMA EndsWith ==
    ASSUME NEW data \in Seq(Byte), NEW delim \in Seq(Byte), NEW u \in Nat, NEW r \in Nat,
           u <= r, r <= Len(data)
    PROVE  IsSuffix(delim, SubSeq(data, u + 1, r)) <=>
              u + Len(delim) <= r /\ Match(data, delim, r)
<1> DEFINE L == Len(delim)
<1>0. L \in Nat /\ u + 1 \in 1..Len(data) + 1 /\ r \in 0..Len(data)
  OBVIOUS
<1>1. PICK t : t = SubSeq(data, u + 1, r)
  OBVIOUS
<1>2. /\ t \in Seq(Byte) /\ Len(t) = r - u
      /\ \A i \in 1..r - u : t[i] = data[u + i]
  BY <1>0, <1>1, SubSeqFacts
<1>3. IsSuffix(delim, t) <=> L <= r - u /\ \A k \in 1..L : t[(r - u) - L + k] = delim[k]
  <2>1. IsSuffix(delim, t) <=>
           Len(delim) <= Len(t) /\ \A k \in 1..Len(delim) : t[Len(t) - Len(delim) + k] = delim[k]
    BY ONLY <1>2, SuffixFacts, delim \in Seq(Byte)
  <2> QED BY ONLY <1>2, <2>1
<1>4. ASSUME L <= r - u, NEW k \in 1..L PROVE t[(r - u) - L + k] = data[r - L + k]
  <2>1. (r - u) - L + k \in 1..r - u /\ u + ((r - u) - L + k) = r - L + k
    BY <1>0, <1>4
  <2> QED BY <1>2, <2>1
<1>5. L <= r - u <=> u + L <= r
  BY <1>0
<1>6. u + L <= r => r \in L..Len(data)
  BY <1>0
<1> QED BY <1>1, <1>3, <1>4, <1>5, <1>6 DEF Match

\* Split by its fields. This operator and the ones below name equations and
\* sequences that the provers would otherwise expand element by element.
SplitsInto(bytes, delim, parts, rest) ==
    Split(bytes, delim) = [parts |-> parts, rest |-> rest]

\* A byte behind a sequence that is behind another one.
LEMMA AppendBehind ==
    ASSUME NEW h \in Seq(Byte), NEW s \in Seq(Byte), NEW x \in Byte
    PROVE  h \o Append(s, x) = Append(h \o s, x)
<1>1. PICK a, b : a = h \o Append(s, x) /\ b = Append(h \o s, x)
  OBVIOUS
<1>2. PICK m, n : m = Len(h) /\ n = Len(s)
  OBVIOUS
<1>3. PICK c : c = Append(s, x)
  OBVIOUS
<1>4. PICK d : d = h \o s
  OBVIOUS
<1>5. /\ m \in Nat /\ n \in Nat
      /\ c \in Seq(Byte) /\ Len(c) = n + 1 /\ c[n + 1] = x /\ \A i \in 1..n : c[i] = s[i]
  BY <1>2, <1>3
<1>6. d \in Seq(Byte) /\ Len(d) = m + n
  BY <1>2, <1>4
<1>7. \A i \in 1..m + n : d[i] = IF i <= m THEN h[i] ELSE s[i - m]
  BY <1>2, <1>4
<1>8. a \in Seq(Byte) /\ Len(a) = m + (n + 1)
  BY <1>1, <1>2, <1>3, <1>5
<1>9. \A i \in 1..m + (n + 1) : a[i] = IF i <= m THEN h[i] ELSE c[i - m]
  BY <1>1, <1>2, <1>3, <1>5
<1>10. b \in Seq(Byte) /\ Len(b) = (m + n) + 1 /\ b[(m + n) + 1] = x
  BY <1>1, <1>4, <1>6
<1>11. \A i \in 1..m + n : b[i] = d[i]
  BY <1>1, <1>4, <1>6
<1>12. ASSUME NEW i \in 1..m + (n + 1) PROVE a[i] = b[i]
  <2>1. CASE i = (m + n) + 1
    <3>1. ~(i <= m) /\ i - m = n + 1
      BY ONLY <1>5, <2>1
    <3> QED BY ONLY <1>5, <1>9, <1>10, <2>1, <3>1, i \in 1..m + (n + 1)
  <2>2. CASE i # (m + n) + 1
    <3>1. i \in 1..m + n /\ (~(i <= m) => i - m \in 1..n)
      BY ONLY <1>5, <2>2, i \in 1..m + (n + 1)
    <3>2. a[i] = (IF i <= m THEN h[i] ELSE c[i - m]) /\ b[i] = d[i]
      BY ONLY <1>9, <1>11, <3>1, i \in 1..m + (n + 1)
    <3>3. d[i] = IF i <= m THEN h[i] ELSE s[i - m]
      BY ONLY <1>7, <3>1
    <3>4. ~(i <= m) => c[i - m] = s[i - m]
      BY ONLY <1>5, <3>1
    <3> QED BY ONLY <3>2, <3>3, <3>4
  <2> QED BY <2>1, <2>2
<1>13. Len(a) = Len(b) /\ \A i \in 1..Len(a) : a[i] = b[i]
  <2>1. Len(b) = Len(a)
    BY ONLY <1>5, <1>8, <1>10
  <2>2. \A i \in 1..Len(a) : a[i] = b[i]
    BY ONLY <1>8, <1>12
  <2> QED BY ONLY <2>1, <2>2
<1> QED BY ONLY <1>1, <1>8, <1>10, <1>13, SeqEqual
\* Bytes in which no match ends are added to the rest.
LEMMA SplitQuiet ==
    ASSUME NEW data \in Seq(Byte), NEW delim \in Seq(Byte), NEW h \in Seq(Byte), NEW parts,
           NEW u \in Nat, NEW q \in Nat, NEW r \in Nat, u <= q, q <= r, r <= Len(data),
           SplitsInto(h, delim, parts, SubSeq(data, u + 1, q)),
           \A j \in q + 1..r : u + Len(delim) <= j => ~Match(data, delim, j)
    PROVE  /\ h \o SubSeq(data, q + 1, r) \in Seq(Byte)
           /\ SplitsInto(h \o SubSeq(data, q + 1, r), delim, parts, SubSeq(data, u + 1, r))
<1> DEFINE S == {k \in q..r :
                    /\ h \o SubSeq(data, q + 1, k) \in Seq(Byte)
                    /\ SplitsInto(h \o SubSeq(data, q + 1, k), delim, parts, SubSeq(data, u + 1, k))}
<1>1. q \in S
  <2>1. SubSeq(data, q + 1, q) = <<>>
    OBVIOUS
  <2>2. h \o <<>> = h
    OBVIOUS
  <2>3. h \o SubSeq(data, q + 1, q) = h
    BY <2>1, <2>2
  <2>4. q \in q..r
    OBVIOUS
  <2> QED BY <2>3, <2>4
<1>2. ASSUME NEW k \in q..r - 1, k \in S PROVE k + 1 \in S
  <2>0. k \in Nat /\ q <= k /\ k + 1 \in q..r /\ k + 1 \in q + 1..r /\ u <= k /\ k < Len(data) /\ k + 1 <= Len(data)
    OBVIOUS
  <2>1. PICK s : s = SubSeq(data, q + 1, k)
    OBVIOUS
  <2>2. /\ s \in Seq(Byte) /\ data[k + 1] \in Byte
        /\ SubSeq(data, q + 1, k + 1) = Append(s, data[k + 1])
    BY <2>0, <2>1, OneMore
  <2>3. h \o Append(s, data[k + 1]) = Append(h \o s, data[k + 1])
    BY ONLY <2>2, AppendBehind, h \in Seq(Byte)
  <2>4. h \o s \in Seq(Byte)
    BY <2>2
  <2>5. Split(h \o Append(s, data[k + 1]), delim) = SplitStep(Split(h \o s, delim), data[k + 1], delim)
    BY <2>2, <2>3, <2>4, SplitAppend
  <2>6. SplitsInto(h \o s, delim, parts, SubSeq(data, u + 1, k))
    BY <1>2, <2>1
  <2>7. SubSeq(data, u + 1, k + 1) = Append(SubSeq(data, u + 1, k), data[k + 1])
    BY <2>0, OneMore
  <2>8. ~IsSuffix(delim, SubSeq(data, u + 1, k + 1))
    <3>1. u <= k + 1 /\ k + 1 \in Nat
      BY <2>0
    <3> QED BY <2>0, <3>1, EndsWith
  <2>9. SplitStep([parts |-> parts, rest |-> SubSeq(data, u + 1, k)], data[k + 1], delim) =
           [parts |-> parts, rest |-> SubSeq(data, u + 1, k + 1)]
    BY <2>7, <2>8 DEF SplitStep
  <2>10. h \o Append(s, data[k + 1]) \in Seq(Byte)
    BY <2>2
  <2> QED BY <2>0, <2>2, <2>5, <2>6, <2>9, <2>10 DEF SplitsInto
<1>3. q..r \subseteq S
  <2>1. q \in Int /\ r \in Int
    OBVIOUS
  <2>2. \A k \in q..r - 1 : k \in S => k + 1 \in S
    BY <1>2
  <2> HIDE DEF S
  <2> QED BY <1>1, <2>1, <2>2, UpFrom
<1>4. r \in S
  BY <1>3
<1> QED BY <1>4

\* The first match behind u ends a part.
LEMMA SplitHit ==
    ASSUME NEW data \in Seq(Byte), NEW delim \in Seq(Byte), NEW h \in Seq(Byte), NEW parts,
           NEW u \in Nat, NEW q \in Nat, NEW e \in Nat, u <= q, q < e, e <= Len(data),
           SplitsInto(h, delim, parts, SubSeq(data, u + 1, q)),
           \A j \in q + 1..e - 1 : u + Len(delim) <= j => ~Match(data, delim, j),
           u + Len(delim) <= e, Match(data, delim, e)
    PROVE  /\ h \o SubSeq(data, q + 1, e) \in Seq(Byte)
           /\ SplitsInto(h \o SubSeq(data, q + 1, e), delim, Append(parts, SubSeq(data, u + 1, e - Len(delim))), <<>>)
<1>1. PICK k : k = e - 1
  OBVIOUS
<1>2. k \in Nat /\ k + 1 = e /\ q <= k /\ k < Len(data) /\ u <= k /\ k <= Len(data)
  BY <1>1
<1>3. PICK s : s = SubSeq(data, q + 1, k)
  OBVIOUS
<1>4. h \o s \in Seq(Byte) /\ SplitsInto(h \o s, delim, parts, SubSeq(data, u + 1, k))
  <2>1. \A j \in q + 1..k : u + Len(delim) <= j => ~Match(data, delim, j)
    BY <1>1
  <2>2. /\ h \o SubSeq(data, q + 1, k) \in Seq(Byte)
        /\ SplitsInto(h \o SubSeq(data, q + 1, k), delim, parts, SubSeq(data, u + 1, k))
    BY <1>2, <2>1, SplitQuiet
  <2> QED BY <1>3, <2>2
<1>5. /\ s \in Seq(Byte) /\ data[e] \in Byte
      /\ SubSeq(data, q + 1, e) = Append(s, data[e])
  BY <1>2, <1>3, OneMore
<1>6. h \o Append(s, data[e]) = Append(h \o s, data[e])
  BY ONLY <1>5, AppendBehind, h \in Seq(Byte)
<1>7. Split(h \o Append(s, data[e]), delim) = SplitStep(Split(h \o s, delim), data[e], delim)
  BY <1>4, <1>5, <1>6, SplitAppend
<1>8. SubSeq(data, u + 1, e) = Append(SubSeq(data, u + 1, k), data[e])
  BY <1>2, OneMore
<1>9. IsSuffix(delim, SubSeq(data, u + 1, e))
  BY <1>2, EndsWith
<1>10. PICK t : t = SubSeq(data, u + 1, e)
  OBVIOUS
<1>11. /\ t \in Seq(Byte) /\ Len(t) = e - u
       /\ SubSeq(t, 1, Len(t) - Len(delim)) = SubSeq(data, u + 1, e - Len(delim))
  <2>1. u + 1 \in 1..Len(data) + 1 /\ e \in 0..Len(data) /\ u + 1 <= e + 1
    BY <1>2
  <2>2. /\ t \in Seq(Byte) /\ Len(t) = e - u
        /\ \A i \in 1..e - u : t[i] = data[u + i]
    BY <1>10, <2>1, SubSeqFacts
  <2>3. PICK n : n = e - Len(delim)
    OBVIOUS
  <2>4. n \in 0..Len(data) /\ u <= n /\ n - u \in 0..Len(t) /\ Len(t) - Len(delim) = n - u
    BY <2>2, <2>3
  <2>5. PICK a : a = SubSeq(t, 1, n - u)
    OBVIOUS
  <2>6. PICK b : b = SubSeq(data, u + 1, n)
    OBVIOUS
  <2>7. a \in Seq(Byte) /\ Len(a) = n - u /\ \A i \in 1..n - u : a[i] = t[i]
    BY <2>2, <2>4, <2>5
  <2>8. b \in Seq(Byte) /\ Len(b) = n - u /\ \A i \in 1..n - u : b[i] = data[u + i]
    <3>1. u + 1 <= n + 1 /\ n - (u + 1) + 1 = n - u /\ \A i \in 1..n - u : (u + 1) + i - 1 = u + i
      BY <2>4
    <3>2. b \in Seq(Byte) /\ Len(b) = n - (u + 1) + 1
          /\ \A i \in 1..n - (u + 1) + 1 : b[i] = data[(u + 1) + i - 1]
      <4>1. u + 1 \in 1..Len(data) + 1 /\ n \in 0..Len(data) /\ u + 1 <= n + 1
        BY <2>1, <2>4, <3>1
      <4> QED BY ONLY <2>6, <4>1, SubSeqFacts, data \in Seq(Byte)
    <3> QED BY ONLY <3>1, <3>2
  <2>9. \A i \in 1..n - u : i \in 1..e - u
    BY <2>3, <2>4
  <2>10. a = b
    <3>1. \A i \in 1..n - u : a[i] = b[i]
      BY ONLY <2>2, <2>7, <2>8, <2>9
    <3> QED BY ONLY <2>7, <2>8, <3>1
  <2> QED BY <2>2, <2>3, <2>4, <2>5, <2>6, <2>10
<1>12. SplitStep([parts |-> parts, rest |-> SubSeq(data, u + 1, k)], data[e], delim) =
          [parts |-> Append(parts, SubSeq(data, u + 1, e - Len(delim))), rest |-> <<>>]
  BY <1>8, <1>9, <1>10, <1>11 DEF SplitStep
<1>13. h \o Append(s, data[e]) \in Seq(Byte)
  BY <1>5
<1> QED BY <1>4, <1>5, <1>7, <1>12, <1>13 DEF SplitsInto

\* Bytes; two sequences put together; the part between u and the delimiter that
\* ends at e; the ends with one more before them.
Text == Seq(Byte)

Joined(first, second) == first \o second

IsPart(part, data, delim, u, e) == part = SubSeq(data, u + 1, e - Len(delim))

IsPrepended(all, e, rest) == all = <<e>> \o rest

\* The parts that end at `ends`, the first of which begins behind u.
PartsOf(data, delim, u, ends) ==
    [k \in DOMAIN ends |->
        SubSeq(data, (IF k = 1 THEN u ELSE ends[k - 1]) + 1, ends[k] - Len(delim))]

\* No match that starts behind u ends before i and a delimiter, nor up to q.
QuietTo(data, delim, u, i, q) ==
    \A j \in 0..Len(data) :
        u + Len(delim) <= j /\ (j < i + Len(delim) \/ j <= q) => ~Match(data, delim, j)

\* A search from i goes on with a split whose rest begins behind u and has been
\* read to q.
SearchSplits(data, delim, i) ==
    \A h \in Seq(Byte), parts \in Seq(Text), u \in 0..i, q \in 0..Len(data) :
        /\ u <= q
        /\ SplitsInto(h, delim, parts, SubSeq(data, u + 1, q))
        /\ QuietTo(data, delim, u, i, q)
        => /\ PartsOf(data, delim, u, Ends(data, delim, i)) \in Seq(Text)
           /\ SplitsInto(h \o SubSeq(data, q + 1, Len(data)), delim,
                         Joined(parts, PartsOf(data, delim, u, Ends(data, delim, i))),
                         SubSeq(data, EndOr(Ends(data, delim, i), u) + 1, Len(data)))

\* Sequences that are put together, three of them.
LEMMA JoinedAssociative ==
    ASSUME NEW S, NEW h \in Seq(S), NEW a \in Seq(S), NEW b \in Seq(S)
    PROVE  Joined(Joined(h, a), b) = Joined(h, Joined(a, b))
<1>1. (h \o a) \o b = h \o (a \o b)
  BY ONLY h \in Seq(S), a \in Seq(S), b \in Seq(S)
<1> QED BY ONLY <1>1 DEF Joined

\* The parts behind the first.
LEMMA PartsOfMore ==
    ASSUME NEW data \in Seq(Byte), NEW delim \in Seq(Byte), Len(delim) > 0,
           NEW u \in Nat, NEW e \in Nat, NEW rest \in Seq(Nat),
           u + Len(delim) <= e, e <= Len(data),
           PartsOf(data, delim, e, rest) \in Seq(Text),
           NEW first, IsPart(first, data, delim, u, e),
           NEW all, IsPrepended(all, e, rest),
           NEW parts \in Seq(Text)
    PROVE  /\ PartsOf(data, delim, u, all) \in Seq(Text)
           /\ Joined(Append(parts, first), PartsOf(data, delim, e, rest)) =
                 Joined(parts, PartsOf(data, delim, u, all))
<1>1. first = SubSeq(data, u + 1, e - Len(delim))
  BY DEF IsPart
<1>2. first \in Text
  <2>1. u + 1 \in 1..Len(data) + 1 /\ e - Len(delim) \in 0..Len(data) /\ u + 1 <= (e - Len(delim)) + 1
    OBVIOUS
  <2> QED BY <1>1, <2>1, SubSeqFacts DEF Text
<1>3. PICK tail : tail = PartsOf(data, delim, e, rest)
  OBVIOUS
<1>5. PICK new : new = PartsOf(data, delim, u, all)
  OBVIOUS
<1>6. /\ all \in Seq(Nat) /\ Len(all) = Len(rest) + 1
      /\ all[1] = e /\ \A k \in 2..Len(all) : all[k] = rest[k - 1]
  BY DEF IsPrepended
<1>7. /\ tail \in Seq(Text) /\ DOMAIN tail = 1..Len(rest) /\ Len(tail) = Len(rest)
      /\ \A k \in 1..Len(rest) :
            tail[k] = SubSeq(data, (IF k = 1 THEN e ELSE rest[k - 1]) + 1, rest[k] - Len(delim))
  <2>1. tail \in Seq(Text)
    BY <1>3
  <2>2. DOMAIN tail = 1..Len(rest)
    BY <1>3 DEF PartsOf
  <2>3. Len(tail) = Len(rest)
    BY <2>1, <2>2
  <2> QED BY <1>3, <2>1, <2>2, <2>3 DEF PartsOf
<1>8. PICK cat : cat = <<first>> \o tail
  OBVIOUS
<1>9. /\ cat \in Seq(Text) /\ Len(cat) = Len(rest) + 1
      /\ cat[1] = first /\ \A k \in 2..Len(cat) : cat[k] = tail[k - 1]
  <2>1. tail \in Seq(Text) /\ Len(tail) = Len(rest)
    BY <1>7
  <2>2. /\ cat \in Seq(Text) /\ Len(cat) = Len(tail) + 1
        /\ cat[1] = first /\ \A k \in 2..Len(cat) : cat[k] = tail[k - 1]
    BY ONLY <1>2, <1>8, <2>1
  <2> QED BY <2>1, <2>2
<1>10. new = cat
  <2>1. DOMAIN new = 1..Len(all) /\ DOMAIN cat = 1..Len(all)
    BY <1>5, <1>6, <1>9 DEF PartsOf
  <2>2. ASSUME NEW k \in 1..Len(all) PROVE new[k] = cat[k]
    <3>1. new[k] = SubSeq(data, (IF k = 1 THEN u ELSE all[k - 1]) + 1, all[k] - Len(delim))
      <4>1. k \in DOMAIN all
        BY <1>6
      <4> QED BY <1>5, <4>1 DEF PartsOf
    <3>2. CASE k = 1
      BY <1>1, <1>6, <1>9, <3>1, <3>2
    <3>3. CASE k # 1
      <4>1. /\ k - 1 \in 1..Len(rest) /\ k \in 2..Len(all) /\ k \in 2..Len(cat)
            /\ k - 1 # 1 => (k - 1) - 1 = (k - 2) /\ k - 1 \in 2..Len(all)
        BY <1>6, <1>9, <3>3
      <4>2. all[k] = rest[k - 1] /\ cat[k] = tail[k - 1]
        BY <1>6, <1>9, <4>1
      <4>3. all[k - 1] = IF k - 1 = 1 THEN e ELSE rest[(k - 1) - 1]
        BY <1>6, <4>1
      <4>4. tail[k - 1] = SubSeq(data, (IF k - 1 = 1 THEN e ELSE rest[(k - 1) - 1]) + 1, rest[k - 1] - Len(delim))
        BY <1>7, <4>1
      <4> QED BY <3>1, <3>3, <4>2, <4>3, <4>4
    <3> QED BY <3>2, <3>3
  <2>3. new = [k \in DOMAIN new |-> new[k]]
    BY <1>5 DEF PartsOf
  <2>4. cat = [k \in DOMAIN cat |-> cat[k]]
    BY <1>9
  <2> QED BY <2>1, <2>2, <2>3, <2>4
<1>11. Append(parts, first) \o tail = parts \o new
  <2>1. Append(parts, first) = parts \o <<first>> /\ <<first>> \in Seq(Text)
    BY ONLY <1>2, parts \in Seq(Text), AppendIsConcat
  <2>2. PICK one : one = <<first>>
    OBVIOUS
  <2>3. one \in Seq(Text) /\ tail \in Seq(Text)
    BY <1>7, <2>1, <2>2
  <2>4. (parts \o one) \o tail = parts \o (one \o tail)
    <3>1. parts \in Seq(Text)
      OBVIOUS
    <3>2. Joined(Joined(parts, one), tail) = Joined(parts, Joined(one, tail))
      BY ONLY <2>3, <3>1, JoinedAssociative
    <3> QED BY ONLY <3>2 DEF Joined
  <2>5. parts \o one \in Seq(Text)
    BY <2>3
  <2> QED BY <1>8, <1>10, <2>1, <2>2, <2>4, <2>5
<1> QED BY <1>3, <1>5, <1>9, <1>10, <1>11 DEF Joined

\* A search that finds nothing leaves the parts as they are.
LEMMA SearchSplitsNone ==
    ASSUME NEW data \in Seq(Byte), NEW delim \in Seq(Byte), Len(delim) > 0,
           NEW i \in 0..Len(data), MatchEnds(data, delim, i) = {}
    PROVE  SearchSplits(data, delim, i)
<1>1. SUFFICES ASSUME NEW h \in Seq(Byte), NEW parts \in Seq(Text),
                      NEW u \in 0..i, NEW q \in 0..Len(data), u <= q,
                      SplitsInto(h, delim, parts, SubSeq(data, u + 1, q)),
                      QuietTo(data, delim, u, i, q)
               PROVE  /\ PartsOf(data, delim, u, Ends(data, delim, i)) \in Seq(Text)
                      /\ SplitsInto(h \o SubSeq(data, q + 1, Len(data)), delim,
                                    Joined(parts, PartsOf(data, delim, u, Ends(data, delim, i))),
                                    SubSeq(data, EndOr(Ends(data, delim, i), u) + 1, Len(data)))
  BY DEF SearchSplits
<1>2. Ends(data, delim, i) = <<>> /\ EndOr(<<>>, u) = u
  BY EndsDef DEF EndOr
<1>3. PartsOf(data, delim, u, <<>>) = <<>>
  BY DEF PartsOf
<1>4. Joined(parts, <<>>) = parts /\ <<>> \in Seq(Text)
  BY ConcatEmptySeq DEF Joined
<1>5. u \in Nat /\ q \in Nat /\ Len(data) \in Nat /\ q <= Len(data) /\ i \in Nat
  OBVIOUS
<1>6. \A j \in q + 1..Len(data) : u + Len(delim) <= j => ~Match(data, delim, j)
  <2>1. \A j \in (i + Len(delim))..Len(data) : ~Match(data, delim, j)
    BY <1>5, FoundFacts
  <2>2. \A j \in q + 1..Len(data) : j \in 0..Len(data) /\ (j < i + Len(delim) \/ j \in (i + Len(delim))..Len(data))
    BY <1>5
  <2> QED BY <1>1, <2>1, <2>2 DEF QuietTo
<1>7. SplitsInto(h \o SubSeq(data, q + 1, Len(data)), delim, parts, SubSeq(data, u + 1, Len(data)))
  BY <1>1, <1>5, <1>6, SplitQuiet
<1> QED BY <1>2, <1>3, <1>4, <1>7

\* A search that finds a delimiter ends a part, and the next search goes on.
LEMMA SearchSplitsFound ==
    ASSUME NEW data \in Seq(Byte), NEW delim \in Seq(Byte), Len(delim) > 0,
           NEW i \in 0..Len(data), MatchEnds(data, delim, i) # {},
           \A j \in i + 1..Len(data) : SearchSplits(data, delim, j)
    PROVE  SearchSplits(data, delim, i)
<1> DEFINE L == Len(delim)
           N == Len(data)
<1>1. SUFFICES ASSUME NEW h \in Seq(Byte), NEW parts \in Seq(Text),
                      NEW u \in 0..i, NEW q \in 0..N, u <= q,
                      SplitsInto(h, delim, parts, SubSeq(data, u + 1, q)),
                      QuietTo(data, delim, u, i, q)
               PROVE  /\ PartsOf(data, delim, u, Ends(data, delim, i)) \in Seq(Text)
                      /\ SplitsInto(h \o SubSeq(data, q + 1, N), delim,
                                    Joined(parts, PartsOf(data, delim, u, Ends(data, delim, i))),
                                    SubSeq(data, EndOr(Ends(data, delim, i), u) + 1, N))
  BY DEF SearchSplits
<1>2. PICK e : e = Min(MatchEnds(data, delim, i))
  OBVIOUS
<1>3. PICK rest : rest = Ends(data, delim, e)
  OBVIOUS
<1>4. i \in Nat /\ u \in Nat /\ q \in Nat /\ N \in Nat /\ q <= N /\ L \in Nat /\ L > 0 /\ u <= i /\ i <= N
  OBVIOUS
<1>5. /\ e \in (i + L)..N /\ Match(data, delim, e)
      /\ \A j \in (i + L)..e - 1 : ~Match(data, delim, j)
  BY <1>2, <1>4, FirstMatch
<1>6. e \in Nat /\ e <= N /\ i + L <= e /\ u + L <= e /\ u <= e /\ e \in i + 1..N /\ e \in 0..N
  BY <1>4, <1>5
<1>7. q < e
  <2> SUFFICES ASSUME e <= q PROVE FALSE
    BY <1>4, <1>6
  <2> QED BY <1>1, <1>5, <1>6 DEF QuietTo
<1>8. \A j \in q + 1..e - 1 : u + L <= j => ~Match(data, delim, j)
  <2>1. \A j \in q + 1..e - 1 : j \in 0..N /\ (j < i + L \/ j \in (i + L)..e - 1)
    BY <1>4, <1>6
  <2> QED BY <1>1, <1>5, <2>1 DEF QuietTo
<1>9. PICK first : first = SubSeq(data, u + 1, e - L)
  OBVIOUS
<1>10. PICK g : g = h \o SubSeq(data, q + 1, e)
  OBVIOUS
<1>11. g \in Seq(Byte) /\ SplitsInto(g, delim, Append(parts, first), <<>>)
  <2>1. SplitsInto(h, delim, parts, SubSeq(data, u + 1, q))
    BY <1>1
  <2>2. /\ h \o SubSeq(data, q + 1, e) \in Seq(Byte)
        /\ SplitsInto(h \o SubSeq(data, q + 1, e), delim,
                      Append(parts, SubSeq(data, u + 1, e - Len(delim))), <<>>)
    <3> HIDE DEF N
    <3>1. u <= q /\ q < e /\ e <= Len(data) /\ u + Len(delim) <= e
      BY <1>1, <1>6, <1>7 DEF N
    <3> QED BY <1>4, <1>5, <1>6, <1>8, <2>1, <3>1, SplitHit
  <2> QED BY <1>9, <1>10, <2>2
<1>12. rest \in Seq(Nat)
  BY <1>3, <1>6, EndsFacts
<1>13. /\ Append(parts, first) \in Seq(Text)
       /\ PartsOf(data, delim, e, rest) \in Seq(Text)
       /\ SplitsInto(g \o SubSeq(data, e + 1, N), delim,
                     Joined(Append(parts, first), PartsOf(data, delim, e, rest)),
                     SubSeq(data, EndOr(rest, e) + 1, N))
  <2>1. SearchSplits(data, delim, e)
    BY <1>6
  <2>2. first \in Text
    <3>1. u + 1 \in 1..N + 1 /\ e - L \in 0..N /\ u + 1 <= (e - L) + 1
      BY <1>4, <1>6
    <3> QED BY <1>9, <3>1, SubSeqFacts DEF Text
  <2>3. Append(parts, first) \in Seq(Text)
    BY <2>2
  <2>4. SubSeq(data, e + 1, e) = <<>>
    BY <1>6
  <2>5. QuietTo(data, delim, e, e, e)
    BY <1>4, <1>6 DEF QuietTo
  <2>6. e \in 0..e /\ e <= e
    BY <1>6
  <2>7. SplitsInto(g, delim, Append(parts, first), SubSeq(data, e + 1, e))
    BY <1>11, <2>4
  <2> QED BY <1>3, <1>6, <1>11, <2>1, <2>3, <2>5, <2>6, <2>7 DEF SearchSplits
<1>14. PICK all : all = <<e>> \o rest
  OBVIOUS
<1>15. IsPrepended(all, e, rest)
  BY <1>14 DEF IsPrepended
<1>16. /\ all \in Seq(Nat) /\ Len(all) = Len(rest) + 1 /\ all[1] = e
       /\ \A k \in 2..Len(all) : all[k] = rest[k - 1]
  BY <1>6, <1>12, <1>14
<1>17. /\ PartsOf(data, delim, u, all) \in Seq(Text)
       /\ Joined(Append(parts, first), PartsOf(data, delim, e, rest)) =
             Joined(parts, PartsOf(data, delim, u, all))
  <2>1. PartsOf(data, delim, e, rest) \in Seq(Text) /\ IsPart(first, data, delim, u, e)
    BY <1>9, <1>13 DEF IsPart
  <2>2. u + Len(delim) <= e /\ e <= Len(data) /\ Len(delim) > 0
    BY <1>6
  <2>3. data \in Seq(Byte) /\ delim \in Seq(Byte) /\ u \in Nat /\ e \in Nat
        /\ parts \in Seq(Text)
    BY <1>1, <1>4, <1>6
  <2> QED BY ONLY <1>12, <1>15, <2>1, <2>2, <2>3, PartsOfMore
<1>18. g \o SubSeq(data, e + 1, N) = h \o SubSeq(data, q + 1, N)
  <2>1. q + 1 \in 1..N + 1 /\ e \in (q + 1) - 1..N /\ N \in e..N /\ q + 1 <= e + 1 /\ e \in 0..N
    BY <1>4, <1>6, <1>7
  <2>2. SubSeq(data, q + 1, e) \o SubSeq(data, e + 1, N) = SubSeq(data, q + 1, N)
    BY <2>1, ConcatAdjacentSubSeq
  <2>3. SubSeq(data, q + 1, e) \in Seq(Byte)
    BY <2>1, SubSeqFacts
  <2>4. SubSeq(data, e + 1, N) \in Seq(Byte)
    <3>1. e + 1 \in 1..N + 1 /\ N \in 0..N /\ e + 1 <= N + 1
      BY <1>4, <1>6
    <3> QED BY <3>1, SubSeqFacts
  <2>5. PICK a : a = SubSeq(data, q + 1, e)
    OBVIOUS
  <2>6. PICK b : b = SubSeq(data, e + 1, N)
    OBVIOUS
  <2>7. a \in Seq(Byte) /\ b \in Seq(Byte)
    BY <2>3, <2>4, <2>5, <2>6
  <2>8. (h \o a) \o b = h \o (a \o b)
    <3>1. h \in Seq(Byte)
      BY <1>1
    <3>2. Joined(Joined(h, a), b) = Joined(h, Joined(a, b))
      BY ONLY <2>7, <3>1, JoinedAssociative
    <3> QED BY ONLY <3>2 DEF Joined
  <2> QED BY <1>10, <2>2, <2>5, <2>6, <2>8
<1>19. Ends(data, delim, i) = all
  BY <1>2, <1>3, <1>14, EndsDef
<1>20. EndOr(all, u) = EndOr(rest, e)
  <2>1. all # <<>>
    BY <1>12, <1>16
  <2>2. CASE rest = <<>>
    BY <1>16, <2>1, <2>2 DEF EndOr
  <2>3. CASE rest # <<>>
    <3>1. Len(all) \in 2..Len(all) /\ Len(all) - 1 = Len(rest)
      BY <1>12, <1>16, <2>3
    <3> QED BY <1>16, <2>1, <2>3, <3>1 DEF EndOr
  <2> QED BY <2>2, <2>3
<1> QED BY <1>13, <1>17, <1>18, <1>19, <1>20

\* Every search goes on with the split: by induction down from the end of the data.
LEMMA SearchGoesOn ==
    ASSUME NEW data \in Seq(Byte), NEW delim \in Seq(Byte), Len(delim) > 0
    PROVE  \A i \in 0..Len(data) : SearchSplits(data, delim, i)
<1> DEFINE S == {i \in 0..Len(data) : SearchSplits(data, delim, i)}
<1>1. ASSUME NEW i \in 0..Len(data), \A j \in i + 1..Len(data) : j \in S
      PROVE  i \in S
  <2>1. \A j \in i + 1..Len(data) : SearchSplits(data, delim, j)
    BY <1>1
  <2>2. SearchSplits(data, delim, i)
    BY <2>1, SearchSplitsNone, SearchSplitsFound
  <2> QED BY <2>2
<1>2. Len(data) \in Nat
  OBVIOUS
<1> HIDE DEF S
<1>3. 0..Len(data) \subseteq S
  BY <1>1, <1>2, DownFrom
<1> QED BY <1>3 DEF S

\* What accept() of bytes does to a buffer.
LEMMA FilledFacts ==
    ASSUME NEW b \in Buffer, OffsetsIn(b), NEW bytes \in Seq(Byte),
           NEW c, c = Filled(b, bytes)
    PROVE  /\ c \in Buffer /\ OffsetsIn(c)
           /\ c.data = Joined(b.data, bytes) /\ c.top = b.top + Len(bytes)
           /\ c.unparsed = b.unparsed /\ c.unsearched = b.unsearched
           /\ c.size = b.size /\ c.reserved = b.reserved
<1>1. b.data \o bytes \in Seq(Byte) /\ Len(b.data \o bytes) = Len(b.data) + Len(bytes)
  BY DEF Buffer
<1>2. c = [b EXCEPT !.top = b.top + Len(bytes), !.data = b.data \o bytes]
  BY DEF Filled, Accept, Buffer
<1>3. Len(bytes) \in Nat /\ b.top + Len(bytes) \in Nat
  BY DEF Buffer
<1>4. PICK data : data = b.data \o bytes
  OBVIOUS
<1>5. c = [b EXCEPT !.top = b.top + Len(bytes), !.data = data]
  BY <1>2, <1>4
<1>6. /\ c \in Buffer /\ c.data = data /\ c.top = b.top + Len(bytes)
      /\ c.unparsed = b.unparsed /\ c.unsearched = b.unsearched
      /\ c.size = b.size /\ c.reserved = b.reserved
  BY <1>1, <1>3, <1>4, <1>5 DEF Buffer
<1>7. Len(data) = Len(b.data) + Len(bytes)
  BY <1>1, <1>4
<1>8. OffsetsIn(c)
  BY <1>3, <1>6, <1>7 DEF OffsetsIn
<1> QED BY <1>4, <1>6, <1>8 DEF Joined

\* What parse() does to a buffer: the offsets move to the last end, and what was
\* not searched again has been searched before.
LEMMA ParsedFacts ==
    ASSUME NEW c \in Buffer, OffsetsIn(c), NEW delim \in Seq(Byte), Len(delim) > 0,
           NEW d, d = Parsed(c, delim)
    PROVE  LET ends == Ends(c.data, delim, c.unsearched)
           IN /\ d \in Buffer /\ OffsetsIn(d)
              /\ d.data = c.data /\ d.top = c.top /\ d.size = c.size /\ d.reserved = c.reserved
              /\ d.unparsed = EndOr(ends, c.unparsed)
              /\ d.unparsed = c.unparsed \/ d.unparsed >= c.unsearched + Len(delim)
              /\ \/ d.unsearched = d.unparsed
                 \/ d.unsearched = c.unsearched /\ d.unparsed = c.unparsed
                 \/ d.unsearched + Len(delim) <= d.top
              /\ Parts(c, delim) = PartsOf(c.data, delim, c.unparsed, ends)
              /\ \A j \in (d.unparsed + Len(delim))..Len(d.data) :
                    j \in (c.unsearched + Len(delim))..Len(c.data) => ~Match(c.data, delim, j)
<1> DEFINE ends == Ends(c.data, delim, c.unsearched)
           unparsed == IF ends = <<>> THEN c.unparsed ELSE Last(ends)
           from == IF ends = <<>> THEN c.unsearched ELSE unparsed
           unsearched == Searched(c, delim, unparsed, from)
<1>1. d = [c EXCEPT !.unparsed = unparsed, !.unsearched = unsearched]
  BY DEF Parsed, NewEnds
<1>2. /\ c.data \in Seq(Byte) /\ c.unsearched \in 0..Len(c.data) /\ c.unparsed \in Nat
      /\ c.unsearched \in Nat /\ c.unparsed <= c.unsearched /\ c.top = Len(c.data) /\ c.top \in Nat
      /\ Len(delim) \in Nat
  BY DEF Buffer, OffsetsIn
<1>3. /\ ends \in Seq(Nat)
      /\ \A k \in 1..Len(ends) : ends[k] \in (c.unsearched + Len(delim))..Len(c.data)
      /\ \A j \in (EndOr(ends, c.unsearched) + Len(delim))..Len(c.data) : ~Match(c.data, delim, j)
  BY <1>2, EndsFacts
<1>4. Parts(c, delim) = PartsOf(c.data, delim, c.unparsed, ends)
  BY DEF Parts, PartsOf, NewEnds
<1> HIDE DEF ends
<1>5. unparsed = EndOr(ends, c.unparsed)
  BY <1>3 DEF EndOr, Last
<1>6. CASE ends = <<>>
  <2>1. unparsed = c.unparsed /\ from = c.unsearched /\ EndOr(ends, c.unsearched) = c.unsearched
    BY <1>6 DEF EndOr
  <2>2. /\ unsearched \in c.unparsed..c.top
        /\ unsearched = c.unsearched \/ unsearched + Len(delim) <= c.top
    BY <1>2, <2>1 DEF Searched
  <2> HIDE DEF unparsed, unsearched
  <2>6. /\ d \in Buffer
        /\ d.data = c.data /\ d.top = c.top /\ d.size = c.size /\ d.reserved = c.reserved
        /\ d.unparsed = unparsed /\ d.unsearched = unsearched
    <3>1. unparsed \in Nat /\ unsearched \in Nat
      BY <1>2, <2>1, <2>2
    <3> QED BY <1>1, <3>1 DEF Buffer
  <2>7. OffsetsIn(d)
    BY <1>2, <2>1, <2>2, <2>6 DEF OffsetsIn
  <2>8. \A j \in (d.unparsed + Len(delim))..Len(d.data) :
           j \in (c.unsearched + Len(delim))..Len(c.data) => ~Match(c.data, delim, j)
    BY <1>3, <2>1, <2>6
  <2> QED BY <1>4, <1>5, <2>1, <2>2, <2>6, <2>7, <2>8 DEF ends
<1>7. CASE ends # <<>>
  <2>1. Len(ends) \in 1..Len(ends)
    BY <1>3, <1>7
  <2>2. unparsed = ends[Len(ends)] /\ from = unparsed /\ EndOr(ends, c.unsearched) = unparsed
    BY <1>7 DEF EndOr, Last
  <2>3. unparsed \in (c.unsearched + Len(delim))..Len(c.data)
    BY <1>3, <2>1, <2>2
  <2>4. unparsed \in Nat /\ unparsed <= c.top
    BY <1>2, <2>3
  <2>5. /\ unsearched \in unparsed..c.top
        /\ unsearched = unparsed \/ unsearched + Len(delim) <= c.top
    <3> HIDE DEF unparsed
    <3> QED BY <1>2, <2>2, <2>4 DEF Searched
  <2> HIDE DEF unparsed, unsearched
  <2>6. /\ d \in Buffer
        /\ d.data = c.data /\ d.top = c.top /\ d.size = c.size /\ d.reserved = c.reserved
        /\ d.unparsed = unparsed /\ d.unsearched = unsearched
    <3>1. unparsed \in Nat /\ unsearched \in Nat
      BY <1>2, <2>4, <2>5
    <3> QED BY <1>1, <3>1 DEF Buffer
  <2>7. OffsetsIn(d)
    BY <1>2, <2>4, <2>5, <2>6 DEF OffsetsIn
  <2>8. \A j \in (d.unparsed + Len(delim))..Len(d.data) :
           j \in (c.unsearched + Len(delim))..Len(c.data) => ~Match(c.data, delim, j)
    BY <1>3, <2>2, <2>6
  <2>9. d.unparsed >= c.unsearched + Len(delim)
    BY <1>2, <2>3, <2>6
  <2> QED BY <1>4, <1>5, <2>5, <2>6, <2>7, <2>8, <2>9 DEF ends
<1> QED BY <1>6, <1>7

\* Bytes that come in behind a match do not change it.
LEMMA MatchPrefix ==
    ASSUME NEW a \in Seq(Byte), NEW b \in Seq(Byte), NEW delim \in Seq(Byte),
           NEW j \in Nat, j <= Len(a), NEW s, s = Joined(a, b)
    PROVE  Match(s, delim, j) <=> Match(a, delim, j)
<1>1. /\ s \in Seq(Byte) /\ Len(s) = Len(a) + Len(b)
      /\ \A i \in 1..Len(a) : s[i] = a[i]
  BY DEF Joined
<1>2. Len(a) \in Nat /\ Len(b) \in Nat /\ Len(delim) \in Nat
  OBVIOUS
<1>3. j \in Len(delim)..Len(s) <=> j \in Len(delim)..Len(a)
  BY <1>1, <1>2
<1>4. ASSUME j \in Len(delim)..Len(a), NEW k \in 1..Len(delim)
      PROVE  s[j - Len(delim) + k] = a[j - Len(delim) + k]
  <2>1. j - Len(delim) + k \in 1..Len(a)
    BY <1>2, <1>4
  <2> QED BY <1>1, <2>1
<1> QED BY <1>3, <1>4 DEF Match

\* The bytes behind p up to q.
Slice(data, p, q) == SubSeq(data, p + 1, q)

\* The two halves of bytes that were put together.
LEMMA JoinSlices ==
    ASSUME NEW a \in Seq(Byte), NEW b \in Seq(Byte), NEW u \in Nat, u <= Len(a)
    PROVE  /\ Slice(Joined(a, b), u, Len(a)) = Slice(a, u, Len(a))
           /\ Slice(Joined(a, b), Len(a), Len(Joined(a, b))) = b
<1>0. PICK s : s = Joined(a, b)
  OBVIOUS
<1>1. /\ s \in Seq(Byte) /\ Len(s) = Len(a) + Len(b)
      /\ \A i \in 1..Len(a) : s[i] = a[i]
      /\ \A i \in 1..Len(b) : s[Len(a) + i] = b[i]
  BY <1>0 DEF Joined
<1>2. Len(a) \in Nat /\ Len(b) \in Nat
  OBVIOUS
<1>3. SubSeq(s, u + 1, Len(a)) = SubSeq(a, u + 1, Len(a))
  <2>1. PICK p : p = SubSeq(s, u + 1, Len(a))
    OBVIOUS
  <2>2. PICK r : r = SubSeq(a, u + 1, Len(a))
    OBVIOUS
  <2>3. /\ u + 1 \in 1..Len(s) + 1 /\ Len(a) \in 0..Len(s) /\ u + 1 <= Len(a) + 1
        /\ u + 1 \in 1..Len(a) + 1 /\ Len(a) \in 0..Len(a)
    BY <1>1, <1>2
  <2>4. /\ p \in Seq(Byte) /\ Len(p) = Len(a) - (u + 1) + 1
        /\ \A i \in 1..Len(a) - (u + 1) + 1 : p[i] = s[(u + 1) + i - 1]
    BY <1>1, <2>1, <2>3, SubSeqFacts
  <2>5. /\ r \in Seq(Byte) /\ Len(r) = Len(a) - (u + 1) + 1
        /\ \A i \in 1..Len(a) - (u + 1) + 1 : r[i] = a[(u + 1) + i - 1]
    BY <2>2, <2>3, SubSeqFacts
  <2>6. \A i \in 1..Len(a) - (u + 1) + 1 : (u + 1) + i - 1 \in 1..Len(a)
    BY <1>2
  <2>7. \A i \in 1..Len(p) : p[i] = r[i]
    BY <1>1, <2>4, <2>5, <2>6
  <2>8. p = r
    BY <2>4, <2>5, <2>7, SeqEqual
  <2> QED BY <2>1, <2>2, <2>8
<1>4. SubSeq(s, Len(a) + 1, Len(s)) = b
  <2>1. PICK p : p = SubSeq(s, Len(a) + 1, Len(s))
    OBVIOUS
  <2>2. Len(a) + 1 \in 1..Len(s) + 1 /\ Len(s) \in 0..Len(s) /\ Len(a) + 1 <= Len(s) + 1
    BY <1>1, <1>2
  <2>3. /\ p \in Seq(Byte) /\ Len(p) = Len(s) - (Len(a) + 1) + 1
        /\ \A i \in 1..Len(s) - (Len(a) + 1) + 1 : p[i] = s[(Len(a) + 1) + i - 1]
    BY <1>1, <2>1, <2>2, SubSeqFacts
  <2>4. Len(s) - (Len(a) + 1) + 1 = Len(b) /\ \A i \in 1..Len(b) : (Len(a) + 1) + i - 1 = Len(a) + i
    BY <1>1, <1>2
  <2>5. Len(p) = Len(b) /\ \A i \in 1..Len(b) : p[i] = b[i]
    BY <1>1, <2>3, <2>4
  <2>6. p = b
    BY <2>3, <2>5, SeqEqual
  <2> QED BY <2>1, <2>6
<1> QED BY <1>0, <1>3, <1>4 DEF Slice

\* A parser has missed no delimiter, and starts its next search early enough.
Clean(b, delim) ==
    /\ \A j \in (b.unparsed + Len(delim))..Len(b.data) : ~Match(b.data, delim, j)
    /\ b.unsearched = b.unparsed \/ b.unsearched + Len(delim) <= b.top

\* A parser that has missed no delimiter misses none in the bytes that come in,
\* however the network has cut them: the search starts a delimiter before the end.
LEMMA Received ==
    ASSUME NEW b \in Buffer, OffsetsIn(b), NEW delim \in Seq(Byte), Len(delim) > 0,
           Clean(b, delim), NEW bytes \in Seq(Byte),
           NEW c, c = Filled(b, bytes), NEW d, d = Parsed(c, delim)
    PROVE  /\ c \in Buffer /\ OffsetsIn(c) /\ d \in Buffer /\ OffsetsIn(d)
           /\ Clean(d, delim)
           /\ d.data = Joined(b.data, bytes) /\ c.data = d.data /\ d.top = b.top + Len(bytes)
           /\ d.size = b.size /\ d.reserved = b.reserved
           /\ Parts(c, delim) = PartsOf(d.data, delim, b.unparsed, Ends(d.data, delim, b.unsearched))
           /\ d.unparsed = EndOr(Ends(d.data, delim, b.unsearched), b.unparsed)
           /\ QuietTo(d.data, delim, b.unparsed, b.unsearched, b.top)
<1>1. /\ c \in Buffer /\ OffsetsIn(c)
      /\ c.data = Joined(b.data, bytes) /\ c.top = b.top + Len(bytes)
      /\ c.unparsed = b.unparsed /\ c.unsearched = b.unsearched
      /\ c.size = b.size /\ c.reserved = b.reserved
  BY ONLY FilledFacts, b \in Buffer, OffsetsIn(b), bytes \in Seq(Byte), c = Filled(b, bytes)
<1>2. PICK ends : ends = Ends(c.data, delim, c.unsearched)
  OBVIOUS
<1>3. /\ d \in Buffer /\ OffsetsIn(d)
      /\ d.data = c.data /\ d.top = c.top /\ d.size = c.size /\ d.reserved = c.reserved
      /\ d.unparsed = EndOr(ends, c.unparsed)
      /\ d.unparsed = c.unparsed \/ d.unparsed >= c.unsearched + Len(delim)
      /\ \/ d.unsearched = d.unparsed
         \/ d.unsearched = c.unsearched /\ d.unparsed = c.unparsed
         \/ d.unsearched + Len(delim) <= d.top
      /\ Parts(c, delim) = PartsOf(c.data, delim, c.unparsed, ends)
      /\ \A j \in (d.unparsed + Len(delim))..Len(d.data) :
            j \in (c.unsearched + Len(delim))..Len(c.data) => ~Match(c.data, delim, j)
  <2>1. c \in Buffer /\ OffsetsIn(c)
    BY <1>1
  <2> QED BY ONLY <2>1, <1>2, ParsedFacts, delim \in Seq(Byte), Len(delim) > 0, d = Parsed(c, delim)
<1>4. /\ b.unparsed \in Nat /\ b.unsearched \in Nat /\ b.top \in Nat /\ Len(delim) \in Nat
      /\ b.data \in Seq(Byte) /\ Len(b.data) = b.top /\ Len(bytes) \in Nat
      /\ b.unparsed <= b.unsearched /\ b.unsearched <= b.top
      /\ Len(c.data) = b.top + Len(bytes)
  BY <1>1 DEF Buffer, OffsetsIn
<1>5. ASSUME NEW j \in 0..Len(c.data), b.unparsed + Len(delim) <= j,
             j < b.unsearched + Len(delim) \/ j <= b.top
      PROVE  ~Match(c.data, delim, j)
  <2>1. j \in Nat /\ j <= Len(b.data)
    BY <1>4, <1>5 DEF Clean
  <2>2. ~Match(b.data, delim, j)
    BY <1>4, <1>5, <2>1 DEF Clean
  <2>3. c.data = Joined(b.data, bytes) /\ b.data \in Seq(Byte) /\ bytes \in Seq(Byte)
    BY <1>1, <1>4
  <2> QED BY ONLY <2>1, <2>2, <2>3, MatchPrefix, delim \in Seq(Byte)
<1>6. QuietTo(c.data, delim, b.unparsed, b.unsearched, b.top)
  BY <1>5 DEF QuietTo
<1>7. Clean(d, delim)
  <2>1. ASSUME NEW j \in (d.unparsed + Len(delim))..Len(d.data)
        PROVE  ~Match(d.data, delim, j)
    <3>1. j \in Nat /\ d.unparsed \in Nat /\ j \in 0..Len(c.data) /\ d.unparsed + Len(delim) <= j
      <4>1. PICK v, l, n : v = d.unparsed /\ l = Len(delim) /\ n = Len(d.data)
        OBVIOUS
      <4>2. v \in Nat /\ l \in Nat
        BY <1>3, <1>4, <4>1 DEF Buffer
      <4>3. n = Len(c.data) /\ n \in Nat
        BY <1>3, <1>4, <4>1
      <4>4. j \in v + l..n
        BY ONLY <4>1, j \in (d.unparsed + Len(delim))..Len(d.data)
      <4> QED BY ONLY <4>1, <4>2, <4>3, <4>4
    <3>2. CASE j \in (c.unsearched + Len(delim))..Len(c.data)
      BY <1>3, <3>2
    <3>3. CASE j \notin (c.unsearched + Len(delim))..Len(c.data)
      <4>1. j < b.unsearched + Len(delim)
        BY <1>1, <1>4, <3>1, <3>3
      <4>2. d.unparsed = b.unparsed
        BY <1>1, <1>3, <1>4, <3>1, <4>1
      <4> QED BY <1>3, <1>5, <3>1, <4>1, <4>2
    <3> QED BY <3>2, <3>3
  <2>2. d.unsearched = d.unparsed \/ d.unsearched + Len(delim) <= d.top
    BY <1>1, <1>3, <1>4 DEF Clean
  <2> QED BY <2>1, <2>2 DEF Clean
<1> QED BY <1>1, <1>2, <1>3, <1>6, <1>7

\* The same of a sound buffer, without names for the buffers in between.
LEMMA SoundReceived ==
    ASSUME NEW b, NEW delim \in Seq(Byte), Len(delim) > 0, b \in Buffer, OffsetsIn(b),
           Clean(b, delim), NEW bytes \in Seq(Byte)
    PROVE  /\ Parsed(Filled(b, bytes), delim).data = Joined(b.data, bytes)
           /\ Filled(b, bytes).data = Joined(b.data, bytes)
           /\ Parts(Filled(b, bytes), delim) =
                 PartsOf(Joined(b.data, bytes), delim, b.unparsed,
                         Ends(Joined(b.data, bytes), delim, b.unsearched))
           /\ Parsed(Filled(b, bytes), delim).unparsed =
                 EndOr(Ends(Joined(b.data, bytes), delim, b.unsearched), b.unparsed)
<1>1. PICK c : c = Filled(b, bytes)
  OBVIOUS
<1>2. PICK d : d = Parsed(c, delim)
  OBVIOUS
<1>3. /\ d.data = Joined(b.data, bytes) /\ c.data = d.data
      /\ Parts(c, delim) = PartsOf(d.data, delim, b.unparsed, Ends(d.data, delim, b.unsearched))
      /\ d.unparsed = EndOr(Ends(d.data, delim, b.unsearched), b.unparsed)
  BY <1>1, <1>2, Received
<1> QED BY ONLY <1>1, <1>2, <1>3

\* What parse() reports of bytes that have come in is what splitting them adds.
LEMMA ReceivedSplit ==
    ASSUME NEW b \in Buffer, OffsetsIn(b), NEW delim \in Seq(Byte), Len(delim) > 0,
           Clean(b, delim), NEW bytes \in Seq(Byte),
           NEW c, c = Filled(b, bytes), NEW d, d = Parsed(c, delim),
           NEW h \in Seq(Byte), NEW parts \in Seq(Text),
           SplitsInto(h, delim, parts, Redundant(b))
    PROVE  /\ Parts(c, delim) \in Seq(Text)
           /\ SplitsInto(h \o bytes, delim, Joined(parts, Parts(c, delim)), Redundant(d))
<1> DEFINE N == Len(d.data)
           u == b.unparsed
           i == b.unsearched
           q == b.top
<1>1. /\ d \in Buffer /\ OffsetsIn(d)
      /\ d.data = Joined(b.data, bytes) /\ d.top = b.top + Len(bytes)
      /\ Parts(c, delim) = PartsOf(d.data, delim, u, Ends(d.data, delim, i))
      /\ d.unparsed = EndOr(Ends(d.data, delim, i), u)
      /\ QuietTo(d.data, delim, u, i, q)
  BY Received
<1>2. /\ d.data \in Seq(Byte) /\ b.data \in Seq(Byte) /\ N = d.top /\ q = Len(b.data)
      /\ u \in Nat /\ i \in Nat /\ q \in Nat /\ u <= i /\ i <= q /\ Len(bytes) \in Nat
  BY <1>1 DEF Buffer, OffsetsIn
<1>3. u \in 0..i /\ q \in 0..N /\ u <= q /\ i \in 0..N
  BY <1>1, <1>2
<1>4. SubSeq(d.data, u + 1, q) = Redundant(b) /\ SubSeq(d.data, q + 1, N) = bytes
  <2>1. /\ Slice(Joined(b.data, bytes), u, Len(b.data)) = Slice(b.data, u, Len(b.data))
        /\ Slice(Joined(b.data, bytes), Len(b.data), Len(Joined(b.data, bytes))) = bytes
    <3>1. /\ b.data \in Seq(Byte) /\ bytes \in Seq(Byte)
          /\ b.unparsed \in Nat /\ b.unparsed <= Len(b.data)
      BY <1>2
    <3> QED BY ONLY <3>1, JoinSlices
  <2>2. Slice(d.data, u, q) = Slice(b.data, u, q) /\ Slice(d.data, q, N) = bytes
    BY <1>1, <1>2, <2>1
  <2> QED BY <2>2 DEF Redundant, Slice
<1>5. SearchSplits(d.data, delim, i)
  BY <1>2, <1>3, SearchGoesOn
<1>6. SplitsInto(h, delim, parts, SubSeq(d.data, u + 1, q))
  BY <1>4
<1>7. /\ PartsOf(d.data, delim, u, Ends(d.data, delim, i)) \in Seq(Text)
      /\ SplitsInto(h \o SubSeq(d.data, q + 1, N), delim,
                    Joined(parts, PartsOf(d.data, delim, u, Ends(d.data, delim, i))),
                    SubSeq(d.data, EndOr(Ends(d.data, delim, i), u) + 1, N))
  BY <1>1, <1>3, <1>5, <1>6 DEF SearchSplits
<1>8. SubSeq(d.data, EndOr(Ends(d.data, delim, i), u) + 1, N) = Redundant(d)
  BY <1>1, <1>2 DEF Redundant
<1> QED BY <1>1, <1>4, <1>7, <1>8

\* calculate_mem makes room for what is released: it keeps two blocks.
LEMMA RoomFor ==
    ASSUME NEW top \in Nat, NEW n \in Nat \ {0}
    PROVE  CalculateMem(top, n) \in Nat /\ CalculateMem(top, n) >= top + n
<1>1. PICK q \in Nat : q = (top + top) \div n
  OBVIOUS
<1>2. top + top < (q + 1) * n
  BY <1>1
<1>3. FreeBlocks \in Nat /\ FreeBlocks >= 2
  BY BuffAssumption, StreamAssumption
<1>4. PICK k \in Nat : FreeBlocks = 2 + k
  <2>1. FreeBlocks - 2 \in Nat /\ FreeBlocks = 2 + (FreeBlocks - 2)
    BY <1>3
  <2> QED BY <2>1
<1>5. (q + FreeBlocks) * n = (q + 1) * n + n + k * n
  BY <1>4
<1>6. k * n \in Nat
  OBVIOUS
<1>7. (q + 1) * n \in Nat
  OBVIOUS
<1>8. CalculateMem(top, n) = (q + FreeBlocks) * n
  BY <1>1 DEF CalculateMem
<1> QED BY <1>2, <1>5, <1>6, <1>7, <1>8

\* For an empty buffer it makes room for more than that.
LEMMA MoreRoom ==
    ASSUME NEW n \in Nat \ {0}
    PROVE  CalculateMem(0, n) \in Nat /\ CalculateMem(0, n) > n
<1>1. (0 + 0) \div n = 0
  OBVIOUS
<1>2. FreeBlocks \in Nat /\ FreeBlocks >= 2
  BY BuffAssumption, StreamAssumption
<1>3. FreeBlocks - 2 \in Nat /\ FreeBlocks * n = n + n + (FreeBlocks - 2) * n
  BY <1>2
<1>4. (FreeBlocks - 2) * n \in Nat
  BY <1>3
<1>5. CalculateMem(0, n) = FreeBlocks * n
  BY <1>1, <1>2 DEF CalculateMem
<1> QED BY <1>2, <1>3, <1>4, <1>5

\* A rest is more than the part of itself that mem_reduce keeps.
LEMMA KeepsLess ==
    ASSUME NEW n \in Nat \ {0}
    PROVE  n * 100 > KeepPercent * n
<1>1. KeepPercent \in 0..99
  BY StreamAssumption
<1>2. PICK k \in Nat \ {0} : 100 = KeepPercent + k
  <2>1. 100 - KeepPercent \in Nat \ {0} /\ 100 = KeepPercent + (100 - KeepPercent)
    BY <1>1
  <2> QED BY <2>1
<1>3. n * 100 = KeepPercent * n + k * n
  BY <1>1, <1>2
<1>4. k * n > 0 /\ k * n \in Nat /\ KeepPercent * n \in Nat
  BY <1>1
<1> QED BY <1>3, <1>4

\* release() of anything, or of nothing where some room is left, moves no byte and
\* allocates what it gives out.
LEMMA ReleaseFacts ==
    ASSUME NEW b \in Buffer, OffsetsIn(b), Fit(b), NEW n \in Nat, n > 0 \/ b.reserved > b.top,
           NEW c, c = Release(b, n)
    PROVE  /\ c \in Buffer /\ OffsetsIn(c) /\ Fit(c)
           /\ c.data = b.data /\ c.unparsed = b.unparsed /\ c.unsearched = b.unsearched
           /\ c.top = b.top
<1>1. CASE n < Avail(b)
  BY <1>1 DEF Release
<1>2. CASE ~(n < Avail(b))
  <2> DEFINE reserved == IF b.reserved - b.top <= n THEN CalculateMem(b.top, n) ELSE b.reserved
  <2>1. c = [b EXCEPT !.size = b.top + n, !.reserved = reserved]
    BY <1>2 DEF Release, Buffer
  <2>2. b.top \in Nat /\ b.reserved \in Nat /\ b.top + n \in Nat
    BY DEF Buffer
  <2>3. reserved \in Nat /\ b.top + n <= reserved
    <3>1. CASE b.reserved - b.top <= n
      <4>1. n \in Nat \ {0}
        BY <2>2, <3>1
      <4> QED BY <2>2, <3>1, <4>1, RoomFor
    <3>2. CASE ~(b.reserved - b.top <= n)
      BY <2>2, <3>2
    <3> QED BY <3>1, <3>2
  <2> HIDE DEF reserved
  <2>4. /\ c \in Buffer /\ c.size = b.top + n /\ c.reserved = reserved
        /\ c.data = b.data /\ c.unparsed = b.unparsed /\ c.unsearched = b.unsearched
        /\ c.top = b.top
    BY <2>1, <2>2, <2>3 DEF Buffer
  <2> QED BY <2>2, <2>3, <2>4 DEF OffsetsIn, Fit
<1> QED BY <1>1, <1>2

\* reset() leaves an empty buffer with room.
LEMMA ResetFacts ==
    ASSUME NEW b \in Buffer, NEW c, c = ResetParser(b)
    PROVE  /\ c \in Buffer /\ OffsetsIn(c) /\ Fit(c)
           /\ c.data = <<>> /\ c.unparsed = 0 /\ c.unsearched = 0
           /\ c.top = 0 /\ c.size = 0 /\ c.reserved > 0
<1>1. /\ CalculateMem(0, BasicBlock) \in Nat /\ CalculateMem(0, BasicBlock) > 0
  BY BuffAssumption, RoomFor
<1>2. PICK m \in Nat : m = CalculateMem(0, BasicBlock) /\ m > 0
  BY <1>1
<1>3. c = [b EXCEPT !.top = 0, !.size = 0, !.reserved = m,
                    !.data = <<>>, !.unparsed = 0, !.unsearched = 0]
  BY <1>2 DEF ResetParser, Reset, Buffer
<1>4. /\ c \in Buffer
      /\ c.data = <<>> /\ c.unparsed = 0 /\ c.unsearched = 0
      /\ c.top = 0 /\ c.size = 0 /\ c.reserved = m
  <2>0. <<>> \in Seq(Byte)
    OBVIOUS
  <2>1. PICK none \in Seq(Byte) : none = <<>>
    BY <2>0
  <2>2. c = [b EXCEPT !.top = 0, !.size = 0, !.reserved = m,
                      !.data = none, !.unparsed = 0, !.unsearched = 0]
    BY <1>3, <2>1
  <2>3. /\ c \in Buffer /\ c.data = none /\ c.unparsed = 0 /\ c.unsearched = 0
        /\ c.top = 0 /\ c.size = 0 /\ c.reserved = m
    <3>1. c = [data |-> none, unparsed |-> 0, unsearched |-> 0,
               top |-> 0, size |-> 0, reserved |-> m]
      BY <2>2 DEF Buffer
    <3> QED BY <3>1 DEF Buffer
  <2> QED BY <2>1, <2>3
<1> QED BY <1>2, <1>4 DEF OffsetsIn, Fit

\* A new buffer is empty.
LEMMA NewFacts ==
    /\ NewBuffer \in Buffer /\ OffsetsIn(NewBuffer) /\ Fit(NewBuffer)
    /\ NewBuffer.data = <<>> /\ NewBuffer.unparsed = 0 /\ NewBuffer.top = 0
<1>1. 2 * BasicBlock \in Nat
  BY BuffAssumption
<1>2. NewBuffer = [data |-> <<>>, unparsed |-> 0, unsearched |-> 0,
                   top |-> 0, size |-> 0, reserved |-> 2 * BasicBlock]
  BY DEF NewBuffer, NewMem
<1> QED BY <1>1, <1>2 DEF Buffer, OffsetsIn, Fit

\* An empty buffer has missed no delimiter and has no rest.
LEMMA EmptyFacts ==
    ASSUME NEW b \in Buffer, OffsetsIn(b), b.data = <<>>,
           NEW delim \in Seq(Byte), Len(delim) > 0
    PROVE  /\ Clean(b, delim) /\ Redundant(b) = <<>> /\ b.unparsed = 0
           /\ SplitsInto(<<>>, delim, <<>>, Redundant(b))
<1>1. b.top = 0 /\ b.unparsed = 0 /\ b.unsearched = 0
  BY DEF OffsetsIn
<1>2. Redundant(b) = <<>>
  BY <1>1 DEF Redundant
<1>3. Clean(b, delim)
  BY <1>1 DEF Clean
<1>4. SplitsInto(<<>>, delim, <<>>, Redundant(b))
  BY <1>2, SplitEmpty DEF SplitsInto, NoParts
<1> QED BY <1>1, <1>2, <1>3, <1>4

\* The two delimiters are not empty.
LEMMA Delimiters ==
    /\ CRLF \in Seq(Byte) /\ Len(CRLF) > 0
    /\ DataEnd \in Seq(Byte) /\ Len(DataEnd) > 0
BY StreamAssumption DEF CRLF, DataEnd

-----------------------------------------------------------------------------
\* The invariant. What holds of both buffers between two reads.
Sound(b, delim) == b \in Buffer /\ OffsetsIn(b) /\ Fit(b) /\ Clean(b, delim)

\* What CommandsReduced says of the command buffer.
Reduced(b) == b.top = 0 \/ Len(Redundant(b)) * 100 > KeepPercent * b.top

\* The command buffer is as sound and as reduced as what it is set to,
LEMMA CommandsSame ==
    ASSUME NEW c, Sound(c, CRLF), Reduced(c), cmd' = c
    PROVE  (Sound(cmd, CRLF))' /\ (Reduced(cmd))' /\ (Redundant(cmd))' = Redundant(c)
<1>1. (cmd \in Buffer)'
  BY DEF Sound, Buffer
<1>2. (OffsetsIn(cmd))' /\ (Fit(cmd))'
  BY DEF Sound, OffsetsIn, Fit
<1>3. (Clean(cmd, CRLF))'
  BY DEF Sound, Clean, Match, CRLF
<1>4. (Redundant(cmd))' = Redundant(c)
  BY DEF Redundant
<1>5. (Reduced(cmd))'
  BY DEF Reduced, Redundant
<1> QED BY <1>1, <1>2, <1>3, <1>4, <1>5 DEF Sound

\* and the data buffer as sound.
LEMMA MessageSame ==
    ASSUME NEW b, Sound(b, DataEnd), msg' = b
    PROVE  (Sound(msg, DataEnd))'
<1>1. (msg \in Buffer)'
  BY DEF Sound, Buffer
<1>2. (OffsetsIn(msg))' /\ (Fit(msg))'
  BY DEF Sound, OffsetsIn, Fit
<1>3. (Clean(msg, DataEnd))'
  BY DEF Sound, Clean, Match, DataEnd
<1> QED BY <1>1, <1>2, <1>3 DEF Sound
\* The rest of a buffer is what is behind the parsed bytes.
LEMMA RedundantFacts ==
    ASSUME NEW b \in Buffer, OffsetsIn(b)
    PROVE  Redundant(b) \in Seq(Byte) /\ Len(Redundant(b)) = b.top - b.unparsed
<1>1. /\ b.data \in Seq(Byte) /\ b.unparsed + 1 \in 1..Len(b.data) + 1 /\ b.top \in 0..Len(b.data)
      /\ b.unparsed + 1 <= b.top + 1 /\ b.top - (b.unparsed + 1) + 1 = b.top - b.unparsed
  BY DEF Buffer, OffsetsIn
<1> QED BY <1>1, SubSeqFacts DEF Redundant

\* Where a rest has a match, the buffer has one behind what is parsed.
LEMMA MatchInRest ==
    ASSUME NEW b \in Buffer, OffsetsIn(b), NEW delim \in Seq(Byte), Clean(b, delim),
           NEW j, Match(Redundant(b), delim, j)
    PROVE  FALSE
<1>1. PICK rest : rest = Redundant(b)
  OBVIOUS
<1>2. /\ b.data \in Seq(Byte) /\ b.unparsed \in Nat /\ b.top \in Nat /\ b.top = Len(b.data)
      /\ b.unparsed <= b.top
  BY DEF Buffer, OffsetsIn
<1>3. /\ rest \in Seq(Byte) /\ Len(rest) = b.top - b.unparsed
      /\ \A i \in 1..b.top - b.unparsed : rest[i] = b.data[b.unparsed + i]
  <2>1. /\ b.unparsed + 1 \in 1..Len(b.data) + 1 /\ b.top \in 0..Len(b.data)
        /\ b.unparsed + 1 <= b.top + 1 /\ b.top - (b.unparsed + 1) + 1 = b.top - b.unparsed
        /\ \A i \in 1..b.top - b.unparsed : (b.unparsed + 1) + i - 1 = b.unparsed + i
    BY <1>2
  <2>2. /\ rest \in Seq(Byte) /\ Len(rest) = b.top - (b.unparsed + 1) + 1
        /\ \A i \in 1..b.top - (b.unparsed + 1) + 1 : rest[i] = b.data[(b.unparsed + 1) + i - 1]
    BY <1>1, <1>2, <2>1, SubSeqFacts DEF Redundant
  <2> QED BY <2>1, <2>2
<1>4. Len(delim) \in Nat
  OBVIOUS
<1>5. /\ j \in Len(delim)..Len(rest)
      /\ \A k \in 1..Len(delim) : rest[j - Len(delim) + k] = delim[k]
  BY <1>1 DEF Match
<1>6. PICK e : e = b.unparsed + j
  OBVIOUS
<1>7. e \in (b.unparsed + Len(delim))..Len(b.data) /\ e \in Len(delim)..Len(b.data)
  BY <1>2, <1>3, <1>4, <1>5, <1>6
<1>8. ASSUME NEW k \in 1..Len(delim) PROVE b.data[e - Len(delim) + k] = delim[k]
  <2>1. PICK i : i = j - Len(delim) + k
    OBVIOUS
  <2>2. i \in 1..b.top - b.unparsed /\ b.unparsed + i = e - Len(delim) + k
    <3>1. PICK u, t, l : u = b.unparsed /\ t = b.top /\ l = Len(delim)
      OBVIOUS
    <3>2. u \in Nat /\ t \in Nat /\ l \in Nat /\ j \in l..t - u
      BY ONLY <1>2, <1>3, <1>4, <1>5, <3>1
    <3>3. k \in 1..l /\ i = j - l + k /\ e = u + j
      BY ONLY <1>6, <2>1, <3>1, k \in 1..Len(delim)
    <3>4. i \in 1..t - u /\ u + i = e - l + k
      BY ONLY <3>2, <3>3
    <3> QED BY ONLY <3>1, <3>4
  <2> QED BY <1>3, <1>5, <2>1, <2>2
<1>9. Match(b.data, delim, e)
  BY <1>7, <1>8 DEF Match
<1> QED BY <1>7, <1>9 DEF Clean

\* A read into the buffer and parse() keep it sound.
LEMMA ReadSound ==
    ASSUME NEW b, NEW delim \in Seq(Byte), Len(delim) > 0, Sound(b, delim),
           NEW bytes \in Seq(Byte), Len(bytes) <= Avail(b)
    PROVE  /\ Sound(Parsed(Filled(b, bytes), delim), delim)
           /\ Parsed(Filled(b, bytes), delim).data = Joined(b.data, bytes)
<1>1. PICK c : c = Filled(b, bytes)
  OBVIOUS
<1>2. PICK d : d = Parsed(c, delim)
  OBVIOUS
<1>3. /\ d \in Buffer /\ OffsetsIn(d) /\ Clean(d, delim)
      /\ d.data = Joined(b.data, bytes) /\ d.top = b.top + Len(bytes)
      /\ d.size = b.size /\ d.reserved = b.reserved
  BY <1>1, <1>2, Received DEF Sound
<1>4. Fit(d)
  <2>1. b.top \in Nat /\ b.size \in Nat /\ Len(bytes) \in Nat
    BY DEF Sound, Buffer
  <2> QED BY <1>3, <2>1 DEF Sound, Fit, Avail
<1> QED BY <1>1, <1>2, <1>3, <1>4 DEF Sound

\* release() keeps a buffer sound, and its rest.
LEMMA ReleaseSound ==
    ASSUME NEW b, NEW delim, Sound(b, delim), NEW n \in Nat, n > 0 \/ b.reserved > b.top
    PROVE  /\ Sound(Release(b, n), delim)
           /\ Release(b, n).data = b.data /\ Release(b, n).unparsed = b.unparsed
           /\ Release(b, n).top = b.top
           /\ Redundant(Release(b, n)) = Redundant(b)
<1>1. PICK c : c = Release(b, n)
  OBVIOUS
<1>2. /\ c \in Buffer /\ OffsetsIn(c) /\ Fit(c)
      /\ c.data = b.data /\ c.unparsed = b.unparsed /\ c.unsearched = b.unsearched
      /\ c.top = b.top
  BY <1>1, ReleaseFacts DEF Sound
<1>3. Clean(c, delim)
  BY <1>2 DEF Sound, Clean
<1> QED BY <1>1, <1>2, <1>3 DEF Sound, Redundant

\* mem_reduce keeps a buffer sound, and its rest, and leaves it reduced.
LEMMA MemReduceFacts ==
    ASSUME NEW b, Sound(b, CRLF)
    PROVE  /\ Sound(MemReduce(b), CRLF) /\ Reduced(MemReduce(b))
           /\ Redundant(MemReduce(b)) = Redundant(b)
<1>0. b \in Buffer /\ OffsetsIn(b) /\ Fit(b) /\ Clean(b, CRLF)
  BY DEF Sound
<1>1. PICK rest : rest = Redundant(b)
  OBVIOUS
<1>2. rest \in Seq(Byte) /\ Len(rest) \in Nat
  BY <1>0, <1>1, RedundantFacts
<1>3. CASE rest = <<>>
  <2>1. PICK c : c = ResetParser(b)
    OBVIOUS
  <2>2. MemReduce(b) = c
    BY <1>1, <1>3, <2>1 DEF MemReduce
  <2>3. c \in Buffer /\ OffsetsIn(c) /\ Fit(c) /\ c.data = <<>> /\ c.top = 0
    BY <1>0, <2>1, ResetFacts
  <2>4. Clean(c, CRLF) /\ Redundant(c) = <<>>
    BY <2>3, EmptyFacts, Delimiters
  <2> QED BY <1>1, <1>3, <2>2, <2>3, <2>4 DEF Sound, Reduced
<1>4. CASE rest # <<>> /\ Len(rest) * 100 > KeepPercent * b.top
  <2>1. MemReduce(b) = b
    BY <1>1, <1>4 DEF MemReduce
  <2> QED BY <1>0, <1>1, <1>4, <2>1 DEF Sound, Reduced
<1>5. CASE rest # <<>> /\ ~(Len(rest) * 100 > KeepPercent * b.top)
  <2>1. Len(rest) > 0
    BY <1>2, <1>5
  <2>2. PICK empty : empty = ResetParser(b)
    OBVIOUS
  <2>3. PICK room : room = Release(empty, Len(rest))
    OBVIOUS
  <2>4. PICK filled : filled = Filled(room, rest)
    OBVIOUS
  <2>5. PICK d : d = Parsed(filled, CRLF)
    OBVIOUS
  <2>6. PICK n : n = Avail(b)
    OBVIOUS
  <2>7. MemReduce(b) = Release(d, n)
    BY <1>1, <1>5, <2>2, <2>3, <2>4, <2>5, <2>6 DEF MemReduce
  <2>8. /\ empty \in Buffer /\ OffsetsIn(empty) /\ Fit(empty)
        /\ empty.data = <<>> /\ empty.unparsed = 0 /\ empty.unsearched = 0
        /\ empty.top = 0 /\ empty.size = 0 /\ empty.reserved > 0
    BY <1>0, <2>2, ResetFacts
  <2>9. /\ room \in Buffer /\ OffsetsIn(room) /\ Fit(room)
        /\ room.data = <<>> /\ room.unparsed = 0 /\ room.unsearched = 0 /\ room.top = 0
    BY <1>2, <2>1, <2>3, <2>8, ReleaseFacts
  <2>10. room.size = Len(rest) /\ room.reserved > Len(rest)
    <3>1. ~(Len(rest) < Avail(empty))
      BY <1>2, <2>8 DEF Avail
    <3>2. /\ room.size = empty.top + Len(rest)
          /\ room.reserved = IF empty.reserved - empty.top <= Len(rest)
                             THEN CalculateMem(empty.top, Len(rest)) ELSE empty.reserved
      BY <2>3, <2>8, <3>1 DEF Release, Buffer
    <3>3. PICK len \in Nat \ {0} : len = Len(rest)
      BY <1>2, <2>1
    <3>4. CalculateMem(0, len) \in Nat /\ CalculateMem(0, len) > len
      BY <3>3, MoreRoom
    <3>5. empty.reserved \in Nat
      BY <2>8 DEF Buffer
    <3> QED BY <2>8, <3>2, <3>3, <3>4, <3>5
  <2>11. Clean(room, CRLF) /\ Redundant(room) = <<>> /\ SplitsInto(<<>>, CRLF, <<>>, Redundant(room))
    BY <2>9, EmptyFacts, Delimiters
  <2>12. /\ d \in Buffer /\ OffsetsIn(d) /\ Clean(d, CRLF)
         /\ d.data = Joined(<<>>, rest) /\ d.top = 0 + Len(rest)
         /\ d.size = room.size /\ d.reserved = room.reserved
         /\ d.unparsed = EndOr(Ends(d.data, CRLF, 0), 0)
    BY <1>2, <2>4, <2>5, <2>9, <2>11, Received, Delimiters
  <2>13. d.data = rest
    BY <1>2, <2>12 DEF Joined
  <2>14. Sound(d, CRLF) /\ d.reserved > d.top
    <3>1. d.top = Len(rest) /\ d.size = Len(rest) /\ d.reserved > Len(rest)
      BY <1>2, <2>10, <2>12
    <3>2. d.reserved \in Nat
      BY <2>12 DEF Buffer
    <3>3. Fit(d)
      BY <1>2, <3>1, <3>2 DEF Fit
    <3> QED BY <2>12, <3>1, <3>3 DEF Sound
  <2>15. d.unparsed = 0
    <3>1. MatchEnds(d.data, CRLF, 0) = {}
      <4>1. \A j : ~Match(rest, CRLF, j)
        BY <1>0, <1>1, MatchInRest, Delimiters
      <4> QED BY <1>2, <2>13, <4>1, FoundFacts, Delimiters
    <3>2. 0 \in 0..Len(d.data)
      BY <1>2, <2>13
    <3>3. Ends(d.data, CRLF, 0) = <<>>
      BY <1>2, <2>13, <3>1, <3>2, EndsDef, Delimiters
    <3> QED BY <2>12, <3>3 DEF EndOr
  <2>16. Redundant(d) = rest
    BY <1>2, <2>12, <2>13, <2>15 DEF Redundant
  <2>17. n \in Nat
    BY <1>0, <2>6 DEF Fit, Avail, Buffer
  <2>18. PICK c : c = Release(d, n)
    OBVIOUS
  <2>19. Sound(c, CRLF) /\ Redundant(c) = rest /\ c.top = Len(rest)
    BY <1>2, <2>12, <2>14, <2>16, <2>17, <2>18, ReleaseSound
  <2>20. Len(rest) * 100 > KeepPercent * Len(rest)
    BY <1>2, <2>1, KeepsLess
  <2> QED BY <1>1, <2>7, <2>18, <2>19, <2>20 DEF Reduced
<1> QED BY <1>3, <1>4, <1>5

\* What MessagesAreExact says of one message.
TextExact(m) ==
    LET first == Head(Split(m.read, DataEnd).parts)
    IN first # <<>> => m.text = first

\* Every part found in the data buffer is empty, and until there is one the
\* whole buffer is unparsed: the text begins where the buffer does.
NoTextYet(b) ==
    \E parts \in Seq(Text) :
        /\ SplitsInto(b.data, DataEnd, parts, Redundant(b))
        /\ \A i \in DOMAIN parts : parts[i] = <<>>
        /\ parts = <<>> => b.unparsed = 0

\* TypeOK and the properties, with what they rest on: no search starts too late
\* (Clean, in Sound), what a read may fill is allocated (Fit, in Sound), and the
\* data buffer holds no text with an end.
StreamInv ==
    /\ TypeOK
    /\ Sound(cmd, CRLF) /\ Sound(msg, DataEnd)
    /\ SplitsInto(cmdBytes, CRLF, lines, Redundant(cmd))
    /\ NoTextYet(msg)
    /\ \A i \in DOMAIN messages : TextExact(messages[i])
    /\ Reduced(cmd)

\* DataSize is the length of the first part that is not empty, or 0.
LEMMA DataSizeFacts ==
    ASSUME NEW parts \in Seq(Text)
    PROVE  /\ DataSize(parts) = 0 => \A i \in DOMAIN parts : parts[i] = <<>>
           /\ DataSize(parts) # 0 =>
                 \E i \in DOMAIN parts : /\ parts[i] # <<>> /\ DataSize(parts) = Len(parts[i])
                                         /\ \A k \in DOMAIN parts : k < i => parts[k] = <<>>
<1> DEFINE full == {i \in DOMAIN parts : parts[i] # <<>>}
<1>1. DOMAIN parts = 1..Len(parts) /\ Len(parts) \in Nat /\ \A i \in DOMAIN parts : parts[i] \in Seq(Byte)
  BY DEF Text
<1>2. CASE full = {}
  BY <1>2 DEF DataSize
<1>3. CASE full # {}
  <2>1. full \subseteq Nat
    BY <1>1
  <2>2. PICK m \in full : \A y \in full : m <= y
    <3> HIDE DEF full
    <3> QED BY <1>3, <2>1, Least
  <2>3. PICK i : i = Min(full)
    OBVIOUS
  <2>4. i \in full /\ \A y \in full : i <= y
    <3> HIDE DEF full
    <3> QED BY <2>2, <2>3 DEF Min
  <2>5. DataSize(parts) = Len(parts[i])
    BY <1>3, <2>3 DEF DataSize
  <2>6. i \in DOMAIN parts /\ parts[i] # <<>> /\ parts[i] \in Seq(Byte)
    BY <1>1, <2>4
  <2>7. Len(parts[i]) # 0
    BY <2>6
  <2>8. \A k \in DOMAIN parts : k < i => parts[k] = <<>>
    BY <1>1, <2>1, <2>4
  <2> QED BY <2>5, <2>6, <2>7, <2>8
<1> QED BY <1>2, <1>3

\* An empty data buffer has no text yet.
LEMMA NoTextEmpty ==
    ASSUME NEW b \in Buffer, OffsetsIn(b), b.data = <<>>
    PROVE  NoTextYet(b)
<1>1. b.unparsed = 0 /\ SplitsInto(<<>>, DataEnd, <<>>, Redundant(b))
  BY EmptyFacts, Delimiters
<1>2. PICK none : none = <<>>
  OBVIOUS
<1>3. none \in Seq(Text) /\ \A i \in DOMAIN none : none[i] = <<>>
  BY <1>2
<1>4. SplitsInto(b.data, DataEnd, none, Redundant(b))
  BY <1>1, <1>2
<1> QED BY <1>1, <1>3, <1>4 DEF NoTextYet

\* The buffers a session starts with.
LEMMA NewSound ==
    /\ Sound(NewBuffer, CRLF) /\ Sound(NewBuffer, DataEnd)
    /\ NoTextYet(NewBuffer)
    /\ SplitsInto(<<>>, CRLF, <<>>, Redundant(NewBuffer))
<1>1. PICK b : b = NewBuffer
  OBVIOUS
<1>2. b \in Buffer /\ OffsetsIn(b) /\ Fit(b) /\ b.data = <<>>
  BY <1>1, NewFacts
<1>3. Clean(b, CRLF) /\ SplitsInto(<<>>, CRLF, <<>>, Redundant(b))
  BY <1>2, EmptyFacts, Delimiters
<1>4. Clean(b, DataEnd) /\ b.unparsed = 0 /\ SplitsInto(<<>>, DataEnd, <<>>, Redundant(b))
  BY <1>2, EmptyFacts, Delimiters
<1>5. NoTextYet(b)
  BY <1>2, NoTextEmpty
<1> QED BY <1>1, <1>2, <1>3, <1>4, <1>5 DEF Sound

\* The data buffer that DATA resets.
LEMMA ResetSound ==
    ASSUME NEW b \in Buffer
    PROVE  Sound(ResetParser(b), DataEnd) /\ NoTextYet(ResetParser(b))
<1>1. PICK c : c = ResetParser(b)
  OBVIOUS
<1>2. c \in Buffer /\ OffsetsIn(c) /\ Fit(c) /\ c.data = <<>>
  BY <1>1, ResetFacts
<1>3. Clean(c, DataEnd) /\ c.unparsed = 0 /\ SplitsInto(<<>>, DataEnd, <<>>, Redundant(c))
  BY <1>2, EmptyFacts, Delimiters
<1>4. NoTextYet(c)
  BY <1>2, NoTextEmpty
<1> QED BY <1>1, <1>2, <1>3, <1>4 DEF Sound

\* The next read for commands keeps the buffer sound and reduced.
LEMMA ReadCommandFacts ==
    ASSUME NEW b, Sound(b, CRLF), Reduced(b), ReadCommand(b)
    PROVE  /\ stage' \in {"cmd", "data", "terminated"}
           /\ (Sound(cmd, CRLF))' /\ (Reduced(cmd))'
           /\ (Redundant(cmd))' = Redundant(b)
<1>1. CASE cmd' = b
  <2>1. stage' \in {"cmd", "data", "terminated"}
    BY DEF ReadCommand
  <2>2. (Sound(cmd, CRLF))' /\ (Reduced(cmd))' /\ (Redundant(cmd))' = Redundant(b)
    BY <1>1, CommandsSame
  <2> QED BY <2>1, <2>2
<1>2. CASE cmd' = Release(b, CmdChunk)
  <2>1. stage' \in {"cmd", "data", "terminated"}
    BY DEF ReadCommand
  <2>2. PICK c : c = Release(b, CmdChunk)
    OBVIOUS
  <2>3. CmdChunk \in Nat /\ CmdChunk > 0
    BY StreamAssumption
  <2>4. Sound(c, CRLF) /\ Redundant(c) = Redundant(b) /\ c.top = b.top
    BY <2>2, <2>3, ReleaseSound
  <2>5. Reduced(c)
    BY <2>4 DEF Reduced
  <2>6. cmd' = c
    BY <1>2, <2>2
  <2>7. (Sound(cmd, CRLF))' /\ (Reduced(cmd))' /\ (Redundant(cmd))' = Redundant(c)
    BY <2>4, <2>5, <2>6, CommandsSame
  <2> QED BY <2>1, <2>4, <2>7
<1> QED BY <1>1, <1>2 DEF ReadCommand

\* The next read for data keeps the buffer sound, and without a text.
LEMMA ReadDataFacts ==
    ASSUME NEW b, Sound(b, DataEnd), NoTextYet(b), ReadData(b)
    PROVE  /\ stage' \in {"cmd", "data", "terminated"}
           /\ (Sound(msg, DataEnd))' /\ (NoTextYet(msg))'
<1>1. stage' \in {"cmd", "data", "terminated"}
  BY DEF ReadData
<1>2. PICK c : msg' = c /\ Sound(c, DataEnd) /\ NoTextYet(c)
  <2>1. CASE msg' = b
    BY <2>1
  <2>2. CASE msg' = Release(b, DataChunk)
    <3>1. PICK c : c = Release(b, DataChunk)
      OBVIOUS
    <3>2. DataChunk \in Nat /\ DataChunk > 0
      BY StreamAssumption
    <3>3. /\ Sound(c, DataEnd) /\ Redundant(c) = Redundant(b)
          /\ c.data = b.data /\ c.unparsed = b.unparsed
      BY <3>1, <3>2, ReleaseSound
    <3>4. NoTextYet(c)
      BY <3>3 DEF NoTextYet
    <3> QED BY <2>2, <3>1, <3>3, <3>4
  <2> QED BY <2>1, <2>2 DEF ReadData
<1>3. (Sound(msg, DataEnd))'
  BY <1>2 DEF Sound, OffsetsIn, Fit, Clean, Match, DataEnd, Buffer
<1>4. (NoTextYet(msg))'
  BY <1>2 DEF NoTextYet, SplitsInto, Redundant, Text
<1> QED BY <1>1, <1>3, <1>4

\* The bytes that a read brings.
LEMMA BytesFacts ==
    ASSUME TypeOK, NEW n \in Nat, pos + n <= Len(stream)
    PROVE  Bytes(n) \in Seq(Byte) /\ Len(Bytes(n)) = n
<1>1. stream \in Seq(Byte) /\ pos \in Nat
  BY StreamAssumption DEF TypeOK
<1>2. /\ pos + 1 \in 1..Len(stream) + 1 /\ pos + n \in 0..Len(stream) /\ pos + 1 <= (pos + n) + 1
      /\ (pos + n) - (pos + 1) + 1 = n
  BY <1>1
<1> QED BY <1>1, <1>2, SubSeqFacts DEF Bytes

\* A sound buffer has no negative room.
LEMMA SoundAvail ==
    ASSUME NEW b, NEW delim, Sound(b, delim)
    PROVE  Avail(b) \in Nat
BY DEF Sound, Buffer, Fit, Avail

\* The invariant holds when the first read is started.
LEMMA InitStream == Init => StreamInv
<1> SUFFICES ASSUME Init PROVE StreamInv
  OBVIOUS
<1>1. PICK new : new = NewBuffer
  OBVIOUS
<1>2. PICK c : c = Release(new, CmdChunk)
  OBVIOUS
<1>3. /\ Sound(new, CRLF) /\ Sound(new, DataEnd) /\ NoTextYet(new)
      /\ SplitsInto(<<>>, CRLF, <<>>, Redundant(new)) /\ new.top = 0
  BY <1>1, NewSound, NewFacts
<1>4. CmdChunk \in Nat /\ CmdChunk > 0
  BY StreamAssumption
<1>5. Sound(c, CRLF) /\ c.top = 0 /\ Redundant(c) = Redundant(new)
  BY <1>2, <1>3, <1>4, ReleaseSound
<1>6. cmd = c /\ msg = new
  BY <1>1, <1>2 DEF Init
<1>7. TypeOK
  <2>1. stream \in Stream /\ stream \in Seq(Byte) /\ pos \in 0..Len(stream)
    BY StreamAssumption DEF Init
  <2>2. stage = "cmd" /\ cmdBytes = <<>> /\ lines = <<>> /\ messages = <<>>
    BY DEF Init
  <2> QED BY <1>3, <1>5, <1>6, <2>1, <2>2 DEF TypeOK, Sound
<1>8. SplitsInto(cmdBytes, CRLF, lines, Redundant(cmd))
  BY <1>3, <1>5, <1>6 DEF Init
<1>9. \A i \in DOMAIN messages : TextExact(messages[i])
  BY DEF Init
<1>10. Reduced(cmd)
  BY <1>5, <1>6 DEF Reduced
<1> QED BY <1>3, <1>5, <1>6, <1>7, <1>8, <1>9, <1>10 DEF StreamInv

\* A read for commands keeps the invariant.
LEMMA CommandsReadKeeps ==
    ASSUME StreamInv, NEW n \in 1..Avail(cmd), CommandsRead(n)
    PROVE  StreamInv'
<1>1. PICK bytes : bytes = Bytes(n)
  OBVIOUS
<1>2. PICK old : old = cmd
  OBVIOUS
<1>3. PICK b : b = Filled(old, bytes)
  OBVIOUS
<1>4. PICK new : new = Parts(b, CRLF)
  OBVIOUS
<1>5. PICK parsed : parsed = Parsed(b, CRLF)
  OBVIOUS
<1>6. PICK rest : rest = MemReduce(parsed)
  OBVIOUS
<1>7. n \in Nat
  BY SoundAvail DEF StreamInv
<1>8. /\ n <= Avail(cmd) /\ pos + n <= Len(stream) /\ pos' = pos + n
      /\ stream' = stream /\ messages' = messages
      /\ lines' = lines \o new /\ cmdBytes' = cmdBytes \o bytes
      /\ \/ ReadCommand(rest) /\ msg' = msg
         \/ ReadData(ResetParser(msg)) /\ cmd' = rest
  BY <1>1, <1>2, <1>3, <1>4, <1>5, <1>6 DEF CommandsRead, Arrives
<1>9. bytes \in Seq(Byte) /\ Len(bytes) = n
  BY <1>1, <1>7, <1>8, BytesFacts DEF StreamInv
<1>10. Sound(old, CRLF) /\ Len(bytes) <= Avail(old)
  BY <1>2, <1>8, <1>9 DEF StreamInv
<1>11. Sound(parsed, CRLF)
  BY <1>3, <1>5, <1>9, <1>10, ReadSound, Delimiters
<1>12. cmdBytes \in Seq(Byte) /\ lines \in Seq(Text) /\ messages \in Seq([text : Text, read : Text])
  BY DEF StreamInv, TypeOK, Text
<1>13. SplitsInto(cmdBytes, CRLF, lines, Redundant(old))
  BY <1>2 DEF StreamInv
<1>14. new \in Seq(Text) /\ SplitsInto(cmdBytes \o bytes, CRLF, Joined(lines, new), Redundant(parsed))
  <2>1. old \in Buffer /\ OffsetsIn(old) /\ Clean(old, CRLF)
    BY <1>10 DEF Sound
  <2> QED BY <1>3, <1>4, <1>5, <1>9, <1>12, <1>13, <2>1, ReceivedSplit, Delimiters
<1>15. Sound(rest, CRLF) /\ Reduced(rest) /\ Redundant(rest) = Redundant(parsed)
  BY <1>6, <1>11, MemReduceFacts
<1>16. /\ stage' \in {"cmd", "data", "terminated"}
       /\ (Sound(cmd, CRLF))' /\ (Reduced(cmd))' /\ (Redundant(cmd))' = Redundant(rest)
       /\ (Sound(msg, DataEnd))' /\ (NoTextYet(msg))'
  <2>1. CASE ReadCommand(rest) /\ msg' = msg
    <3>1. /\ stage' \in {"cmd", "data", "terminated"}
          /\ (Sound(cmd, CRLF))' /\ (Reduced(cmd))' /\ (Redundant(cmd))' = Redundant(rest)
      BY <1>15, <2>1, ReadCommandFacts
    <3>2. (Sound(msg, DataEnd))' 
      BY <2>1, MessageSame DEF StreamInv
    <3>3. (NoTextYet(msg))'
      BY <2>1 DEF StreamInv, NoTextYet, SplitsInto, Redundant, Text
    <3> QED BY <3>1, <3>2, <3>3
  <2>2. CASE ReadData(ResetParser(msg)) /\ cmd' = rest
    <3>1. PICK empty : empty = ResetParser(msg)
      OBVIOUS
    <3>2. Sound(empty, DataEnd) /\ NoTextYet(empty)
      BY <3>1, ResetSound DEF StreamInv, Sound
    <3>3. /\ stage' \in {"cmd", "data", "terminated"}
          /\ (Sound(msg, DataEnd))' /\ (NoTextYet(msg))'
      BY <2>2, <3>1, <3>2, ReadDataFacts
    <3>4. (Sound(cmd, CRLF))' /\ (Reduced(cmd))' /\ (Redundant(cmd))' = Redundant(rest)
      BY <1>15, <2>2, CommandsSame
    <3> QED BY <3>3, <3>4
  <2> QED BY <1>8, <2>1, <2>2
<1>17. cmdBytes' \in Seq(Byte) /\ lines' \in Seq(Text)
  BY <1>8, <1>9, <1>12, <1>14
<1>18. TypeOK'
  <2>1. stream' \in Stream /\ pos' \in 0..Len(stream')
    BY <1>7, <1>8, StreamAssumption DEF StreamInv, TypeOK
  <2>2. /\ (messages \in Seq([text : Seq(Byte), read : Seq(Byte)]))'
        /\ (\A i \in DOMAIN messages : Len(messages[i].text) <= Len(messages[i].read))'
    BY <1>8 DEF StreamInv, TypeOK
  <2>3. (cmd \in Buffer /\ OffsetsIn(cmd))' /\ (msg \in Buffer /\ OffsetsIn(msg))'
    BY <1>16 DEF Sound
  <2> QED BY <1>16, <1>17, <2>1, <2>2, <2>3 DEF TypeOK, Text
<1>19. (SplitsInto(cmdBytes, CRLF, lines, Redundant(cmd)))'
  <2>1. SplitsInto(cmdBytes', CRLF, lines', (Redundant(cmd))')
    BY <1>8, <1>14, <1>15, <1>16 DEF Joined
  <2> QED BY <2>1 DEF SplitsInto, CRLF
<1>20. (\A i \in DOMAIN messages : TextExact(messages[i]))'
  BY <1>8 DEF StreamInv, TextExact, DataEnd
<1> QED BY <1>16, <1>18, <1>19, <1>20 DEF StreamInv

\* A slice is no longer than what it is taken from.
LEMMA SliceLength ==
    ASSUME NEW data \in Seq(Byte), NEW a \in Nat, NEW b \in 0..Len(data)
    PROVE  /\ Len(SubSeq(data, a + 1, b)) \in 0..Len(data)
           /\ SubSeq(data, a + 1, b) # <<>> => Len(SubSeq(data, a + 1, b)) = b - a
<1>1. CASE a <= b
  <2>1. a + 1 \in 1..Len(data) + 1 /\ a + 1 <= b + 1 /\ b - (a + 1) + 1 = b - a
    BY <1>1
  <2>2. Len(SubSeq(data, a + 1, b)) = b - a
    BY <2>1, SubSeqFacts
  <2> QED BY <1>1, <2>2
<1>2. CASE b < a
  <2>1. SubSeq(data, a + 1, b) = <<>>
    BY <1>2
  <2> QED BY <2>1
<1> QED BY <1>1, <1>2

\* A part is no longer than the bytes it was found in; the first begins behind
\* what was parsed.
LEMMA PartLength ==
    ASSUME NEW data \in Seq(Byte), NEW delim \in Seq(Byte), Len(delim) > 0,
           NEW u \in Nat, NEW from \in 0..Len(data),
           NEW parts, parts = PartsOf(data, delim, u, Ends(data, delim, from)),
           NEW i \in DOMAIN parts
    PROVE  /\ Len(parts[i]) \in 0..Len(data)
           /\ i = 1 /\ u = 0 /\ parts[i] # <<>> => parts[i] = SubSeq(data, 1, Len(parts[i]))
<1>1. PICK ends : ends = Ends(data, delim, from)
  OBVIOUS
<1>2. /\ ends \in Seq(Nat)
      /\ \A k \in 1..Len(ends) : ends[k] \in (from + Len(delim))..Len(data)
  BY <1>1, EndsFacts
<1>3. DOMAIN parts = 1..Len(ends) /\ Len(ends) \in Nat /\ Len(delim) \in Nat
  BY <1>1, <1>2 DEF PartsOf
<1>4. PICK p : p = IF i = 1 THEN u ELSE ends[i - 1]
  OBVIOUS
<1>5. p \in Nat
  <2>1. CASE i = 1
    BY <1>4, <2>1
  <2>2. CASE i # 1
    <3>1. i - 1 \in 1..Len(ends)
      BY <1>3, <2>2
    <3> QED BY <1>2, <1>4, <2>2, <3>1
  <2> QED BY <2>1, <2>2
<1>6. PICK e : e = ends[i] - Len(delim)
  OBVIOUS
<1>7. e \in 0..Len(data)
  <2>1. ends[i] \in (from + Len(delim))..Len(data)
    BY <1>2, <1>3
  <2> QED BY <1>3, <1>6, <2>1
<1>8. parts[i] = SubSeq(data, p + 1, e)
  <2>1. i \in DOMAIN ends
    BY <1>2, <1>3
  <2> QED BY <1>1, <1>4, <1>6, <2>1 DEF PartsOf
<1>9. /\ Len(parts[i]) \in 0..Len(data)
      /\ parts[i] # <<>> => Len(parts[i]) = e - p
  <2>1. /\ Len(SubSeq(data, p + 1, e)) \in 0..Len(data)
        /\ SubSeq(data, p + 1, e) # <<>> => Len(SubSeq(data, p + 1, e)) = e - p
    BY <1>5, <1>7, SliceLength
  <2> QED BY <1>8, <2>1
<1>10. ASSUME i = 1, u = 0, parts[i] # <<>>
       PROVE  parts[i] = SubSeq(data, 1, Len(parts[i]))
  <2>1. p = 0
    BY <1>4, <1>10
  <2>2. Len(parts[i]) = e /\ p + 1 = 1
    BY <1>7, <1>9, <1>10, <2>1
  <2> QED BY <1>8, <2>2
<1> QED BY <1>9, <1>10

\* The message is read on.
LEMMA ReadOn ==
    ASSUME NEW old, Sound(old, DataEnd), NoTextYet(old), NEW bytes \in Seq(Byte),
           DataSize(Parts(Filled(old, bytes), DataEnd)) = 0
    PROVE  NoTextYet(Parsed(Filled(old, bytes), DataEnd))
<1> SUFFICES ASSUME NEW b, b = Filled(old, bytes), NEW d, d = Parsed(b, DataEnd),
                    DataSize(Parts(b, DataEnd)) = 0
             PROVE  NoTextYet(d)
  OBVIOUS
<1>1. /\ old \in Buffer /\ OffsetsIn(old) /\ Clean(old, DataEnd) /\ old.data \in Seq(Byte)
      /\ old.unsearched \in 0..Len(old.data)
  BY DEF Sound, Buffer, OffsetsIn
<1>2. PICK parts \in Seq(Text) : /\ SplitsInto(old.data, DataEnd, parts, Redundant(old))
                                 /\ \A i \in DOMAIN parts : parts[i] = <<>>
                                 /\ parts = <<>> => old.unparsed = 0
  BY DEF NoTextYet
<1>3. PICK new : new = Parts(b, DataEnd)
  OBVIOUS
<1>4. new \in Seq(Text) /\ SplitsInto(old.data \o bytes, DataEnd, Joined(parts, new), Redundant(d))
  BY <1>1, <1>2, <1>3, ReceivedSplit, Delimiters
<1>5. PICK ends : ends = Ends(d.data, DataEnd, old.unsearched)
  OBVIOUS
<1>6. /\ d.data = Joined(old.data, bytes)
      /\ new = PartsOf(d.data, DataEnd, old.unparsed, ends)
      /\ d.unparsed = EndOr(ends, old.unparsed)
  <2>1. PICK f, g : f = Filled(old, bytes) /\ g = Parsed(Filled(old, bytes), DataEnd)
    OBVIOUS
  <2>2. /\ g.data = Joined(old.data, bytes) /\ f.data = Joined(old.data, bytes)
        /\ Parts(f, DataEnd) =
              PartsOf(Joined(old.data, bytes), DataEnd, old.unparsed,
                      Ends(Joined(old.data, bytes), DataEnd, old.unsearched))
        /\ g.unparsed = EndOr(Ends(Joined(old.data, bytes), DataEnd, old.unsearched), old.unparsed)
    BY ONLY <1>1, <2>1, SoundReceived, Delimiters, bytes \in Seq(Byte)
  <2> QED BY ONLY <1>3, <1>5, <2>1, <2>2, b = Filled(old, bytes), d = Parsed(b, DataEnd)
<1>7. \A i \in DOMAIN new : new[i] = <<>>
  BY <1>3, <1>4, DataSizeFacts
<1>8. PICK all : all = Joined(parts, new)
  OBVIOUS
<1>9. /\ all \in Seq(Text) /\ Len(all) = Len(parts) + Len(new)
      /\ \A i \in 1..Len(parts) : all[i] = parts[i]
      /\ \A i \in 1..Len(new) : all[Len(parts) + i] = new[i]
  BY <1>2, <1>4, <1>8 DEF Joined
<1>10. ASSUME NEW i \in DOMAIN all PROVE all[i] = <<>>
  <2>0. Len(parts) \in Nat /\ Len(new) \in Nat /\ i \in 1..Len(parts) + Len(new)
        /\ DOMAIN parts = 1..Len(parts) /\ DOMAIN new = 1..Len(new)
    BY <1>2, <1>4, <1>9
  <2>1. CASE i <= Len(parts)
    <3>1. i \in 1..Len(parts)
      BY <2>0, <2>1
    <3> QED BY <1>2, <1>9, <2>0, <3>1
  <2>2. CASE i > Len(parts)
    <3>1. i - Len(parts) \in 1..Len(new) /\ Len(parts) + (i - Len(parts)) = i
      BY <2>0, <2>2
    <3> QED BY <1>7, <1>9, <2>0, <3>1
  <2> QED BY <2>0, <2>1, <2>2
<1>11. ASSUME all = <<>> PROVE d.unparsed = 0
  <2>1. Len(parts) = 0 /\ Len(new) = 0
    BY <1>2, <1>4, <1>9, <1>11
  <2>2. parts = <<>> /\ new = <<>>
    BY <1>2, <1>4, <2>1
  <2>3. ends = <<>>
    <3>1. d.data \in Seq(Byte) /\ old.unsearched \in 0..Len(d.data)
      BY <1>1, <1>6 DEF Joined
    <3>2. ends \in Seq(Nat)
      BY <1>5, <3>1, EndsFacts, Delimiters
    <3>3. DOMAIN ends = DOMAIN new
      BY <1>6 DEF PartsOf
    <3> QED BY <2>2, <3>2, <3>3
  <2> QED BY <1>2, <1>6, <2>2, <2>3 DEF EndOr
<1>12. SplitsInto(d.data, DataEnd, all, Redundant(d))
  BY <1>4, <1>6, <1>8 DEF Joined
<1> QED BY <1>9, <1>10, <1>11, <1>12 DEF NoTextYet

\* The message is handed over.
LEMMA HandedOver ==
    ASSUME NEW old, Sound(old, DataEnd), NoTextYet(old), NEW bytes \in Seq(Byte),
           NEW b, b = Filled(old, bytes), NEW size, size = DataSize(Parts(b, DataEnd)),
           size # 0,
           NEW m, m = [text |-> SubSeq(b.data, 1, size), read |-> b.data]
    PROVE  m.text \in Text /\ m.read \in Text /\ Len(m.text) <= Len(m.read) /\ TextExact(m)
<1>1. /\ old \in Buffer /\ OffsetsIn(old) /\ Clean(old, DataEnd) /\ old.data \in Seq(Byte)
      /\ old.unsearched \in 0..Len(old.data) /\ old.unparsed \in Nat
  BY DEF Sound, Buffer, OffsetsIn
<1>2. PICK parts \in Seq(Text) : /\ SplitsInto(old.data, DataEnd, parts, Redundant(old))
                                 /\ \A i \in DOMAIN parts : parts[i] = <<>>
                                 /\ parts = <<>> => old.unparsed = 0
  BY DEF NoTextYet
<1>3. PICK new : new = Parts(b, DataEnd)
  OBVIOUS
<1>4. PICK d : d = Parsed(b, DataEnd)
  OBVIOUS
<1>5. new \in Seq(Text) /\ SplitsInto(old.data \o bytes, DataEnd, Joined(parts, new), Redundant(d))
  BY <1>1, <1>2, <1>3, <1>4, ReceivedSplit, Delimiters
<1>6. /\ d.data = Joined(old.data, bytes) /\ b.data = d.data
      /\ new = PartsOf(d.data, DataEnd, old.unparsed, Ends(d.data, DataEnd, old.unsearched))
  <2>1. PICK f, g : f = Filled(old, bytes) /\ g = Parsed(Filled(old, bytes), DataEnd)
    OBVIOUS
  <2>2. /\ g.data = Joined(old.data, bytes) /\ f.data = Joined(old.data, bytes)
        /\ Parts(f, DataEnd) =
              PartsOf(Joined(old.data, bytes), DataEnd, old.unparsed,
                      Ends(Joined(old.data, bytes), DataEnd, old.unsearched))
        /\ g.unparsed = EndOr(Ends(Joined(old.data, bytes), DataEnd, old.unsearched), old.unparsed)
    BY ONLY <1>1, <2>1, SoundReceived, Delimiters, bytes \in Seq(Byte)
  <2> QED BY ONLY <1>3, <1>4, <2>1, <2>2, b = Filled(old, bytes)
<1>7. b.data \in Seq(Byte) /\ old.unsearched \in 0..Len(b.data)
  BY <1>1, <1>6 DEF Joined
<1>8. PICK i \in DOMAIN new : /\ new[i] # <<>> /\ size = Len(new[i])
                              /\ \A k \in DOMAIN new : k < i => new[k] = <<>>
  BY <1>3, <1>5, DataSizeFacts
<1>9. /\ size \in 0..Len(b.data)
      /\ i = 1 /\ old.unparsed = 0 => new[i] = SubSeq(b.data, 1, size)
  BY <1>1, <1>6, <1>7, <1>8, PartLength, Delimiters
<1>10. m.text \in Text /\ m.read \in Text /\ Len(m.text) <= Len(m.read)
  <2>1. 1 \in 1..Len(b.data) + 1 /\ 1 <= size + 1 /\ size - 1 + 1 = size
    BY <1>7, <1>9
  <2>2. PICK t : t = SubSeq(b.data, 1, size)
    OBVIOUS
  <2>3. t \in Seq(Byte) /\ Len(t) = size
    BY <1>7, <1>9, <2>1, <2>2, SubSeqFacts
  <2>4. m.text = t /\ m.read = b.data
    BY <2>2
  <2> QED BY <1>7, <1>9, <2>3, <2>4 DEF Text
<1>11. Split(m.read, DataEnd).parts = Joined(parts, new)
  BY <1>5, <1>6 DEF SplitsInto, Joined
<1>12. Len(new) \in Nat /\ Len(new) > 0 /\ DOMAIN new = 1..Len(new) /\ i \in Nat /\ 1 \in DOMAIN new
  BY <1>5, <1>8
<1>13. CASE parts = <<>>
  <2>1. Joined(parts, new) = new
    BY <1>5, <1>13 DEF Joined
  <2>2. Head(new) = new[1]
    BY <1>5, <1>12
  <2>3. ASSUME new[1] # <<>> PROVE m.text = new[1]
    <3>1. i = 1
      BY <1>8, <1>12, <2>3
    <3>2. m.text = SubSeq(b.data, 1, size)
      OBVIOUS
    <3> QED BY <1>2, <1>9, <1>13, <3>1, <3>2
  <2> QED BY <1>10, <1>11, <2>1, <2>2, <2>3 DEF TextExact
<1>14. CASE parts # <<>>
  <2>1. PICK all : all = Joined(parts, new)
    OBVIOUS
  <2>2. 1 \in DOMAIN parts /\ all \in Seq(Text) /\ all # <<>> /\ all[1] = parts[1]
    BY <1>2, <1>5, <1>14, <2>1 DEF Joined
  <2>3. Head(all) = <<>>
    BY <1>2, <2>2
  <2> QED BY <1>10, <1>11, <2>1, <2>3 DEF TextExact
<1> QED BY <1>13, <1>14

\* A read for data keeps the invariant.
LEMMA DataReadKeeps ==
    ASSUME StreamInv, NEW n \in 1..Avail(msg), DataRead(n)
    PROVE  StreamInv'
<1>1. PICK bytes : bytes = Bytes(n)
  OBVIOUS
<1>2. PICK old : old = msg
  OBVIOUS
<1>3. PICK b : b = Filled(old, bytes)
  OBVIOUS
<1>4. PICK size : size = DataSize(Parts(b, DataEnd))
  OBVIOUS
<1>5. PICK d : d = Parsed(b, DataEnd)
  OBVIOUS
<1>6. n \in Nat
  BY SoundAvail DEF StreamInv
<1>7. /\ n <= Avail(msg) /\ pos + n <= Len(stream) /\ pos' = pos + n
      /\ stream' = stream /\ cmdBytes' = cmdBytes /\ lines' = lines
  BY DEF DataRead, Arrives
<1>8. bytes \in Seq(Byte) /\ Len(bytes) = n
  BY <1>1, <1>6, <1>7, BytesFacts DEF StreamInv
<1>9. Sound(old, DataEnd) /\ NoTextYet(old) /\ Len(bytes) <= Avail(old)
  BY <1>2, <1>7, <1>8 DEF StreamInv
<1>10. messages \in Seq([text : Text, read : Text])
  BY DEF StreamInv, TypeOK, Text
<1>11. stream' \in Stream /\ pos' \in 0..Len(stream')
  BY <1>6, <1>7, StreamAssumption DEF StreamInv, TypeOK
<1>12. CASE size = 0
  <2>1. ReadData(d) /\ cmd' = cmd /\ messages' = messages
    BY <1>1, <1>2, <1>3, <1>4, <1>5, <1>12 DEF DataRead
  <2>2. Sound(d, DataEnd)
    BY <1>3, <1>5, <1>8, <1>9, ReadSound, Delimiters
  <2>3. NoTextYet(d)
    <3>1. DataSize(Parts(b, DataEnd)) = 0
      BY ONLY <1>4, <1>12
    <3>2. Sound(old, DataEnd) /\ NoTextYet(old) /\ bytes \in Seq(Byte)
      BY ONLY <1>8, <1>9
    <3> QED BY ONLY <1>3, <1>5, <3>1, <3>2, ReadOn
  <2>4. /\ stage' \in {"cmd", "data", "terminated"}
        /\ (Sound(msg, DataEnd))' /\ (NoTextYet(msg))'
    BY <2>1, <2>2, <2>3, ReadDataFacts
  <2>5. (Sound(cmd, CRLF))' /\ (Reduced(cmd))'
    <3>1. PICK c : c = cmd
      OBVIOUS
    <3>2. Sound(c, CRLF) /\ Reduced(c)
      BY <3>1 DEF StreamInv
    <3>3. cmd' = c
      BY ONLY <2>1, <3>1
    <3> QED BY ONLY <3>2, <3>3, CommandsSame
  <2>6. (SplitsInto(cmdBytes, CRLF, lines, Redundant(cmd)))'
    BY <1>7, <2>1 DEF StreamInv, SplitsInto, Redundant, CRLF
  <2>7. (\A i \in DOMAIN messages : TextExact(messages[i]))'
    BY <2>1 DEF StreamInv, TextExact, DataEnd
  <2>8. TypeOK'
    <3>1. (cmd \in Buffer /\ OffsetsIn(cmd))' /\ (msg \in Buffer /\ OffsetsIn(msg))'
      BY <2>4, <2>5 DEF Sound
    <3> QED BY <1>7, <1>11, <2>1, <2>4, <3>1 DEF StreamInv, TypeOK
  <2> QED BY <2>4, <2>5, <2>6, <2>7, <2>8 DEF StreamInv
<1>13. CASE size # 0
  <2>1. PICK m : m = [text |-> SubSeq(b.data, 1, size), read |-> b.data]
    OBVIOUS
  <2>2. messages' = Append(messages, m) /\ msg' = NewBuffer /\ ReadCommand(cmd)
    BY <1>1, <1>2, <1>3, <1>4, <1>13, <2>1 DEF DataRead
  <2>3. m.text \in Text /\ m.read \in Text /\ Len(m.text) <= Len(m.read) /\ TextExact(m)
    BY <1>3, <1>4, <1>8, <1>9, <1>13, <2>1, HandedOver
  <2>4. m \in [text : Text, read : Text]
    BY <2>1, <2>3
  <2>5. PICK c : c = cmd
    OBVIOUS
  <2>6. Sound(c, CRLF) /\ Reduced(c) /\ ReadCommand(c)
    BY <2>2, <2>5 DEF StreamInv
  <2>7. /\ stage' \in {"cmd", "data", "terminated"}
        /\ (Sound(cmd, CRLF))' /\ (Reduced(cmd))' /\ (Redundant(cmd))' = Redundant(c)
    BY <2>6, ReadCommandFacts
  <2>8. PICK new : new = NewBuffer
    OBVIOUS
  <2>9. Sound(new, DataEnd) /\ NoTextYet(new)
    BY <2>8, NewSound
  <2>10. (Sound(msg, DataEnd))' /\ (NoTextYet(msg))'
    <3>1. msg' = new
      BY <2>2, <2>8
    <3>2. (Sound(msg, DataEnd))'
      BY <2>9, <3>1, MessageSame
    <3>3. (NoTextYet(msg))'
      BY <2>9, <3>1 DEF NoTextYet, SplitsInto, Redundant, Text
    <3> QED BY <3>2, <3>3
  <2>11. (SplitsInto(cmdBytes, CRLF, lines, Redundant(cmd)))'
    <3>1. SplitsInto(cmdBytes', CRLF, lines', (Redundant(cmd))')
      BY <1>7, <2>5, <2>7 DEF StreamInv
    <3> QED BY <3>1 DEF SplitsInto, CRLF
  <2>12. PICK more : more = Append(messages, m)
    OBVIOUS
  <2>13. /\ more \in Seq([text : Text, read : Text]) /\ Len(more) = Len(messages) + 1
         /\ \A i \in 1..Len(messages) : more[i] = messages[i]
         /\ more[Len(messages) + 1] = m
    BY <1>10, <2>4, <2>12, AppendProperties
  <2>14. \A i \in DOMAIN more : Len(more[i].text) <= Len(more[i].read) /\ TextExact(more[i])
    <3>1. \A i \in DOMAIN messages : /\ Len(messages[i].text) <= Len(messages[i].read)
                                     /\ TextExact(messages[i])
      BY DEF StreamInv, TypeOK
    <3>2. /\ DOMAIN messages = 1..Len(messages) /\ Len(messages) \in Nat
          /\ DOMAIN more = 1..Len(messages) + 1
      BY <1>10, <2>13
    <3> SUFFICES ASSUME NEW i \in DOMAIN more
                 PROVE  Len(more[i].text) <= Len(more[i].read) /\ TextExact(more[i])
      OBVIOUS
    <3>3. CASE i = Len(messages) + 1
      BY <2>3, <2>13, <3>3
    <3>4. CASE i # Len(messages) + 1
      <4>1. i \in 1..Len(messages)
        BY <3>2, <3>4
      <4>2. more[i] = messages[i]
        BY <2>13, <4>1
      <4> QED BY <3>1, <3>2, <4>1, <4>2
    <3> QED BY <3>3, <3>4
  <2>15. messages' = more
    BY <2>2, <2>12
  <2>16. (\A i \in DOMAIN messages : TextExact(messages[i]))'
    BY <2>14, <2>15 DEF TextExact, DataEnd
  <2>17. TypeOK'
    <3>1. (cmd \in Buffer /\ OffsetsIn(cmd))' /\ (msg \in Buffer /\ OffsetsIn(msg))'
      BY <2>7, <2>10 DEF Sound
    <3>2. /\ (messages \in Seq([text : Seq(Byte), read : Seq(Byte)]))'
          /\ (\A i \in DOMAIN messages : Len(messages[i].text) <= Len(messages[i].read))'
      BY <2>13, <2>14, <2>15 DEF Text
    <3>3. (cmdBytes \in Seq(Byte) /\ lines \in Seq(Seq(Byte)))'
      BY <1>7 DEF StreamInv, TypeOK
    <3> QED BY <1>11, <2>7, <3>1, <3>2, <3>3 DEF TypeOK
  <2> QED BY <2>7, <2>10, <2>11, <2>16, <2>17 DEF StreamInv
<1> QED BY <1>12, <1>13

\* Every step keeps the invariant.
LEMMA NextStream == StreamInv /\ [Next]_vars => StreamInv'
<1> SUFFICES ASSUME StreamInv, [Next]_vars PROVE StreamInv'
  OBVIOUS
<1>1. ASSUME NEW n \in 1..Avail(cmd), CommandsRead(n) PROVE StreamInv'
  BY <1>1, CommandsReadKeeps
<1>2. ASSUME NEW n \in 1..Avail(msg), DataRead(n) PROVE StreamInv'
  BY <1>2, DataReadKeeps
<1>3. CASE UNCHANGED vars
  <2>1. (Sound(cmd, CRLF))' /\ (Reduced(cmd))'
    <3>1. Sound(cmd, CRLF) /\ Reduced(cmd) /\ cmd' = cmd
      BY <1>3 DEF vars, StreamInv
    <3> QED BY ONLY <3>1, CommandsSame
  <2>2. (Sound(msg, DataEnd))'
    <3>1. Sound(msg, DataEnd) /\ msg' = msg
      BY <1>3 DEF vars, StreamInv
    <3> QED BY ONLY <3>1, MessageSame
  <2>3. (NoTextYet(msg))'
    BY <1>3 DEF vars, StreamInv, NoTextYet, SplitsInto, Redundant, Text
  <2>4. (SplitsInto(cmdBytes, CRLF, lines, Redundant(cmd)))'
    BY <1>3 DEF vars, StreamInv, SplitsInto, Redundant, CRLF
  <2>5. (\A i \in DOMAIN messages : TextExact(messages[i]))'
    BY <1>3 DEF vars, StreamInv, TextExact, DataEnd
  <2>6. TypeOK'
    <3>1. (cmd \in Buffer /\ OffsetsIn(cmd))' /\ (msg \in Buffer /\ OffsetsIn(msg))'
      BY <2>1, <2>2 DEF Sound
    <3> QED BY <1>3, <3>1 DEF vars, StreamInv, TypeOK
  <2> QED BY <2>1, <2>2, <2>3, <2>4, <2>5, <2>6 DEF StreamInv
<1> QED BY <1>1, <1>2, <1>3 DEF Next

\* The invariant holds in every state.
LEMMA StreamInvariant == Spec => []StreamInv
BY InitStream, NextStream, PTL DEF Spec

-----------------------------------------------------------------------------
\* Every variable stays within its type, and the offsets of both buffers within
\* what the buffers hold.
THEOREM TypeCorrect == Spec => []TypeOK
<1>1. StreamInv => TypeOK
  BY DEF StreamInv
<1> QED BY <1>1, StreamInvariant, PTL

\* What a read may fill is allocated, in both buffers (BuffAbstract::release and
\* the calculate_mem of PBufferAbstract, with mem_reduce and reset between them).
THEOREM ReadsFit == Spec => []BuffersFit
<1>1. StreamInv => BuffersFit
  BY DEF StreamInv, Sound, BuffersFit
<1> QED BY <1>1, StreamInvariant, PTL

\* mem_reduce leaves nothing in the command buffer, or a rest that is no line yet
\* and a large part of it.
THEOREM BufferStaysSmall == Spec => []CommandsReduced
<1>1. StreamInv => CommandsReduced
  BY DEF StreamInv, Reduced, CommandsReduced
<1> QED BY <1>1, StreamInvariant, PTL

\* The lines the session takes are the bytes it read, split at CRLF, however the
\* network cuts them and whatever parse() searches and mem_reduce moves.
THEOREM NoByteIsLost == Spec => []LinesAreExact
<1>1. StreamInv => LinesAreExact
  BY DEF StreamInv, SplitsInto, LinesAreExact
<1> QED BY <1>1, StreamInvariant, PTL

\* A message that is handed over is the text before the first terminator, unless
\* that one comes first; and no message is kept behind its terminator.
THEOREM MessagesEndWhereTheyShould == Spec => []MessagesAreExact
<1>1. StreamInv => MessagesAreExact
  <2> SUFFICES ASSUME StreamInv PROVE MessagesAreExact
    OBVIOUS
  <2>1. \A i \in DOMAIN messages :
           LET first == Head(Split(messages[i].read, DataEnd).parts)
           IN first # <<>> => messages[i].text = first
    BY DEF StreamInv, TextExact
  <2>2. PICK parts \in Seq(Text) : /\ SplitsInto(msg.data, DataEnd, parts, Redundant(msg))
                                   /\ \A i \in DOMAIN parts : parts[i] = <<>>
    BY DEF StreamInv, NoTextYet
  <2>3. Split(msg.data, DataEnd).parts = parts
    BY <2>2 DEF SplitsInto
  <2> QED BY <2>1, <2>2, <2>3 DEF MessagesAreExact
<1> QED BY <1>1, StreamInvariant, PTL

=============================================================================
