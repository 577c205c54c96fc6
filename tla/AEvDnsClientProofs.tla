-------------------------- MODULE AEvDnsClientProofs --------------------------
(***************************************************************************)
(* Proofs about AEvDnsClient and its codec: what a client writes a server  *)
(* reads, what a server writes the client reads, and a query is reported   *)
(* once and with the answers of its own request, for every set of queries, *)
(* replies and identifiers.                                                *)
(*                                                                         *)
(* The heart is ReplyRead: a respond whose types the parser knows is parsed*)
(* into its meaning, whatever the number of its records, compressed or not.*)
(* It is put together as the parser goes: a name ends at a zero or jumps   *)
(* to an earlier one (NameRead), the data of a record (DataIsRead), the    *)
(* record (AnswerIsRead), the records one behind the other                 *)
(* (AnswersAreRead). The parts of a package are kept whole by predicates   *)
(* that say where they stand in it; the recursions of the codec are        *)
(* functions, and go by induction with the sets of SetInduction.           *)
(***************************************************************************)
EXTENDS AEvDnsClient, SetInduction, SequenceTheorems

\* A string of bytes, and a list of such strings, kept whole by the provers.
Bytes == Seq(Nat)
Strings == Seq(Bytes)

-----------------------------------------------------------------------------
(* Bytes in a package. *)

\* The bytes s stand at the offset p of a package.
At(pkg, p, s) ==
    /\ p + Len(s) <= Len(pkg)
    /\ \A i \in 1..Len(s) : pkg[p + i] = s[i]

\* Where one string stands in front of another, each stands at its place.
LEMMA AtConcat ==
    ASSUME NEW pkg \in Bytes, NEW p \in Nat, NEW s \in Bytes, NEW t \in Bytes,
           At(pkg, p, s \o t)
    PROVE  At(pkg, p, s) /\ At(pkg, p + Len(s), t)
<1>0. PICK u : u = s \o t
  OBVIOUS
<1>1. u = s \o t /\ At(pkg, p, u)
  BY <1>0
<1>2. /\ u \in Seq(Nat) /\ Len(u) = Len(s) + Len(t) /\ Len(s) \in Nat /\ Len(t) \in Nat
      /\ \A i \in 1..Len(s) + Len(t) :
            u[i] = IF i <= Len(s) THEN s[i] ELSE t[i - Len(s)]
  BY <1>1, ConcatProperties DEF Bytes
<1>3. p + Len(u) <= Len(pkg) /\ \A i \in 1..Len(u) : pkg[p + i] = u[i]
  <2>1. At(pkg, p, u)
    BY <1>1
  <2> QED BY ONLY <2>1 DEF At
<1>4. Len(pkg) \in Nat
  BY ONLY pkg \in Bytes, LenProperties DEF Bytes
<1>5. ASSUME NEW i \in 1..Len(s) PROVE pkg[p + i] = s[i]
  <2>1. i \in 1..Len(s) + Len(t) /\ i <= Len(s) /\ i \in 1..Len(u)
    BY ONLY <1>2, i \in 1..Len(s)
  <2>2. u[i] = s[i]
    BY ONLY <1>2, <2>1
  <2> QED BY ONLY <1>3, <2>1, <2>2
<1>6. ASSUME NEW i \in 1..Len(t) PROVE pkg[p + Len(s) + i] = t[i]
  <2>1. PICK k \in 1..Len(u) : k = Len(s) + i
    BY <1>2
  <2>2. ~(k <= Len(s)) /\ k - Len(s) = i /\ k \in 1..Len(s) + Len(t)
    BY <1>2, <2>1
  <2>3. u[k] = t[i]
    BY ONLY <1>2, <2>2
  <2>4. p + k = p + Len(s) + i
    BY ONLY <1>2, <2>1, p \in Nat
  <2>5. pkg[p + k] = u[k]
    BY ONLY <1>3, k \in 1..Len(u)
  <2> QED BY ONLY <2>3, <2>4, <2>5
<1>7. p + Len(s) <= Len(pkg) /\ (p + Len(s)) + Len(t) <= Len(pkg)
  BY <1>2, <1>3, <1>4
<1> QED BY <1>5, <1>6, <1>7 DEF At

\* A package stands at its beginning.
LEMMA AtSelf ==
    ASSUME NEW pkg \in Bytes
    PROVE  At(pkg, 0, pkg)
BY DEF At, Bytes

\* buff_read of 16 bits.
LEMMA BuffReadTwo ==
    ASSUME NEW pkg, NEW at \in Nat, NEW a \in Nat, NEW b \in Nat,
           pkg[at + 1] = a, pkg[at + 2] = b
    PROVE  BuffRead(pkg, at, 2) = 256 * a + b
<1> DEFINE From(f) == [i \in 0..2 |-> IF i = 0 THEN 0 ELSE 256 * f[i - 1] + pkg[at + i]]
           g == [i \in 0..2 |-> IF i = 0 THEN 0 ELSE IF i = 1 THEN a ELSE 256 * a + b]
           f == CHOOSE f : f = From(f)
<1>1. g = From(g)
  <2>1. ASSUME NEW i \in 0..2
        PROVE  g[i] = IF i = 0 THEN 0 ELSE 256 * g[i - 1] + pkg[at + i]
    <3>1. CASE i = 0
      BY <3>1
    <3>2. CASE i = 1
      <4>1. g[0] = 0 /\ g[1] = a /\ 256 * 0 + a = a
        OBVIOUS
      <4>2. 1 - 1 = 0 /\ 1 # 0
        OBVIOUS
      <4> QED BY <3>2, <4>1, <4>2
    <3>3. CASE i = 2
      <4>1. g[1] = a /\ g[2] = 256 * a + b
        OBVIOUS
      <4>2. 2 - 1 = 1 /\ 2 # 0
        OBVIOUS
      <4> QED BY <3>3, <4>1, <4>2
    <3> QED BY <3>1, <3>2, <3>3
  <2>2. g = [i \in 0..2 |-> g[i]]
    OBVIOUS
  <2> HIDE DEF g
  <2> QED BY <2>1, <2>2
<1>2. f = From(f)
  <2>1. \E h : h = From(h)
    <3> HIDE DEF g, From
    <3> QED BY <1>1
  <2> HIDE DEF From
  <2> QED BY <2>1
<1>3. BuffRead(pkg, at, 2) = f[2]
  BY DEF BuffRead
<1> HIDE DEF f
<1>4. f[0] = 0
  BY <1>2
<1>5. f[1] = a
  <2>1. f[1] = 256 * f[0] + a
    BY <1>2
  <2> QED BY <1>4, <2>1
<1>6. f[2] = 256 * a + b
  <2>1. f[2] = 256 * f[1] + b
    BY <1>2
  <2> QED BY <1>5, <2>1
<1> QED BY <1>3, <1>6

\* A word of 16 bits is read as it was written.
LEMMA WordFacts ==
    ASSUME NEW n \in Nat
    PROVE  \E a, b \in Nat : Word(n) = <<a, b>> /\ 256 * a + b = n /\ b < 256
<1>1. n \div 256 \in Nat /\ n % 256 \in 0..255
  OBVIOUS
<1>2. PICK a \in Nat, b \in Nat : a = n \div 256 /\ b = n % 256
  BY <1>1
<1>3. 256 * a + b = n /\ b < 256
  BY <1>2
<1>4. Word(n) = <<a, b>>
  BY <1>2 DEF Word
<1> QED BY <1>3, <1>4

\* A word that stands in a package is read as it is.
LEMMA AtWord ==
    ASSUME NEW pkg \in Bytes, NEW p \in Nat, NEW n \in Nat, At(pkg, p, Word(n))
    PROVE  /\ BuffRead(pkg, p, 2) = n /\ p + 2 <= Len(pkg)
           /\ \E a, b \in Nat : pkg[p + 1] = a /\ 256 * a + b = n /\ b < 256
<1>1. PICK a \in Nat, b \in Nat : Word(n) = <<a, b>> /\ 256 * a + b = n /\ b < 256
  BY WordFacts
<1>2. PICK w : w = <<a, b>>
  OBVIOUS
<1>3. Len(w) = 2 /\ w[1] = a /\ w[2] = b
  BY <1>2
<1>4. At(pkg, p, w)
  BY <1>1, <1>2
<1>5. p + 2 <= Len(pkg) /\ pkg[p + 1] = a /\ pkg[p + 2] = b
  <2>1. p + Len(w) <= Len(pkg) /\ \A i \in 1..Len(w) : pkg[p + i] = w[i]
    BY ONLY <1>4 DEF At
  <2> QED BY <1>3, <2>1
<1>6. BuffRead(pkg, p, 2) = 256 * a + b
  BY <1>5, BuffReadTwo
<1> QED BY <1>1, <1>5, <1>6

-----------------------------------------------------------------------------
(* Strings put together. *)

\* F has what the first strings of ss are together.
IsFlat(F, ss) ==
    /\ F \in [0..Len(ss) -> Bytes]
    /\ F[0] = <<>>
    /\ \A i \in 1..Len(ss) : F[i] = F[i - 1] \o ss[i]

\* Two strings of bytes make one.
LEMMA ConcatType ==
    ASSUME NEW s \in Bytes, NEW t \in Bytes
    PROVE  s \o t \in Bytes /\ Len(s \o t) = Len(s) + Len(t)
BY ConcatProperties DEF Bytes

\* Any list of strings can be put together.
LEMMA FlatExists ==
    ASSUME NEW ss \in Strings
    PROVE  \E F : IsFlat(F, ss)
<1>0. Len(ss) \in Nat /\ \A i \in 1..Len(ss) : ss[i] \in Bytes
  BY DEF Strings
<1> DEFINE Upto(f, n) ==
             /\ f \in [0..n -> Bytes]
             /\ f[0] = <<>>
             /\ \A i \in 1..n : f[i] = f[i - 1] \o ss[i]
           S == {n \in 0..Len(ss) : \E f : Upto(f, n)}
<1>1. 0 \in S
  <2> DEFINE f == [i \in 0..0 |-> <<>>]
  <2>1. <<>> \in Bytes
    BY DEF Bytes
  <2>2. Upto(f, 0)
    BY <2>1
  <2> HIDE DEF f, Upto
  <2> QED BY <1>0, <2>2
<1>2. ASSUME NEW n \in 0..Len(ss) - 1, n \in S PROVE n + 1 \in S
  <2>0. n \in Nat /\ n + 1 \in 0..Len(ss) /\ n + 1 \in 1..Len(ss)
    BY <1>0
  <2>1. PICK f : Upto(f, n)
    BY <1>2
  <2>2. PICK s : s = f[n] \o ss[n + 1]
    OBVIOUS
  <2>3. s \in Bytes
    <3>1. f[n] \in Bytes /\ ss[n + 1] \in Bytes
      BY <1>0, <2>0, <2>1
    <3> QED BY <2>2, <3>1, ConcatType
  <2> DEFINE g == [i \in 0..n + 1 |-> IF i = n + 1 THEN s ELSE f[i]]
  <2>4. g \in [0..n + 1 -> Bytes]
    <3>1. ASSUME NEW i \in 0..n + 1, i # n + 1 PROVE f[i] \in Bytes
      <4>1. i \in 0..n
        BY <2>0, <3>1
      <4> QED BY ONLY <2>1, <4>1
    <3> QED BY ONLY <3>1, <2>3
  <2>5. g[0] = <<>>
    <3>1. 0 \in 0..n + 1 /\ 0 # n + 1
      BY <2>0
    <3> QED BY <2>1, <3>1
  <2>6. ASSUME NEW i \in 1..n + 1 PROVE g[i] = g[i - 1] \o ss[i]
    <3>1. CASE i = n + 1
      <4>1. i - 1 = n /\ n \in 0..n + 1 /\ n # n + 1 /\ i \in 0..n + 1
        BY <2>0, <3>1
      <4>2. g[i] = s /\ g[i - 1] = f[n]
        BY ONLY <4>1, <3>1
      <4> QED BY ONLY <2>2, <3>1, <4>2
    <3>2. CASE i # n + 1
      <4>1. i \in 1..n /\ i - 1 \in 0..n + 1 /\ i - 1 # n + 1 /\ i \in 0..n + 1
        BY <2>0, <3>2
      <4>2. g[i] = f[i] /\ g[i - 1] = f[i - 1]
        BY ONLY <4>1, <3>2
      <4> QED BY ONLY <2>1, <4>1, <4>2
    <3> QED BY <3>1, <3>2
  <2>7. Upto(g, n + 1)
    <3> HIDE DEF g
    <3> QED BY <2>4, <2>5, <2>6
  <2> HIDE DEF g, Upto
  <2> QED BY <2>0, <2>7
<1>3. Len(ss) \in S
  <2>1. 0..Len(ss) \subseteq S
    <3>1. Len(ss) \in Int /\ 0 \in Int
      BY <1>0
    <3> HIDE DEF S
    <3>2. \A n \in 0..Len(ss) - 1 : n \in S => n + 1 \in S
      BY <1>2
    <3> QED BY ONLY <1>1, <3>1, <3>2, UpFrom
  <2> HIDE DEF S
  <2> QED BY <1>0, <2>1
<1>4. PICK f : Upto(f, Len(ss))
  BY <1>3
<1> QED BY <1>4 DEF IsFlat

\* One step of FlattenSeq.
FlatFrom(f, tt, i) == IF i = 1 THEN tt[i] ELSE f[i - 1] \o tt[i]

\* FlattenSeq of the first strings is what F has for them.
LEMMA FlatValue ==
    ASSUME NEW ss \in Strings, NEW F, IsFlat(F, ss), NEW tt \in Strings,
           Len(tt) <= Len(ss), \A i \in 1..Len(tt) : tt[i] = ss[i]
    PROVE  FlattenSeq(tt) = F[Len(tt)]
<1>0. Len(ss) \in Nat /\ Len(tt) \in Nat /\ \A i \in 1..Len(ss) : ss[i] \in Bytes
  BY DEF Strings
<1>1. PICK n : n = Len(tt)
  OBVIOUS
<1>2. CASE n = 0
  <2>1. tt = <<>>
    BY ONLY <1>1, <1>2, tt \in Strings, EmptySeq DEF Strings
  <2>2. FlattenSeq(tt) = tt
    BY <1>1, <1>2 DEF FlattenSeq
  <2> QED BY <1>1, <1>2, <2>1, <2>2 DEF IsFlat
<1>3. CASE n # 0
  <2>0. n \in Nat /\ n >= 1 /\ n <= Len(ss)
    BY <1>0, <1>1, <1>3
  <2>1. F[1] = tt[1]
    <3>0. 1 \in 1..Len(ss) /\ 1 - 1 = 0
      BY <1>0, <2>0
    <3>1. F[1] = F[1 - 1] \o ss[1] /\ F[0] = <<>> /\ 1 - 1 = 0
      BY ONLY <3>0, IsFlat(F, ss) DEF IsFlat
    <3>2. ss[1] \in Bytes /\ tt[1] = ss[1]
      BY <1>0, <1>1, <2>0
    <3>3. <<>> \o ss[1] = ss[1]
      BY ONLY <3>2, ConcatEmptySeq DEF Bytes
    <3> QED BY ONLY <3>1, <3>2, <3>3
  <2>2. ASSUME NEW i \in 1..n PROVE i # 1 => F[i] = F[i - 1] \o tt[i]
    <3>1. i \in 1..Len(ss) /\ tt[i] = ss[i]
      BY <1>0, <1>1, <2>0
    <3> QED BY ONLY <3>1, IsFlat(F, ss) DEF IsFlat
  <2> DEFINE f == CHOOSE f : f = [i \in 1..n |-> FlatFrom(f, tt, i)]
             h == [i \in 1..n |-> F[i]]
  <2>3. h = [i \in 1..n |-> FlatFrom(h, tt, i)]
    <3>1. ASSUME NEW i \in 1..n PROVE h[i] = FlatFrom(h, tt, i)
      <4>1. h[i] = F[i]
        OBVIOUS
      <4>2. CASE i = 1
        BY <2>1, <4>1, <4>2 DEF FlatFrom
      <4>3. CASE i # 1
        <5>1. i - 1 \in 1..n
          BY <2>0, <4>3
        <5>2. h[i - 1] = F[i - 1]
          BY ONLY <5>1
        <5> HIDE DEF h
        <5> QED BY ONLY <2>2, <4>1, <4>3, <5>2, i \in 1..n DEF FlatFrom
      <4> QED BY <4>2, <4>3
    <3>2. h = [i \in 1..n |-> h[i]]
      OBVIOUS
    <3> HIDE DEF h
    <3> QED BY ONLY <3>1, <3>2
  <2>4. f = [i \in 1..n |-> FlatFrom(f, tt, i)]
    <3>1. \E x : x = [i \in 1..n |-> FlatFrom(x, tt, i)]
      <4> HIDE DEF h
      <4> QED BY <2>3
    <3> QED BY <3>1
  <2>5. FlattenSeq(tt) = f[n]
    BY <1>0, <1>1, <1>3 DEF FlattenSeq, FlatFrom
  <2> DEFINE S == {i \in 1..n : f[i] = F[i]}
  <2>6. 1 \in S
    <3> HIDE DEF f
    <3>1. f[1] = tt[1]
      BY <2>0, <2>4 DEF FlatFrom
    <3> QED BY <2>0, <2>1, <3>1
  <2>7. ASSUME NEW i \in 1..n - 1, i \in S PROVE i + 1 \in S
    <3> HIDE DEF f
    <3>0. i + 1 \in 1..n /\ i + 1 # 1 /\ (i + 1) - 1 = i
      BY <2>0
    <3>1. f[i + 1] = f[i] \o tt[i + 1]
      BY ONLY <2>4, <3>0 DEF FlatFrom
    <3>2. F[i + 1] = F[i] \o tt[i + 1]
      BY ONLY <2>2, <3>0
    <3>3. f[i] = F[i]
      BY <2>7
    <3> QED BY <3>0, <3>1, <3>2, <3>3
  <2>8. 1..n \subseteq S
    <3>1. n \in Int /\ 1 \in Int
      BY <2>0
    <3> HIDE DEF S
    <3>2. \A i \in 1..n - 1 : i \in S => i + 1 \in S
      BY <2>7
    <3> QED BY ONLY <2>6, <3>1, <3>2, UpFrom
  <2>9. f[n] = F[n]
    <3> HIDE DEF f
    <3> QED BY <2>0, <2>8
  <2> QED BY <1>1, <2>5, <2>9
<1> QED BY <1>2, <1>3

\* The first n strings of ss stand one behind the other.
FlatAt(pkg, p, ss, F, n) ==
    /\ \A i \in 0..n : At(pkg, p, F[i]) /\ Len(F[i]) \in Nat
    /\ \A i \in 1..n : /\ At(pkg, p + Len(F[i - 1]), ss[i])
                       /\ Len(F[i]) = Len(F[i - 1]) + Len(ss[i])

\* Strings put together that stand in a package stand there one behind the other.
LEMMA AtFlat ==
    ASSUME NEW pkg \in Bytes, NEW p \in Nat, NEW ss \in Strings, NEW F, IsFlat(F, ss),
           NEW n, n \in 0..Len(ss), NEW s, s = F[n], At(pkg, p, s)
    PROVE  FlatAt(pkg, p, ss, F, n)
<1>0. Len(ss) \in Nat /\ n \in Nat /\ \A i \in 1..Len(ss) : ss[i] \in Bytes
  BY DEF Strings
<1>1. ASSUME NEW i \in 1..n
      PROVE  F[i - 1] \in Bytes /\ ss[i] \in Bytes /\ F[i] = F[i - 1] \o ss[i]
  <2>1. i - 1 \in 0..Len(ss) /\ i \in 1..Len(ss)
    BY <1>0
  <2> QED BY ONLY <2>1, <1>0, IsFlat(F, ss) DEF IsFlat
<1> DEFINE S == {i \in 0..n : At(pkg, p, F[i])}
<1>2. ASSUME NEW i \in 0..n, \A j \in i + 1..n : j \in S PROVE i \in S
  <2>1. CASE i = n
    BY <2>1
  <2>2. CASE i # n
    <3>1. i + 1 \in 1..n /\ i + 1 \in i + 1..n /\ (i + 1) - 1 = i
      BY <1>0, <2>2
    <3>2. At(pkg, p, F[i + 1])
      BY <1>2, <3>1
    <3>3. F[i] \in Bytes /\ ss[i + 1] \in Bytes /\ F[i + 1] = F[i] \o ss[i + 1]
      BY <1>1, <3>1
    <3>4. At(pkg, p, F[i] \o ss[i + 1])
      BY ONLY <3>2, <3>3
    <3>5. At(pkg, p, F[i])
      BY ONLY <3>3, <3>4, AtConcat, pkg \in Bytes, p \in Nat
    <3> QED BY <3>5
  <2> QED BY <2>1, <2>2
<1>3. 0..n \subseteq S
  <2> HIDE DEF S
  <2> QED BY <1>0, <1>2, DownFrom
<1>4. ASSUME NEW i \in 1..n
      PROVE  /\ At(pkg, p + Len(F[i - 1]), ss[i])
             /\ Len(F[i]) = Len(F[i - 1]) + Len(ss[i])
  <2>1. F[i - 1] \in Bytes /\ ss[i] \in Bytes /\ F[i] = F[i - 1] \o ss[i]
    BY <1>1
  <2>2. i \in 0..n
    BY <1>0
  <2>3. At(pkg, p, F[i])
    BY <1>3, <2>2
  <2>4. At(pkg, p, F[i - 1] \o ss[i])
    BY ONLY <2>1, <2>3
  <2>5. At(pkg, p + Len(F[i - 1]), ss[i])
    BY ONLY <2>1, <2>4, AtConcat, pkg \in Bytes, p \in Nat
  <2>6. Len(F[i]) = Len(F[i - 1]) + Len(ss[i])
    BY ONLY <2>1, ConcatType
  <2> QED BY <2>5, <2>6
<1>5. ASSUME NEW i \in 0..n PROVE At(pkg, p, F[i]) /\ Len(F[i]) \in Nat
  <2>1. i \in 0..Len(ss)
    BY <1>0
  <2>2. F[i] \in Seq(Nat)
    BY ONLY <2>1, IsFlat(F, ss) DEF IsFlat, Bytes
  <2> QED BY <1>3, <2>2, LenProperties
<1> QED BY <1>4, <1>5 DEF FlatAt
-----------------------------------------------------------------------------
(* Names in a package. *)

\* A name with the section s in front, its end behind some sections, a section as
\* it is written, and the result of reading a name: kept whole by the provers.
End(name, i) == SubSeq(name, i, Len(name))
Label(s) == <<Len(s)>> \o s
Section(pkg, p, n) == SubSeq(pkg, p + 2, p + n + 1)
Result(t, x) == {[name |-> t, next |-> x]}

\* The last byte of what begins at the offset p of a package.
QdnLast(pkg, p) == p + (IF pkg[p + 1] >= 192 THEN 1 ELSE pkg[p + 1])

\* One step of buff_step_read_qdn.
QdnFrom(f, pkg, left, p) ==
    IF left = 0 \/ p >= Len(pkg) \/ QdnLast(pkg, p) >= Len(pkg) THEN {}
    ELSE IF pkg[p + 1] = 0 THEN {[name |-> <<>>, next |-> p + 1]}
    ELSE IF pkg[p + 1] >= 192
    THEN {[r EXCEPT !.next = p + 2] : r \in f[left - 1][BuffRead(pkg, p, 2) % 2^14]}
    ELSE {[r EXCEPT !.name = <<SubSeq(pkg, p + 2, QdnLast(pkg, p) + 1)>> \o @] :
            r \in f[left - 1][QdnLast(pkg, p) + 1]}

\* R has what is read in so many steps at each offset.
Reads(R, pkg) == R = [left \in 0..Len(pkg) |-> [p \in Nat |-> QdnFrom(R, pkg, left, p)]]

\* There is a function that reads names as read_qdn does.
LEMMA ReadsExists ==
    ASSUME NEW pkg \in Bytes
    PROVE  \E R : Reads(R, pkg)
<1>1. PICK N : N = Len(pkg)
  OBVIOUS
<1>2. N \in Nat
  BY <1>1 DEF Bytes
<1> DEFINE Upto(f, n) == f = [left \in 0..n |-> [p \in Nat |-> QdnFrom(f, pkg, left, p)]]
           S == {n \in 0..N : \E f : Upto(f, n)}
<1>3. 0 \in S
  <2> DEFINE f == [left \in 0..0 |-> [p \in Nat |-> {}]]
  <2>1. f = [left \in 0..0 |-> [p \in Nat |-> QdnFrom(f, pkg, left, p)]]
    BY DEF QdnFrom
  <2> HIDE DEF f
  <2> QED BY <1>2, <2>1
<1>4. ASSUME NEW m \in 0..N - 1, m \in S PROVE m + 1 \in S
  <2>0. m \in Nat /\ m + 1 \in 0..N
    BY <1>2
  <2>1. PICK f : Upto(f, m)
    BY <1>4
  <2> DEFINE row == [p \in Nat |-> QdnFrom(f, pkg, m + 1, p)]
             g == [left \in 0..m + 1 |-> IF left = m + 1 THEN row ELSE f[left]]
  <2>2. ASSUME NEW left \in 0..m + 1
        PROVE  g[left] = [p \in Nat |-> QdnFrom(g, pkg, left, p)]
    <3>1. g[left] = [p \in Nat |-> QdnFrom(f, pkg, left, p)]
      <4>1. CASE left = m + 1
        BY <4>1
      <4>2. CASE left # m + 1
        <5>1. left \in 0..m
          BY <2>0, <4>2
        <5>2. g[left] = f[left]
          BY <4>2
        <5>3. f[left] = [p \in Nat |-> QdnFrom(f, pkg, left, p)]
          <6> HIDE DEF g, row
          <6> QED BY <2>1, <5>1
        <5> QED BY ONLY <5>2, <5>3
      <4> QED BY <4>1, <4>2
    <3>2. left # 0 => f[left - 1] = g[left - 1]
      <4>1. left # 0 => left - 1 \in 0..m + 1 /\ left - 1 # m + 1
        BY <2>0
      <4> QED BY <4>1
    <3> HIDE DEF g, row
    <3>3. ASSUME NEW p \in Nat PROVE QdnFrom(f, pkg, left, p) = QdnFrom(g, pkg, left, p)
      <4>1. CASE left = 0
        BY <4>1 DEF QdnFrom
      <4>2. CASE left # 0
        <5>1. f[left - 1] = g[left - 1]
          BY <3>2, <4>2
        <5> QED BY ONLY <5>1 DEF QdnFrom
      <4> QED BY <4>1, <4>2
    <3> QED BY ONLY <3>1, <3>3
  <2>3. g = [left \in 0..m + 1 |-> [p \in Nat |-> QdnFrom(g, pkg, left, p)]]
    <3>1. g = [left \in 0..m + 1 |-> g[left]]
      OBVIOUS
    <3> HIDE DEF g
    <3> QED BY ONLY <2>2, <3>1
  <2>4. Upto(g, m + 1)
    <3> HIDE DEF g
    <3> QED BY <2>3
  <2> HIDE DEF g, Upto
  <2> QED BY <2>0, <2>4
<1>5. N \in S
  <2>1. N \in Int /\ 0 \in Int
    BY <1>2
  <2> HIDE DEF S
  <2>2. \A m \in 0..N - 1 : m \in S => m + 1 \in S
    BY <1>4
  <2>3. 0..N \subseteq S
    BY ONLY <1>3, <2>1, <2>2, UpFrom
  <2> QED BY <1>2, <2>3
<1>6. \E f : Upto(f, N)
  BY <1>5
<1> QED BY <1>1, <1>6 DEF Reads

\* What buff_step_read_qdn reads is what R has for as many steps as there are bytes.
LEMMA ReadsValue ==
    ASSUME NEW pkg \in Bytes
    PROVE  \E R : /\ Reads(R, pkg)
                  /\ \A at : ReadQdn(pkg, at) = {r \in R[Len(pkg)][at] : r.name # <<>>}
<1> DEFINE R == CHOOSE R : R = [left \in 0..Len(pkg) |-> [p \in Nat |-> QdnFrom(R, pkg, left, p)]]
<1>1. Reads(R, pkg)
  BY ReadsExists DEF Reads
<1>2. \A at : ReadQdn(pkg, at) = {r \in R[Len(pkg)][at] : r.name # <<>>}
  BY DEF ReadQdn, QdnFrom, QdnLast
<1> QED BY <1>1, <1>2

\* What it returns at an offset.
LEMMA ReadsAt ==
    ASSUME NEW R, NEW pkg, Reads(R, pkg), NEW left \in 0..Len(pkg), NEW p \in Nat
    PROVE  R[left][p] = QdnFrom(R, pkg, left, p)
<1>1. PICK f : f = [k \in 0..Len(pkg) |-> [q \in Nat |-> QdnFrom(R, pkg, k, q)]]
  OBVIOUS
<1>2. R = f
  BY ONLY <1>1, Reads(R, pkg) DEF Reads
<1>3. f[left] = [q \in Nat |-> QdnFrom(R, pkg, left, q)]
  BY ONLY <1>1, left \in 0..Len(pkg)
<1>4. f[left][p] = QdnFrom(R, pkg, left, p)
  BY ONLY <1>3, p \in Nat
<1> QED BY ONLY <1>2, <1>4

\* The section s begins at the offset p of a package, and what follows it at y.
Begins(pkg, p, s, y) ==
    /\ p \in Nat /\ Len(s) \in 1..63
    /\ pkg[p + 1] = Len(s) /\ Section(pkg, p, Len(s)) = s
    /\ y = p + Len(s) + 1 /\ y <= Len(pkg)

\* A pointer to the offset `off` stands at p, and what follows it at y.
Points(pkg, p, off, y) ==
    /\ p \in Nat /\ off \in Nat
    /\ pkg[p + 1] \in Nat /\ pkg[p + 1] >= 192 /\ BuffRead(pkg, p, 2) % 2^14 = off
    /\ y = p + 2 /\ y <= Len(pkg)

\* The byte at p is 0, and the last of a name, and what follows it is at y.
Ends(pkg, p, y) == p \in Nat /\ pkg[p + 1] = 0 /\ y = p + 1 /\ y <= Len(pkg)

\* A byte of zero ends a name.
LEMMA ReadEnd ==
    ASSUME NEW pkg \in Bytes, NEW R, Reads(R, pkg), NEW l \in 1..Len(pkg),
           NEW p, NEW y, Ends(pkg, p, y)
    PROVE  R[l][p] = Result(<<>>, y)
<1>1. p \in Nat /\ pkg[p + 1] = 0 /\ y = p + 1 /\ y <= Len(pkg)
  BY DEF Ends
<1>2. PICK N \in Nat : N = Len(pkg)
  BY DEF Bytes
<1>3. l \in 0..Len(pkg)
  BY <1>2
<1>4. R[l][p] = QdnFrom(R, pkg, l, p)
  BY ONLY <1>1, <1>3, Reads(R, pkg), ReadsAt
<1>5. QdnLast(pkg, p) = p
  BY ONLY <1>1 DEF QdnLast
<1>6. l # 0 /\ ~(p >= Len(pkg)) /\ ~(QdnLast(pkg, p) >= Len(pkg))
  BY ONLY <1>1, <1>2, <1>5, l \in 1..Len(pkg)
<1> QED BY ONLY <1>1, <1>4, <1>6 DEF QdnFrom, Result

\* A section is read in front of what follows it.
LEMMA ReadSection ==
    ASSUME NEW pkg \in Bytes, NEW R, Reads(R, pkg), NEW l \in 1..Len(pkg), NEW m, m = l - 1,
           NEW p, NEW s, NEW y, Begins(pkg, p, s, y), NEW t, NEW x, R[m][y] = Result(t, x)
    PROVE  R[l][p] = Result(Cons(s, t), x)
<1>1. PICK n : n = Len(s)
  OBVIOUS
<1>2. /\ p \in Nat /\ n \in 1..63 /\ pkg[p + 1] = n /\ Section(pkg, p, n) = s
      /\ y = p + n + 1 /\ y <= Len(pkg)
  BY <1>1 DEF Begins
<1>3. PICK N \in Nat : N = Len(pkg)
  BY DEF Bytes
<1>4. l \in 0..Len(pkg)
  BY <1>3
<1>5. R[l][p] = QdnFrom(R, pkg, l, p)
  BY ONLY <1>2, <1>4, Reads(R, pkg), ReadsAt
<1>6. QdnLast(pkg, p) = p + n
  BY ONLY <1>2 DEF QdnLast
<1>7. l # 0 /\ ~(p >= Len(pkg)) /\ ~(QdnLast(pkg, p) >= Len(pkg))
  <2>1. p + n < N
    BY ONLY <1>2, <1>3
  <2> QED BY ONLY <1>2, <1>3, <1>6, <2>1, l \in 1..Len(pkg)
<1>8. pkg[p + 1] # 0 /\ ~(pkg[p + 1] >= 192)
  BY ONLY <1>2
<1>9. R[l][p] = {[r EXCEPT !.name = <<SubSeq(pkg, p + 2, QdnLast(pkg, p) + 1)>> \o @] :
                    r \in R[l - 1][QdnLast(pkg, p) + 1]}
  BY ONLY <1>5, <1>7, <1>8 DEF QdnFrom
<1>10. R[l][p] = {[r EXCEPT !.name = <<s>> \o @] : r \in R[m][y]}
  BY ONLY <1>2, <1>6, <1>9, m = l - 1 DEF Section
<1>11. R[l][p] = {[r EXCEPT !.name = <<s>> \o @] : r \in {[name |-> t, next |-> x]}}
  BY ONLY <1>10, R[m][y] = Result(t, x) DEF Result
<1>12. [[name |-> t, next |-> x] EXCEPT !.name = <<s>> \o @] = [name |-> <<s>> \o t, next |-> x]
  <2>1. PICK u : u = <<s>> \o t
    OBVIOUS
  <2>2. [name |-> t, next |-> x].name = t
    OBVIOUS
  <2>3. [[name |-> t, next |-> x] EXCEPT !.name = u] = [name |-> u, next |-> x]
    BY ONLY TRUE
  <2> QED BY ONLY <2>1, <2>2, <2>3
<1> QED BY ONLY <1>11, <1>12 DEF Result, Cons

\* A pointer is followed, and the cursor stays behind it.
LEMMA ReadPointer ==
    ASSUME NEW pkg \in Bytes, NEW R, Reads(R, pkg), NEW l \in 1..Len(pkg), NEW m, m = l - 1,
           NEW p, NEW off, NEW y, Points(pkg, p, off, y), NEW t, NEW x, R[m][off] = Result(t, x)
    PROVE  R[l][p] = Result(t, y)
<1>1. /\ p \in Nat /\ pkg[p + 1] \in Nat /\ pkg[p + 1] >= 192
      /\ BuffRead(pkg, p, 2) % 2^14 = off /\ y = p + 2 /\ y <= Len(pkg)
  BY DEF Points
<1>2. PICK N \in Nat : N = Len(pkg)
  BY DEF Bytes
<1>3. l \in 0..Len(pkg)
  BY <1>2
<1>4. R[l][p] = QdnFrom(R, pkg, l, p)
  BY ONLY <1>1, <1>3, Reads(R, pkg), ReadsAt
<1>5. QdnLast(pkg, p) = p + 1
  BY ONLY <1>1 DEF QdnLast
<1>6. l # 0 /\ ~(p >= Len(pkg)) /\ ~(QdnLast(pkg, p) >= Len(pkg))
  BY ONLY <1>1, <1>2, <1>5, l \in 1..Len(pkg)
<1>7. pkg[p + 1] # 0 /\ pkg[p + 1] >= 192
  BY ONLY <1>1
<1>8. R[l][p] = {[r EXCEPT !.next = p + 2] : r \in R[l - 1][BuffRead(pkg, p, 2) % 2^14]}
  BY ONLY <1>4, <1>6, <1>7 DEF QdnFrom
<1>9. R[l][p] = {[r EXCEPT !.next = y] : r \in {[name |-> t, next |-> x]}}
  <2>1. BuffRead(pkg, p, 2) % 2^14 = off /\ y = p + 2
    BY ONLY <1>1
  <2> QED BY ONLY <1>8, <2>1, m = l - 1, R[m][off] = Result(t, x) DEF Result
<1>10. [[name |-> t, next |-> x] EXCEPT !.next = y] = [name |-> t, next |-> y]
  OBVIOUS
<1> QED BY ONLY <1>9, <1>10 DEF Result

\* What of a name stands in a package, section by section.
Labels(name) == [i \in DOMAIN name |-> Label(name[i])]

\* A string of one byte.
LEMMA OneByte ==
    ASSUME NEW n \in Nat
    PROVE  <<n>> \in Bytes /\ Len(<<n>>) = 1 /\ <<n>>[1] = n
BY DEF Bytes

\* Sections are strings of bytes, one longer than what they hold.
LEMMA LabelsFacts ==
    ASSUME NEW name \in Strings
    PROVE  /\ Labels(name) \in Strings /\ Len(Labels(name)) = Len(name)
           /\ \A i \in 1..Len(name) :
                 /\ name[i] \in Bytes /\ Len(name[i]) \in Nat
                 /\ Labels(name)[i] = Label(name[i])
                 /\ Len(Labels(name)[i]) = Len(name[i]) + 1
<1>1. Len(name) \in Nat /\ DOMAIN name = 1..Len(name) /\ \A i \in 1..Len(name) : name[i] \in Bytes
  BY DEF Strings
<1>2. ASSUME NEW i \in 1..Len(name)
      PROVE  /\ Len(name[i]) \in Nat
             /\ Label(name[i]) \in Bytes
             /\ Len(Label(name[i])) = Len(name[i]) + 1
  <2>1. PICK s : s = name[i]
    OBVIOUS
  <2>2. s \in Bytes /\ Len(s) \in Nat
    BY <1>1, <2>1 DEF Bytes
  <2>3. PICK n \in Nat : n = Len(s)
    BY <2>2
  <2>4. <<n>> \in Bytes /\ Len(<<n>>) = 1
    BY OneByte
  <2>5. Label(s) \in Bytes /\ Len(Label(s)) = 1 + Len(s)
    BY ONLY <2>2, <2>3, <2>4, ConcatType DEF Label
  <2>6. Len(Label(s)) = Len(s) + 1
    BY <2>2, <2>5
  <2> QED BY ONLY <2>1, <2>2, <2>3, <2>5, <2>6
<1>3. PICK f : f = Labels(name)
  OBVIOUS
<1>4. /\ DOMAIN f = 1..Len(name)
      /\ f = [i \in 1..Len(name) |-> f[i]]
      /\ \A i \in 1..Len(name) : f[i] = Label(name[i])
  BY <1>1, <1>3 DEF Labels
<1>5. \A i \in 1..Len(name) : f[i] \in Bytes
  BY ONLY <1>2, <1>4
<1>6. f \in [1..Len(name) -> Bytes]
  BY ONLY <1>4, <1>5
<1>7. f \in Seq(Bytes) /\ Len(f) = Len(name)
  BY ONLY <1>1, <1>6
<1>8. \A i \in 1..Len(name) : Len(f[i]) = Len(name[i]) + 1
  BY ONLY <1>2, <1>4
<1> QED BY ONLY <1>1, <1>2, <1>3, <1>4, <1>7, <1>8 DEF Strings

\* A section that stands in a package.
LEMMA AtLabel ==
    ASSUME NEW pkg \in Bytes, NEW p \in Nat, NEW s \in Bytes, NEW n \in Nat, n = Len(s),
           n \in 1..63, At(pkg, p, Label(s))
    PROVE  Begins(pkg, p, s, p + n + 1)
<1>0. PICK one : one = <<n>>
  OBVIOUS
<1>1. one \in Bytes /\ Len(one) = 1 /\ one[1] = n
  BY ONLY <1>0, n \in Nat, OneByte
<1>2. At(pkg, p, one \o s)
  BY <1>0 DEF Label
<1>3. At(pkg, p, one) /\ At(pkg, p + Len(one), s)
  BY ONLY <1>1, <1>2, AtConcat, pkg \in Bytes, p \in Nat, s \in Bytes
<1>4. pkg[p + 1] = n
  <2>1. \A i \in 1..Len(one) : pkg[p + i] = one[i]
    BY ONLY <1>3 DEF At
  <2> QED BY ONLY <1>1, <2>1
<1>5. At(pkg, p + 1, s)
  BY ONLY <1>1, <1>3
<1>6. (p + 1) + n <= Len(pkg) /\ \A i \in 1..n : pkg[(p + 1) + i] = s[i]
  BY ONLY <1>5, n = Len(s) DEF At
<1>7. Len(pkg) \in Nat
  BY ONLY pkg \in Bytes, LenProperties DEF Bytes
<1>8. p + n < Len(pkg)
  BY ONLY <1>6, <1>7, p \in Nat, n \in Nat
<1>9. Section(pkg, p, n) = s
  <2>0. PICK m, k : m = p + 2 /\ k = p + n + 1
    OBVIOUS
  <2>1. m \in Int /\ k \in Int /\ (m <= k => k - m + 1 = n) /\ (~(m <= k) => n = 0) /\ k - m + 1 = n
    BY ONLY <2>0, p \in Nat, n \in Nat
  <2>2. \A i \in m..k : pkg[i] \in Nat
    <3>1. \A i \in 1..Len(pkg) : pkg[i] \in Nat
      BY ONLY pkg \in Bytes, ElementOfSeq DEF Bytes
    <3>2. \A i \in m..k : i \in 1..Len(pkg)
      BY ONLY <1>7, <1>8, <2>0, p \in Nat, n \in Nat
    <3> QED BY ONLY <3>1, <3>2
  <2>3. /\ SubSeq(pkg, m, k) \in Seq(Nat)
        /\ Len(SubSeq(pkg, m, k)) = (IF m <= k THEN k - m + 1 ELSE 0)
        /\ \A i \in 1..k - m + 1 : SubSeq(pkg, m, k)[i] = pkg[m + i - 1]
    BY ONLY <2>1, <2>2, SubSeqProperties
  <2>4. PICK u : u = SubSeq(pkg, m, k)
    OBVIOUS
  <2>5. u \in Seq(Nat) /\ Len(u) = n
    BY ONLY <2>1, <2>3, <2>4
  <2>6. ASSUME NEW i \in 1..n PROVE u[i] = s[i]
    <3>1. u[i] = pkg[m + i - 1]
      BY ONLY <2>1, <2>3, <2>4, i \in 1..n
    <3>2. m + i - 1 = (p + 1) + i
      BY ONLY <2>0, p \in Nat, n \in Nat, i \in 1..n
    <3> QED BY ONLY <1>6, <3>1, <3>2, i \in 1..n
  <2>7. u = s
    BY ONLY <2>5, <2>6, n = Len(s), s \in Bytes, SeqEqual DEF Bytes
  <2> QED BY ONLY <2>0, <2>4, <2>7 DEF Section
<1>10. p + n + 1 <= Len(pkg)
  BY ONLY <1>7, <1>8, p \in Nat, n \in Nat
<1> QED BY <1>4, <1>9, <1>10 DEF Begins

\* What stands at the offset y and before is read in so many steps as there
\* are, with what is behind it in so many less.
Stands(pkg, name, at, k) ==
    /\ at \in [0..k -> Nat]
    /\ \A i \in 1..k : Begins(pkg, at[i - 1], name[i], at[i])

\* The sections of a name stand one behind the other.
LEMMA LabelsStand ==
    ASSUME NEW pkg \in Bytes, NEW p \in Nat,
           NEW name \in Strings, Legal(name), NEW F, IsFlat(F, Labels(name)),
           NEW k \in 0..Len(name), At(pkg, p, F[k])
    PROVE  /\ \A i \in 0..k : Len(F[i]) \in Nat /\ Len(F[i]) >= i
           /\ Stands(pkg, name, [i \in 0..k |-> p + Len(F[i])], k)
<1>1. /\ Labels(name) \in Strings /\ Len(Labels(name)) = Len(name) /\ Len(name) \in Nat
      /\ \A i \in 1..Len(name) :
            /\ name[i] \in Bytes /\ Len(name[i]) \in 1..63
            /\ Labels(name)[i] = Label(name[i])
            /\ Len(Labels(name)[i]) = Len(name[i]) + 1
  <2>1. Len(name) \in Nat /\ DOMAIN name = 1..Len(name)
    BY ONLY name \in Strings, LenProperties DEF Strings
  <2>2. \A i \in 1..Len(name) : Len(name[i]) \in 1..63
    BY ONLY <2>1, Legal(name) DEF Legal
  <2> QED BY ONLY <2>1, <2>2, LabelsFacts, name \in Strings
<1>2. /\ \A i \in 0..k : At(pkg, p, F[i]) /\ Len(F[i]) \in Nat
      /\ \A i \in 1..k : /\ At(pkg, p + Len(F[i - 1]), Labels(name)[i])
                         /\ Len(F[i]) = Len(F[i - 1]) + Len(Labels(name)[i])
  <2>1. PICK ss : ss = Labels(name)
    OBVIOUS
  <2>2. ss \in Strings /\ k \in 0..Len(ss) /\ IsFlat(F, ss)
    BY ONLY <1>1, <2>1, k \in 0..Len(name), IsFlat(F, Labels(name))
  <2>3. PICK f : f = F[k]
    OBVIOUS
  <2>4. At(pkg, p, f)
    BY <2>3
  <2>5. FlatAt(pkg, p, ss, F, k)
    BY ONLY <2>2, <2>3, <2>4, AtFlat, pkg \in Bytes, p \in Nat
  <2> QED BY ONLY <2>1, <2>5 DEF FlatAt
<1>3. k \in Nat
  BY ONLY <1>1, k \in 0..Len(name)
<1> DEFINE at == [i \in 0..k |-> p + Len(F[i])]
<1>4. at \in [0..k -> Nat]
  BY ONLY <1>2, p \in Nat
<1>5. ASSUME NEW i \in 1..k PROVE Begins(pkg, at[i - 1], name[i], at[i])
  <2>1. i \in 0..k /\ i - 1 \in 0..k /\ i \in 1..Len(name)
    BY ONLY <1>1, <1>3, i \in 1..k, k \in 0..Len(name)
  <2>2. PICK a, b, s, n : a = Len(F[i - 1]) /\ b = Len(F[i]) /\ s = name[i] /\ n = Len(s)
    OBVIOUS
  <2>3. PICK q : q = p + a
    OBVIOUS
  <2>4. a \in Nat /\ b \in Nat /\ q \in Nat /\ at[i - 1] = q /\ at[i] = p + b
    BY ONLY <1>2, <2>1, <2>2, <2>3, p \in Nat
  <2>5. s \in Bytes /\ n \in 1..63 /\ n \in Nat /\ n = Len(s) /\ b = a + (n + 1)
    <3>1. s \in Bytes /\ n \in 1..63 /\ Len(Labels(name)[i]) = n + 1
      BY ONLY <1>1, <2>1, <2>2
    <3>2. b = a + Len(Labels(name)[i])
      BY ONLY <1>2, <2>2, i \in 1..k
    <3> QED BY ONLY <3>1, <3>2, <2>2
  <2>6. At(pkg, q, Label(s))
    BY ONLY <1>1, <1>2, <2>1, <2>2, <2>3, i \in 1..k
  <2>7. Begins(pkg, q, s, q + n + 1)
    BY ONLY <2>4, <2>5, <2>6, AtLabel, pkg \in Bytes
  <2>8. at[i] = q + n + 1
    <3>1. b = a + (n + 1) /\ n \in Nat
      BY ONLY <2>5
    <3> QED BY ONLY <2>3, <2>4, <3>1, p \in Nat
  <2> QED BY ONLY <2>2, <2>4, <2>7, <2>8
<1>6. ASSUME NEW i \in 0..k PROVE Len(F[i]) >= i
  <2> DEFINE S == {j \in 0..k : Len(F[j]) >= j}
  <2>1. 0 \in S
    BY <1>2, <1>3
  <2>2. ASSUME NEW j \in 0..k - 1, j \in S PROVE j + 1 \in S
    <3>1. j + 1 \in 1..k /\ j + 1 \in 0..k /\ (j + 1) - 1 = j /\ j + 1 \in 1..Len(name) /\ j \in 0..k
      BY ONLY <1>1, <1>3, j \in 0..k - 1, k \in 0..Len(name)
    <3>2. PICK a, b, n : a = Len(F[j]) /\ b = Len(F[j + 1]) /\ n = Len(name[j + 1])
      OBVIOUS
    <3>3. b = a + (n + 1) /\ a \in Nat /\ n \in 1..63
      BY ONLY <1>1, <1>2, <3>1, <3>2
    <3>4. a >= j
      BY <2>2, <3>2
    <3>5. b >= j + 1
      BY ONLY <3>3, <3>4, <3>1, <1>3
    <3> QED BY <3>1, <3>2, <3>5
  <2>3. 0..k \subseteq S
    <3> HIDE DEF S
    <3>1. k \in Int /\ 0 \in Int
      BY <1>3
    <3>2. \A j \in 0..k - 1 : j \in S => j + 1 \in S
      BY <2>2
    <3> QED BY ONLY <2>1, <3>1, <3>2, UpFrom
  <2> QED BY <2>3
<1> QED BY <1>2, <1>4, <1>5, <1>6 DEF Stands

\* The sections of a name, in front of what is read behind them.
LEMMA ReadLabels ==
    ASSUME NEW pkg \in Bytes, NEW R, Reads(R, pkg), NEW name \in Strings,
           NEW k \in 0..Len(name), NEW at, Stands(pkg, name, at, k), NEW left \in Nat, NEW x,
           R[left][at[k]] = Result(End(name, k + 1), x)
    PROVE  \A i \in 0..k : left + (k - i) <= Len(pkg) =>
              R[left + (k - i)][at[i]] = Result(End(name, i + 1), x)
<1> DEFINE Holds(i) ==
             left + (k - i) <= Len(pkg) =>
                R[left + (k - i)][at[i]] = Result(End(name, i + 1), x)
           S == {i \in 0..k : Holds(i)}
<1>1. Len(name) \in Nat /\ Len(pkg) \in Nat
  BY ONLY name \in Strings, pkg \in Bytes, LenProperties DEF Strings, Bytes
<1>3. k \in Nat
  BY ONLY <1>1, k \in 0..Len(name)
<1>4. ASSUME NEW i \in 0..k, \A j \in i + 1..k : j \in S PROVE i \in S
  <2>1. CASE i = k
    <3>1. left + (k - i) = left
      BY ONLY <2>1, <1>3, left \in Nat
    <3>2. Holds(i)
      BY <2>1, <3>1
    <3> QED BY <3>2
  <2>2. CASE i # k
    <3>0. i \in Nat /\ i + 1 \in 1..k /\ i + 1 \in i + 1..k /\ (i + 1) - 1 = i /\ i + 1 \in 1..Len(name)
      BY ONLY <1>1, <1>3, <2>2, i \in 0..k, k \in 0..Len(name)
    <3>1. Holds(i + 1)
      BY <1>4, <3>0
    <3>2. PICK s, q, y : s = name[i + 1] /\ q = at[i] /\ y = at[i + 1]
      OBVIOUS
    <3>3. Begins(pkg, q, s, y)
      BY ONLY <3>0, <3>2, Stands(pkg, name, at, k) DEF Stands
    <3>8. SUFFICES ASSUME left + (k - i) <= Len(pkg)
                   PROVE  R[left + (k - i)][at[i]] = Result(End(name, i + 1), x)
      BY DEF S
    <3>9. PICK m, l : m = left + (k - i) /\ l = left + (k - (i + 1))
      OBVIOUS
    <3>10. m \in 1..Len(pkg) /\ l = m - 1 /\ l <= Len(pkg)
      BY ONLY <1>1, <1>3, <3>0, <3>8, <3>9, left \in Nat
    <3>11. PICK t : t = End(name, (i + 1) + 1)
      OBVIOUS
    <3>12. R[l][y] = Result(t, x)
      BY ONLY <3>1, <3>2, <3>9, <3>10, <3>11
    <3>13. R[m][q] = Result(Cons(s, t), x)
      BY ONLY <3>3, <3>10, <3>12, ReadSection, pkg \in Bytes, Reads(R, pkg)
    <3>14. Cons(s, t) = End(name, i + 1)
      <4>1. i + 1 \in 1..Len(name) /\ Len(name) \in i + 1..Len(name)
        BY ONLY <1>1, <3>0
      <4>2. SubSeq(name, i + 1, Len(name)) = <<name[i + 1]>> \o SubSeq(name, (i + 1) + 1, Len(name))
        BY ONLY <4>1, name \in Strings, SubSeqRecursiveFirst DEF Strings
      <4> QED BY ONLY <3>2, <3>11, <4>2 DEF Cons, End
    <3> QED BY ONLY <3>2, <3>9, <3>13, <3>14
  <2> QED BY <2>1, <2>2
<1>5. 0..k \subseteq S
  <2> HIDE DEF S
  <2>1. \A i \in 0..k : (\A j \in i + 1..k : j \in S) => i \in S
    BY <1>4
  <2> QED BY ONLY <1>3, <2>1, DownFrom
<1> QED BY <1>5

\* The byte behind the sections of a name.
Ended(s) == s \o <<0>>

\* The end of a name is one byte behind its sections.
LEMMA EndedFacts ==
    ASSUME NEW s \in Bytes
    PROVE  Ended(s) \in Bytes /\ Len(Ended(s)) = Len(s) + 1 /\ Front(Ended(s)) = s
<1>1. PICK z : z = <<0>>
  OBVIOUS
<1>2. z \in Bytes /\ Len(z) = 1
  BY ONLY <1>1, OneByte
<1>3. PICK u : u = s \o z
  OBVIOUS
<1>4. PICK n \in Nat : n = Len(s)
  BY DEF Bytes
<1>5. /\ u \in Seq(Nat) /\ Len(u) = n + 1
      /\ \A i \in 1..n + 1 : u[i] = IF i <= n THEN s[i] ELSE z[i - n]
  <2>1. s \in Seq(Nat) /\ z \in Seq(Nat)
    BY ONLY <1>2, s \in Bytes DEF Bytes
  <2>2. /\ u \in Seq(Nat) /\ Len(u) = Len(s) + Len(z)
        /\ \A i \in 1..Len(s) + Len(z) : u[i] = IF i <= Len(s) THEN s[i] ELSE z[i - Len(s)]
    BY ONLY <1>3, <2>1, ConcatProperties
  <2> QED BY ONLY <1>2, <1>4, <2>2
<1>6. SubSeq(u, 1, n) = s
  <2>1. \A i \in 1..n : u[i] \in Nat
    BY ONLY <1>4, <1>5, ElementOfSeq
  <2>2. n \in Int /\ 1 \in Int
    OBVIOUS
  <2>3. PICK v : v = SubSeq(u, 1, n)
    OBVIOUS
  <2>4. /\ v \in Seq(Nat) /\ Len(v) = (IF 1 <= n THEN n - 1 + 1 ELSE 0)
        /\ \A i \in 1..n - 1 + 1 : v[i] = u[1 + i - 1]
    BY ONLY <2>1, <2>2, <2>3, SubSeqProperties
  <2>5. Len(v) = n
    BY ONLY <2>4, n \in Nat
  <2>6. ASSUME NEW i \in 1..n PROVE v[i] = s[i]
    <3>1. i \in 1..n - 1 + 1 /\ 1 + i - 1 = i /\ i \in 1..n + 1 /\ i <= n
      BY ONLY n \in Nat, i \in 1..n
    <3> QED BY ONLY <1>5, <2>4, <3>1
  <2>7. s \in Seq(Nat)
    BY DEF Bytes
  <2>8. v = s
    BY ONLY <1>4, <2>4, <2>5, <2>6, <2>7, SeqEqual
  <2> QED BY ONLY <2>3, <2>8
<1>7. Front(u) = s
  <2>1. Len(u) - 1 = n
    BY ONLY <1>5, n \in Nat
  <2> QED BY ONLY <1>6, <2>1 DEF Front
<1> QED BY ONLY <1>1, <1>3, <1>4, <1>5, <1>7 DEF Ended, Bytes

\* A name that stands in a package with its end: its sections, and a zero behind them.
LEMMA AtEnded ==
    ASSUME NEW pkg \in Bytes, NEW p \in Nat, NEW s \in Bytes, At(pkg, p, Ended(s)),
           NEW q, q = p + Len(s)
    PROVE  At(pkg, p, s) /\ Ends(pkg, q, q + 1)
<1>1. PICK z : z = <<0>>
  OBVIOUS
<1>2. z \in Bytes /\ Len(z) = 1 /\ z[1] = 0
  BY ONLY <1>1, OneByte
<1>3. At(pkg, p, s \o z)
  BY <1>1 DEF Ended
<1>4. At(pkg, p, s) /\ At(pkg, q, z)
  BY ONLY <1>2, <1>3, AtConcat, pkg \in Bytes, p \in Nat, s \in Bytes, q = p + Len(s)
<1>5. q + 1 <= Len(pkg) /\ pkg[q + 1] = 0
  BY ONLY <1>2, <1>4 DEF At
<1>6. q \in Nat
  <2>1. Len(s) \in Nat
    BY DEF Bytes
  <2> QED BY <2>1
<1> QED BY ONLY <1>4, <1>5, <1>6 DEF Ends

\* The first sections of a name, as it is written.
LEMMA PlainFacts ==
    ASSUME NEW name \in Strings, NEW F, IsFlat(F, Labels(name)), NEW k \in 0..Len(name)
    PROVE  /\ F[k] \in Bytes
           /\ Plain(SubSeq(name, 1, k)) = Ended(F[k])
           /\ k = Len(name) => Plain(name) = Ended(F[k])
<1>1. Len(name) \in Nat
  BY DEF Strings
<1>2. PICK n : n = SubSeq(name, 1, k)
  OBVIOUS
<1>3. n \in Strings /\ Len(n) = k /\ \A i \in 1..k : n[i] = name[i]
  <2>1. \A i \in 1..k : name[i] \in Bytes
    BY ONLY <1>1, k \in 0..Len(name), name \in Strings, ElementOfSeq DEF Strings
  <2>2. k \in Int /\ 1 \in Int /\ k \in Nat
    BY ONLY <1>1, k \in 0..Len(name)
  <2>3. /\ n \in Seq(Bytes) /\ Len(n) = (IF 1 <= k THEN k - 1 + 1 ELSE 0)
        /\ \A i \in 1..k - 1 + 1 : n[i] = name[1 + i - 1]
    BY ONLY <1>2, <2>1, <2>2, SubSeqProperties
  <2>4. Len(n) = k
    BY ONLY <2>2, <2>3
  <2>5. \A i \in 1..k : i \in 1..k - 1 + 1 /\ 1 + i - 1 = i
    BY ONLY <2>2
  <2> QED BY ONLY <2>3, <2>4, <2>5 DEF Strings
<1>4. PICK tt, ss : tt = Labels(n) /\ ss = Labels(name)
  OBVIOUS
<1>5. tt \in Strings /\ Len(tt) = k /\ \A i \in 1..k : tt[i] = Label(n[i])
  BY ONLY <1>3, <1>4, LabelsFacts
<1>6. ss \in Strings /\ Len(ss) = Len(name) /\ \A i \in 1..Len(name) : ss[i] = Label(name[i])
  BY ONLY <1>4, LabelsFacts, name \in Strings
<1>7. Len(tt) <= Len(ss) /\ \A i \in 1..Len(tt) : tt[i] = ss[i]
  <2>1. Len(tt) <= Len(ss)
    BY ONLY <1>1, <1>5, <1>6, k \in 0..Len(name)
  <2>2. ASSUME NEW i \in 1..k PROVE tt[i] = ss[i]
    <3>1. i \in 1..Len(name)
      BY ONLY <1>1, i \in 1..k, k \in 0..Len(name)
    <3> QED BY ONLY <1>3, <1>5, <1>6, <3>1, i \in 1..k
  <2> QED BY ONLY <1>5, <2>1, <2>2
<1>8. IsFlat(F, ss)
  BY <1>4
<1>9. FlattenSeq(tt) = F[k]
  BY ONLY <1>5, <1>6, <1>7, <1>8, FlatValue
<1>10. Plain(n) = Ended(F[k])
  BY ONLY <1>4, <1>9 DEF Plain, Labels, Label, Ended
<1>11. F[k] \in Bytes
  BY ONLY <1>6, <1>8, k \in 0..Len(name) DEF IsFlat
<1>12. k = Len(name) => n = name
  BY ONLY <1>2, name \in Strings, SubSeqFull DEF Strings
<1> QED BY ONLY <1>2, <1>10, <1>11, <1>12

\* A name that stands in a package is read from each of its sections on.
LEMMA ReadPlain ==
    ASSUME NEW pkg \in Bytes, NEW R, Reads(R, pkg), NEW p \in Nat,
           NEW name \in Strings, Legal(name), NEW F, IsFlat(F, Labels(name)),
           At(pkg, p, Plain(name)), NEW i \in 0..Len(name), NEW off, off = p + Len(F[i]),
           NEW left \in Nat, left <= Len(pkg), Len(name) + 1 - i <= left,
           NEW x, x = p + Len(F[Len(name)]) + 1
    PROVE  R[left][off] = Result(End(name, i + 1), x)
<1>1. PICK k : k = Len(name)
  OBVIOUS
<1>2. k \in Nat /\ k \in 0..Len(name) /\ i \in 0..k
  BY <1>1 DEF Strings
<1>3. PICK f : f = F[k]
  OBVIOUS
<1>4. f \in Bytes /\ Plain(name) = Ended(f)
  BY ONLY <1>1, <1>2, <1>3, PlainFacts, name \in Strings, IsFlat(F, Labels(name))
<1>5. PICK q : q = p + Len(f)
  OBVIOUS
<1>6. At(pkg, p, Ended(f))
  BY <1>4
<1>7. At(pkg, p, f) /\ Ends(pkg, q, q + 1)
  BY ONLY <1>4, <1>5, <1>6, AtEnded, pkg \in Bytes, p \in Nat
<1> DEFINE at == [j \in 0..k |-> p + Len(F[j])]
<1>8. Stands(pkg, name, at, k)
  <2>1. At(pkg, p, F[k])
    BY <1>3, <1>7
  <2> QED BY ONLY <1>2, <2>1, LabelsStand, pkg \in Bytes, p \in Nat, name \in Strings,
                  Legal(name), IsFlat(F, Labels(name))
<1>9. at[k] = q /\ at[i] = off /\ x = q + 1
  BY ONLY <1>1, <1>2, <1>3, <1>5, off = p + Len(F[i]), x = p + Len(F[Len(name)]) + 1
<1> HIDE DEF at
<1>10. PICK l : l = left - (k - i)
  OBVIOUS
<1>11. Len(pkg) \in Nat
  BY DEF Bytes
<1>12. l \in Nat /\ l \in 1..Len(pkg) /\ l + (k - i) = left
  BY ONLY <1>1, <1>2, <1>10, <1>11, left \in Nat, left <= Len(pkg), Len(name) + 1 - i <= left
<1>13. R[l][q] = Result(<<>>, x)
  BY ONLY <1>7, <1>9, <1>12, ReadEnd, pkg \in Bytes, Reads(R, pkg)
<1>14. End(name, k + 1) = <<>>
  <2>1. k + 1 \in Int /\ k \in Int /\ k < k + 1
    BY ONLY <1>2
  <2> QED BY ONLY <1>1, <2>1, SubSeqEmpty DEF End
<1>15. R[l][at[k]] = Result(End(name, k + 1), x)
  BY ONLY <1>9, <1>13, <1>14
<1>16. \A j \in 0..k : l + (k - j) <= Len(pkg) =>
          R[l + (k - j)][at[j]] = Result(End(name, j + 1), x)
  BY ONLY <1>2, <1>8, <1>12, <1>15, ReadLabels, pkg \in Bytes, Reads(R, pkg), name \in Strings
<1>17. R[l + (k - i)][at[i]] = Result(End(name, i + 1), x)
  BY ONLY <1>2, <1>12, <1>16, left <= Len(pkg)
<1> QED BY ONLY <1>9, <1>12, <1>17

\* The word that points to an offset.
IsPointer(n, off) == off \in 0..2^14 - 1 /\ n = 49152 + off

\* A pointer that stands in a package.
LEMMA AtPointer ==
    ASSUME NEW pkg \in Bytes, NEW p \in Nat, NEW off, NEW n, IsPointer(n, off),
           At(pkg, p, Word(n)), NEW y, y = p + 2
    PROVE  Points(pkg, p, off, y)
<1>0. off \in 0..2^14 - 1 /\ n = 49152 + off
  BY DEF IsPointer
<1>1. n \in Nat
  BY ONLY <1>0
<1>2. /\ BuffRead(pkg, p, 2) = n /\ p + 2 <= Len(pkg)
      /\ \E a, b \in Nat : pkg[p + 1] = a /\ 256 * a + b = n /\ b < 256
  BY ONLY <1>1, AtWord, pkg \in Bytes, p \in Nat, At(pkg, p, Word(n))
<1>3. n % 2^14 = off
  BY ONLY <1>0
<1>4. pkg[p + 1] \in Nat /\ pkg[p + 1] >= 192
  <2>1. PICK a \in Nat, b \in Nat : pkg[p + 1] = a /\ 256 * a + b = n /\ b < 256
    BY ONLY <1>1, <1>2, p \in Nat
  <2>2. a >= 192
    <3>1. 256 * a + b = n /\ b < 256
      BY ONLY <2>1
    <3>2. off >= 0 /\ off \in Int
      BY ONLY <1>0
    <3>3. n >= 49152
      BY ONLY <3>2, <1>0
    <3> QED BY ONLY <1>1, <3>1, <3>3, a \in Nat, b \in Nat
  <2> QED BY ONLY <2>1, <2>2
<1> QED BY ONLY <1>2, <1>0, <1>3, <1>4, p \in Nat, y = p + 2 DEF Points

\* Sections and the pointer behind them.
Pointed(s, off) == s \o Word(49152 + off)

\* What a compressed name is: the whole name, or sections and a pointer to the rest.
LEMMA CompressedFacts ==
    ASSUME NEW name \in Strings, NEW known \in Strings,
           NEW F, IsFlat(F, Labels(name)), NEW G, IsFlat(G, Labels(known))
    PROVE  \/ Compressed(name, known) = Plain(name)
           \/ \E k, j \in Nat :
                 /\ k \in 0..Len(name) - 1 /\ j \in 0..Len(known) - 1
                 /\ End(name, k + 1) = End(known, j + 1)
                 /\ Compressed(name, known) = Pointed(F[k], 12 + Len(G[j]))
<1>1. /\ Len(name) \in Nat /\ DOMAIN name = 1..Len(name)
      /\ Len(known) \in Nat /\ DOMAIN known = 1..Len(known)
  BY DEF Strings
<1> DEFINE common == {p \in (DOMAIN name) \X (DOMAIN known) :
                        SubSeq(name, p[1], Len(name)) = SubSeq(known, p[2], Len(known))}
           first == CHOOSE p \in common : \A q \in common : p[1] <= q[1]
<1>2. CASE common = {}
  BY <1>2 DEF Compressed
<1>3. CASE common # {}
  <2> DEFINE T == {p[1] : p \in common}
  <2>1. T \subseteq Nat /\ T # {}
    <3>1. \A p \in common : p[1] \in 1..Len(name)
      BY ONLY <1>1
    <3>2. 1..Len(name) \subseteq Nat
      BY <1>1
    <3>3. \A y \in T : \E p \in common : y = p[1]
      OBVIOUS
    <3>4. T # {}
      <4> HIDE DEF common
      <4> QED BY <1>3
    <3> HIDE DEF common, T
    <3> QED BY ONLY <3>1, <3>2, <3>3, <3>4
  <2>2. PICK m \in T : \A y \in T : m <= y
    <3> HIDE DEF T
    <3> QED BY ONLY <2>1, Least
  <2>3. PICK p0 \in common : p0[1] = m
    BY <2>2
  <2>4. \A q \in common : p0[1] <= q[1]
    <3>1. \A q \in common : q[1] \in T
      OBVIOUS
    <3> QED BY ONLY <2>2, <2>3, <3>1
  <2>5. first \in common
    <3>1. \E p \in common : \A q \in common : p[1] <= q[1]
      <4> HIDE DEF common
      <4> QED BY ONLY <2>3, <2>4
    <3> HIDE DEF common
    <3> QED BY ONLY <3>1
  <2>6. Compressed(name, known) =
           Front(Plain(SubSeq(name, 1, first[1] - 1)))
              \o Word(192 * 256 + 11 + Len(Plain(SubSeq(known, 1, first[2] - 1))))
    BY ONLY <1>3, Zenon DEF Compressed
  <2>7. /\ first[1] \in 1..Len(name) /\ first[2] \in 1..Len(known)
        /\ SubSeq(name, first[1], Len(name)) = SubSeq(known, first[2], Len(known))
    <3> HIDE DEF first
    <3> QED BY ONLY <1>1, <2>5
  <2> HIDE DEF first, common
  <2>8. PICK k, j : k = first[1] - 1 /\ j = first[2] - 1
    OBVIOUS
  <2>9. /\ k \in Nat /\ k \in 0..Len(name) - 1 /\ k \in 0..Len(name) /\ k + 1 = first[1]
        /\ j \in Nat /\ j \in 0..Len(known) - 1 /\ j \in 0..Len(known) /\ j + 1 = first[2]
    <3>1. PICK x, y : x = first[1] /\ y = first[2]
      OBVIOUS
    <3>2. x \in 1..Len(name) /\ y \in 1..Len(known) /\ k = x - 1 /\ j = y - 1
      BY ONLY <2>7, <2>8, <3>1
    <3>3. k \in Nat /\ k \in 0..Len(name) - 1 /\ k \in 0..Len(name) /\ k + 1 = x
      BY ONLY <1>1, <3>2
    <3>4. j \in Nat /\ j \in 0..Len(known) - 1 /\ j \in 0..Len(known) /\ j + 1 = y
      BY ONLY <1>1, <3>2
    <3> QED BY ONLY <3>1, <3>3, <3>4
  <2>10. F[k] \in Bytes /\ Plain(SubSeq(name, 1, k)) = Ended(F[k])
    BY ONLY <2>9, PlainFacts, name \in Strings, IsFlat(F, Labels(name))
  <2>11. G[j] \in Bytes /\ Plain(SubSeq(known, 1, j)) = Ended(G[j])
    BY ONLY <2>9, PlainFacts, known \in Strings, IsFlat(G, Labels(known))
  <2>12. Front(Plain(SubSeq(name, 1, k))) = F[k]
    BY ONLY <2>10, EndedFacts
  <2>13. Len(Plain(SubSeq(known, 1, j))) = Len(G[j]) + 1 /\ Len(G[j]) \in Nat
    BY ONLY <2>11, EndedFacts, LenProperties DEF Bytes
  <2>14. PICK n \in Nat : n = Len(G[j])
    BY <2>13
  <2>15. 192 * 256 + 11 + Len(Plain(SubSeq(known, 1, j))) = 49152 + (12 + n)
    <3>1. Len(Plain(SubSeq(known, 1, j))) = n + 1
      BY ONLY <2>13, <2>14
    <3> QED BY ONLY <3>1, n \in Nat
  <2>16. Compressed(name, known) = Pointed(F[k], 12 + n)
    <3>1. Compressed(name, known) =
             Front(Plain(SubSeq(name, 1, k)))
                \o Word(192 * 256 + 11 + Len(Plain(SubSeq(known, 1, j))))
      BY ONLY <2>6, <2>8
    <3>2. PICK w : w = 192 * 256 + 11 + Len(Plain(SubSeq(known, 1, j)))
      OBVIOUS
    <3>3. Compressed(name, known) = F[k] \o Word(w)
      BY ONLY <3>1, <3>2, <2>12
    <3>4. w = 49152 + (12 + n)
      BY ONLY <3>2, <2>15
    <3> QED BY ONLY <3>3, <3>4 DEF Pointed
  <2>17. End(name, k + 1) = End(known, j + 1)
    BY ONLY <2>7, <2>9 DEF End
  <2> QED BY ONLY <2>9, <2>14, <2>16, <2>17
<1> QED BY <1>2, <1>3

\* A word is two bytes.
LEMMA WordBytes ==
    ASSUME NEW n \in Nat
    PROVE  Word(n) \in Bytes /\ Len(Word(n)) = 2
<1>1. PICK a \in Nat, b \in Nat : Word(n) = <<a, b>>
  BY WordFacts
<1>2. <<a, b>> \in Seq(Nat) /\ Len(<<a, b>>) = 2
  OBVIOUS
<1> QED BY ONLY <1>1, <1>2 DEF Bytes

\* The sections s and a pointer stand at p: the pointer at q, what follows at y.
PointedAt(pkg, p, s, off, q, y, a) ==
    /\ At(pkg, p, Pointed(s, off))
    /\ off \in 0..2^14 - 1 /\ a = Len(s) /\ q = p + a /\ y = q + 2

\* A name that ends in a pointer: its sections, and the pointer behind them.
LEMMA AtPointed ==
    ASSUME NEW pkg \in Bytes, NEW p \in Nat, NEW s \in Bytes, NEW off,
           NEW q, NEW y, NEW a, PointedAt(pkg, p, s, off, q, y, a)
    PROVE  At(pkg, p, s) /\ Points(pkg, q, off, y) /\ Len(Pointed(s, off)) = a + 2
<1> /\ At(pkg, p, Pointed(s, off))
    /\ off \in 0..2^14 - 1 /\ a = Len(s) /\ q = p + Len(s) /\ y = q + 2
  BY DEF PointedAt
<1>0. PICK n \in Nat : n = 49152 + off
  OBVIOUS
<1>1. PICK z : z = Word(n)
  OBVIOUS
<1>2. z \in Bytes /\ Len(z) = 2
  BY ONLY <1>1, n \in Nat, WordBytes
<1>3. Pointed(s, off) = s \o z
  BY ONLY <1>0, <1>1 DEF Pointed
<1>4. At(pkg, p, s \o z)
  BY ONLY <1>3, At(pkg, p, Pointed(s, off))
<1>5. At(pkg, p, s) /\ At(pkg, q, z)
  BY ONLY <1>2, <1>4, AtConcat, pkg \in Bytes, p \in Nat, s \in Bytes, q = p + Len(s)
<1>6. q \in Nat
  <2>1. Len(s) \in Nat
    BY DEF Bytes
  <2> QED BY ONLY <2>1, q = p + Len(s), p \in Nat
<1>7. At(pkg, q, Word(n))
  BY ONLY <1>1, <1>5
<1>8. Points(pkg, q, off, y)
  <2>1. IsPointer(n, off)
    BY <1>0 DEF IsPointer
  <2> QED BY ONLY <1>6, <1>7, <2>1, AtPointer, pkg \in Bytes, y = q + 2
<1>9. Len(s \o z) = Len(s) + 2
  <2>1. Len(s \o z) = Len(s) + Len(z)
    <3>1. z \in Bytes
      BY ONLY <1>2
    <3> QED BY ONLY <3>1, ConcatType, s \in Bytes
  <2> QED BY ONLY <1>2, <2>1
<1> QED BY ONLY <1>3, <1>5, <1>8, <1>9, a = Len(s)

\* A name as a server writes it.
NameBytes(n, known, compress) == IF compress THEN Compressed(n, known) ELSE Plain(n)

\* A name as it is written into a package behind the question.
NameIn(pkg, known, compress, n, p) ==
    /\ n \in Strings /\ Legal(n) /\ n # <<>>
    /\ p \in Nat /\ p >= 12 + Len(Plain(known))
    /\ At(pkg, p, NameBytes(n, known, compress))

\* The name of the question, to which others point.
QuestionIn(pkg, known) ==
    /\ known \in Strings /\ Legal(known) /\ known # <<>>
    /\ Len(Plain(known)) <= 255
    /\ At(pkg, 12, Plain(known))

\* A name written out is read.
LEMMA PlainNameRead ==
    ASSUME NEW pkg \in Bytes, NEW n \in Strings, Legal(n), n # <<>>, NEW p \in Nat,
           At(pkg, p, Plain(n))
    PROVE  ReadQdn(pkg, p) = Result(n, p + Len(Plain(n)))
<1>1. PICK R : Reads(R, pkg) /\ \A at : ReadQdn(pkg, at) = {r \in R[Len(pkg)][at] : r.name # <<>>}
  BY ReadsValue
<1>2. PICK ss : ss = Labels(n)
  OBVIOUS
<1>3. ss \in Strings /\ Len(ss) = Len(n)
  BY ONLY <1>2, LabelsFacts, n \in Strings
<1>4. PICK F : IsFlat(F, Labels(n))
  BY ONLY <1>2, <1>3, FlatExists
<1>5. PICK k \in Nat : k = Len(n)
  BY DEF Strings
<1>6. PICK f : f = F[k]
  OBVIOUS
<1>7. f \in Bytes /\ Plain(n) = Ended(f)
  <2>1. k \in 0..Len(n)
    BY ONLY <1>5, k \in Nat
  <2> QED BY ONLY <1>4, <1>5, <1>6, <2>1, PlainFacts, n \in Strings
<1>8. At(pkg, p, f)
  <2>1. At(pkg, p, Ended(f))
    BY ONLY <1>7, At(pkg, p, Plain(n))
  <2>2. PICK q : q = p + Len(f)
    OBVIOUS
  <2> QED BY ONLY <1>7, <2>1, <2>2, AtEnded, pkg \in Bytes, p \in Nat
<1>9. PICK a \in Nat : a = Len(f)
  BY ONLY <1>7, LenProperties DEF Bytes
<1>10. PICK N \in Nat : N = Len(pkg)
  BY DEF Bytes
<1>11. a >= k
  <2>1. At(pkg, p, F[k]) /\ k \in 0..Len(n) /\ k \in 0..k
    BY ONLY <1>5, <1>6, <1>8, k \in Nat
  <2>2. \A i \in 0..k : Len(F[i]) \in Nat /\ Len(F[i]) >= i
    BY ONLY <1>4, <2>1, LabelsStand, pkg \in Bytes, p \in Nat, n \in Strings, Legal(n)
  <2> QED BY ONLY <1>6, <1>9, <2>1, <2>2
<1>12. Len(Plain(n)) = a + 1
  BY ONLY <1>7, <1>9, EndedFacts
<1>13. p + (a + 1) <= N
  BY ONLY <1>10, <1>12, At(pkg, p, Plain(n)) DEF At
<1>14. PICK x : x = p + a + 1
  OBVIOUS
<1>15. F[0] = <<>> /\ Len(<<>>) = 0 /\ p + 0 = p
  BY ONLY <1>4, p \in Nat, EmptySeq DEF IsFlat
<1>16. R[N][p] = Result(End(n, 0 + 1), x)
  <2>1. 0 \in 0..Len(n) /\ p = p + Len(F[0]) /\ N <= Len(pkg) /\ Len(n) + 1 - 0 <= N
    BY ONLY <1>5, <1>10, <1>11, <1>13, <1>15, k \in Nat, a \in Nat, N \in Nat, p \in Nat
  <2>2. x = p + Len(F[Len(n)]) + 1
    BY ONLY <1>5, <1>6, <1>9, <1>14
  <2> QED BY ONLY <1>1, <1>4, <2>1, <2>2, ReadPlain, pkg \in Bytes, p \in Nat, n \in Strings,
                  Legal(n), At(pkg, p, Plain(n)), N \in Nat
<1>17. End(n, 0 + 1) = n
  <2>1. 0 + 1 = 1
    OBVIOUS
  <2> QED BY ONLY <2>1, n \in Strings, SubSeqFull DEF Strings, End
<1>18. x = p + Len(Plain(n))
  BY ONLY <1>12, <1>14, a \in Nat, p \in Nat
<1>19. ReadQdn(pkg, p) = {r \in Result(n, x) : r.name # <<>>}
  BY ONLY <1>1, <1>10, <1>16, <1>17
<1>20. {r \in Result(n, x) : r.name # <<>>} = Result(n, x)
  BY ONLY n # <<>> DEF Result
<1> QED BY ONLY <1>18, <1>19, <1>20

\* Every section has a byte at least.
LEMMA FlatGrows ==
    ASSUME NEW name \in Strings, NEW F, IsFlat(F, Labels(name)), NEW k, k = Len(name)
    PROVE  \A i \in 0..k : Len(F[i]) \in Nat /\ Len(F[i]) + (k - i) <= Len(F[k])
<1>1. PICK ss : ss = Labels(name)
  OBVIOUS
<1>2. /\ Len(ss) = k /\ k \in Nat
      /\ \A i \in 1..k : ss[i] \in Bytes /\ Len(ss[i]) \in Nat /\ Len(ss[i]) >= 1
  <2>1. Len(name) \in Nat
    BY DEF Strings
  <2>2. /\ Len(ss) = Len(name) /\ ss \in Strings
        /\ \A i \in 1..Len(name) : Len(name[i]) \in Nat /\ Len(ss[i]) = Len(name[i]) + 1
    BY ONLY <1>1, LabelsFacts, name \in Strings
  <2>3. \A i \in 1..Len(name) : ss[i] \in Bytes
    BY ONLY <2>2, ElementOfSeq DEF Strings
  <2>4. ASSUME NEW i \in 1..k PROVE Len(ss[i]) \in Nat /\ Len(ss[i]) >= 1
    <3>1. PICK a \in Nat : a = Len(name[i])
      BY ONLY <2>2, i \in 1..k, k = Len(name)
    <3>2. Len(ss[i]) = a + 1
      BY ONLY <2>2, <3>1, i \in 1..k, k = Len(name)
    <3> QED BY ONLY <3>2, a \in Nat
  <2> QED BY ONLY <2>1, <2>2, <2>3, <2>4, k = Len(name)
<1>3. IsFlat(F, ss)
  BY <1>1
<1>4. ASSUME NEW i \in 0..k PROVE F[i] \in Bytes /\ Len(F[i]) \in Nat
  <2>1. F[i] \in Bytes
    BY ONLY <1>2, <1>3, i \in 0..k DEF IsFlat
  <2> QED BY ONLY <2>1, LenProperties DEF Bytes
<1> DEFINE S == {i \in 0..k : Len(F[i]) + (k - i) <= Len(F[k])}
<1>5. ASSUME NEW i \in 0..k, \A j \in i + 1..k : j \in S PROVE i \in S
  <2>1. CASE i = k
    <3>1. PICK a \in Nat : a = Len(F[k])
      BY ONLY <1>4, <2>1, i \in 0..k
    <3>2. Len(F[i]) + (k - i) <= Len(F[k])
      BY ONLY <1>2, <2>1, <3>1
    <3> QED BY <3>2
  <2>2. CASE i # k
    <3>0. i \in Nat /\ i + 1 \in 1..k /\ i + 1 \in i + 1..k /\ (i + 1) - 1 = i /\ k \in 0..k /\ i + 1 \in 0..k
      BY ONLY <1>2, <2>2, i \in 0..k
    <3>1. Len(F[i + 1]) + (k - (i + 1)) <= Len(F[k])
      BY <1>5, <3>0
    <3>2. F[i + 1] = F[i] \o ss[i + 1] /\ F[i] \in Bytes /\ ss[i + 1] \in Bytes
      <4>1. F[i + 1] = F[(i + 1) - 1] \o ss[i + 1]
        BY ONLY <1>2, <1>3, <3>0 DEF IsFlat
      <4>2. F[i + 1] = F[i] \o ss[i + 1]
        BY ONLY <3>0, <4>1
      <4> QED BY ONLY <1>2, <1>4, <3>0, <4>2, i \in 0..k
    <3>3. Len(F[i + 1]) = Len(F[i]) + Len(ss[i + 1])
      BY ONLY <3>2, ConcatType
    <3>4. PICK a \in Nat, b \in Nat, c \in Nat, d \in Nat :
             a = Len(F[i]) /\ b = Len(F[i + 1]) /\ c = Len(F[k]) /\ d = Len(ss[i + 1])
      <4>1. Len(F[i]) \in Nat /\ Len(F[i + 1]) \in Nat /\ Len(F[k]) \in Nat /\ Len(ss[i + 1]) \in Nat
        BY ONLY <1>2, <1>4, <3>0, i \in 0..k
      <4> QED BY <4>1
    <3>5. b + (k - (i + 1)) <= c /\ b = a + d /\ d >= 1
      BY ONLY <1>2, <3>0, <3>1, <3>3, <3>4
    <3>6. a + (k - i) <= c
      BY ONLY <1>2, <3>0, <3>5, a \in Nat, b \in Nat, c \in Nat, d \in Nat
    <3> QED BY <3>4, <3>6
  <2> QED BY <2>1, <2>2
<1>6. 0..k \subseteq S
  <2> HIDE DEF S
  <2>1. \A i \in 0..k : (\A j \in i + 1..k : j \in S) => i \in S
    BY <1>5
  <2> QED BY ONLY <1>2, <2>1, DownFrom
<1> QED BY <1>4, <1>6

\* Behind which sections a name goes on as the name of the question.
Joins(n, known, F, G, k, j) ==
    /\ IsFlat(F, Labels(n)) /\ IsFlat(G, Labels(known))
    /\ k \in Nat /\ k \in 0..Len(n) - 1 /\ j \in Nat /\ j \in 0..Len(known) - 1
    /\ End(n, k + 1) = End(known, j + 1)

\* A name that ends in a pointer is read.
LEMMA PointedNameRead ==
    ASSUME NEW pkg \in Bytes, NEW known, QuestionIn(pkg, known),
           NEW n \in Strings, Legal(n), n # <<>>, NEW p \in Nat, p >= 12 + Len(Plain(known)),
           NEW F, NEW G, NEW k, NEW j, Joins(n, known, F, G, k, j),
           NEW off, off = 12 + Len(G[j]), At(pkg, p, Pointed(F[k], off))
    PROVE  ReadQdn(pkg, p) = Result(n, p + Len(Pointed(F[k], off)))
<1>1. PICK R : Reads(R, pkg) /\ \A at : ReadQdn(pkg, at) = {r \in R[Len(pkg)][at] : r.name # <<>>}
  BY ReadsValue
<1>2. /\ IsFlat(F, Labels(n)) /\ IsFlat(G, Labels(known))
      /\ k \in Nat /\ k \in 0..Len(n) - 1 /\ j \in Nat /\ j \in 0..Len(known) - 1
      /\ End(n, k + 1) = End(known, j + 1)
  BY DEF Joins
<1>3. /\ known \in Strings /\ Legal(known) /\ Len(Plain(known)) <= 255
      /\ At(pkg, 12, Plain(known))
  BY DEF QuestionIn
<1>4. PICK m \in Nat, h \in Nat : m = Len(known) /\ h = Len(n)
  <2>1. Len(known) \in Nat /\ Len(n) \in Nat
    BY ONLY <1>3, n \in Strings, LenProperties DEF Strings
  <2> QED BY <2>1
<1>5. k \in 0..h /\ k < h /\ j \in 0..m /\ j < m /\ 0 \in 0..h /\ 0 \in 0..k
  BY ONLY <1>2, <1>4
<1>6. PICK f : f = F[k]
  OBVIOUS
<1>7. f \in Bytes
  BY ONLY <1>2, <1>4, <1>5, <1>6, PlainFacts, n \in Strings
<1>8. G[m] \in Bytes /\ Plain(known) = Ended(G[m])
  <2>1. m \in 0..m
    BY m \in Nat
  <2> QED BY ONLY <1>2, <1>3, <1>4, <2>1, PlainFacts
<1>9. PICK a \in Nat, b \in Nat, c \in Nat :
         a = Len(f) /\ b = Len(G[j]) /\ c = Len(G[m]) /\ b + (m - j) <= c
  <2>1. Len(f) \in Nat /\ Len(G[m]) \in Nat
    BY ONLY <1>7, <1>8, LenProperties DEF Bytes
  <2>2. Len(G[j]) \in Nat /\ Len(G[j]) + (m - j) <= Len(G[m])
    BY ONLY <1>2, <1>3, <1>4, <1>5, FlatGrows
  <2> QED BY ONLY <2>1, <2>2
<1>10. Len(Plain(known)) = c + 1
  BY ONLY <1>8, <1>9, EndedFacts
<1>11. off = 12 + b /\ b < c /\ c + 1 <= 255
  <2>1. off = 12 + b
    BY ONLY <1>9, off = 12 + Len(G[j])
  <2>2. b < c
    BY ONLY <1>9, <1>5, b \in Nat, c \in Nat, m \in Nat, j \in 0..m
  <2> QED BY ONLY <1>3, <1>10, <2>1, <2>2
<1>12. off \in 0..2^14 - 1 /\ off \in Nat
  BY ONLY <1>11, b \in Nat, c \in Nat
<1>13. PICK q : q = p + Len(f)
  OBVIOUS
<1>24. PICK y : y = q + 2
  OBVIOUS
<1>14. At(pkg, p, f) /\ Points(pkg, q, off, y) /\ Len(Pointed(f, off)) = a + 2
  <2>1. At(pkg, p, Pointed(f, off))
    BY ONLY <1>6, At(pkg, p, Pointed(F[k], off))
  <2>2. PointedAt(pkg, p, f, off, q, y, a)
    BY ONLY <1>9, <1>12, <1>13, <1>24, <2>1 DEF PointedAt
  <2> QED BY ONLY <1>7, <2>2, AtPointed, pkg \in Bytes, p \in Nat
<1> DEFINE at == [i \in 0..k |-> p + Len(F[i])]
<1>15. Stands(pkg, n, at, k) /\ \A i \in 0..k : Len(F[i]) \in Nat /\ Len(F[i]) >= i
  <2>1. At(pkg, p, F[k])
    BY ONLY <1>6, <1>14
  <2> QED BY ONLY <1>2, <1>4, <1>5, <2>1, LabelsStand, pkg \in Bytes, p \in Nat, n \in Strings, Legal(n)
<1>16. at[k] = q /\ at[0] = p
  <2>1. k \in 0..k
    BY ONLY <1>2
  <2>2. at[k] = q
    BY ONLY <2>1, <1>6, <1>13
  <2>3. F[0] = <<>> /\ Len(<<>>) = 0 /\ p + 0 = p
    BY ONLY <1>2, p \in Nat, EmptySeq DEF IsFlat
  <2>4. at[0] = p
    BY ONLY <1>5, <2>3
  <2> QED BY <2>2, <2>4
<1> HIDE DEF at
<1>17. PICK N \in Nat : N = Len(pkg)
  BY DEF Bytes
<1>18. a >= k /\ c >= m
  <2>1. Len(F[k]) >= k
    <3>1. k \in 0..k
      BY ONLY <1>2
    <3> QED BY ONLY <1>15, <3>1
  <2>2. Len(G[0]) \in Nat /\ Len(G[0]) + (m - 0) <= Len(G[m])
    <3>1. 0 \in 0..m
      BY m \in Nat
    <3> QED BY ONLY <1>2, <1>3, <1>4, <3>1, FlatGrows
  <2>3. c >= m
    <3>1. PICK d \in Nat : d = Len(G[0])
      BY ONLY <2>2
    <3>2. d + (m - 0) <= c
      BY ONLY <1>9, <2>2, <3>1
    <3> QED BY ONLY <3>2, d \in Nat, m \in Nat, c \in Nat
  <2> QED BY ONLY <1>6, <1>9, <2>1, <2>3
<1>19. p + a + 2 <= N /\ p >= 12 + (c + 1)
  <2>1. q + 2 <= Len(pkg)
    BY ONLY <1>14, <1>24 DEF Points
  <2> QED BY ONLY <1>9, <1>10, <1>13, <1>17, <2>1, p >= 12 + Len(Plain(known))
<1>20. PICK l, l0 : l = N - k /\ l0 = l - 1
  OBVIOUS
<1>21. /\ l \in Nat /\ l \in 1..Len(pkg) /\ l0 \in Nat /\ l0 <= Len(pkg) /\ m + 1 - j <= l0
       /\ l + (k - 0) = N /\ N <= Len(pkg)
  <2>1. N - k >= p + 2 /\ p >= 12 + (m + 1)
    BY ONLY <1>2, <1>18, <1>19, N \in Nat, a \in Nat, p \in Nat, c \in Nat, m \in Nat
  <2> QED BY ONLY <1>2, <1>17, <1>20, <2>1, N \in Nat, p \in Nat, m \in Nat
<1>22. PICK x0 : x0 = 12 + Len(G[Len(known)]) + 1
  OBVIOUS
<1>23. R[l0][off] = Result(End(known, j + 1), x0)
  <2>1. PICK p0 \in Nat : p0 = 12
    OBVIOUS
  <2>2. /\ off = p0 + Len(G[j]) /\ x0 = p0 + Len(G[Len(known)]) + 1
        /\ j \in 0..Len(known) /\ Len(known) + 1 - j <= l0 /\ l0 <= Len(pkg)
    BY ONLY <1>4, <1>5, <1>21, <1>22, <2>1, off = 12 + Len(G[j])
  <2>3. known \in Strings /\ Legal(known) /\ At(pkg, p0, Plain(known))
    BY ONLY <1>3, <2>1
  <2>4. IsFlat(G, Labels(known)) /\ Reads(R, pkg) /\ l0 \in Nat
    BY ONLY <1>1, <1>2, <1>21
  <2> QED BY ONLY <2>2, <2>3, <2>4, ReadPlain, pkg \in Bytes, p0 \in Nat
<1>25. R[l][q] = Result(End(n, k + 1), y)
  <2>1. Points(pkg, q, off, y) /\ R[l0][off] = Result(End(n, k + 1), x0) /\ l0 = l - 1
    BY ONLY <1>2, <1>14, <1>20, <1>23, <1>24
  <2>2. l \in 1..Len(pkg)
    BY ONLY <1>21
  <2> QED BY ONLY <1>1, <2>1, <2>2, ReadPointer, pkg \in Bytes
<1>26. R[N][p] = Result(End(n, 0 + 1), y)
  <2>1. R[l][at[k]] = Result(End(n, k + 1), y)
    BY ONLY <1>16, <1>25
  <2>2. \A i \in 0..k : l + (k - i) <= Len(pkg) =>
          R[l + (k - i)][at[i]] = Result(End(n, i + 1), y)
    <3>1. l \in Nat /\ k \in 0..Len(n) /\ Stands(pkg, n, at, k) /\ Reads(R, pkg)
      BY ONLY <1>1, <1>4, <1>5, <1>15, <1>21
    <3> QED BY ONLY <3>1, <2>1, ReadLabels, pkg \in Bytes, n \in Strings
  <2>3. R[l + (k - 0)][at[0]] = Result(End(n, 0 + 1), y)
    BY ONLY <1>5, <1>21, <2>2
  <2> QED BY ONLY <1>16, <1>21, <2>3
<1>27. End(n, 0 + 1) = n
  <2>1. 0 + 1 = 1
    OBVIOUS
  <2> QED BY ONLY <2>1, n \in Strings, SubSeqFull DEF Strings, End
<1>28. y = p + Len(Pointed(F[k], off))
  <2>1. Len(Pointed(F[k], off)) = a + 2
    BY ONLY <1>6, <1>9, <1>14
  <2> QED BY ONLY <1>9, <1>13, <1>24, <2>1, a \in Nat, p \in Nat
<1>29. ReadQdn(pkg, p) = {r \in Result(n, y) : r.name # <<>>}
  BY ONLY <1>1, <1>17, <1>26, <1>27
<1>30. {r \in Result(n, y) : r.name # <<>>} = Result(n, y)
  BY ONLY n # <<>> DEF Result
<1> QED BY ONLY <1>28, <1>29, <1>30

\* A name that a server has written is read, and the cursor is behind it.
LEMMA NameRead ==
    ASSUME NEW pkg \in Bytes, NEW known, QuestionIn(pkg, known), NEW compress \in BOOLEAN,
           NEW n, NEW p, NameIn(pkg, known, compress, n, p)
    PROVE  ReadQdn(pkg, p) = Result(n, p + Len(NameBytes(n, known, compress)))
<1>1. /\ n \in Strings /\ Legal(n) /\ n # <<>> /\ p \in Nat /\ p >= 12 + Len(Plain(known))
      /\ At(pkg, p, NameBytes(n, known, compress))
  BY DEF NameIn
<1>2. CASE NameBytes(n, known, compress) = Plain(n)
  BY ONLY <1>1, <1>2, PlainNameRead, pkg \in Bytes
<1>3. CASE NameBytes(n, known, compress) # Plain(n)
  <2>1. NameBytes(n, known, compress) = Compressed(n, known)
    BY <1>3 DEF NameBytes
  <2>2. known \in Strings
    BY DEF QuestionIn
  <2>3. Labels(n) \in Strings /\ Labels(known) \in Strings
    BY ONLY <1>1, <2>2, LabelsFacts
  <2>4. PICK F : IsFlat(F, Labels(n))
    BY ONLY <2>3, FlatExists
  <2>5. PICK G : IsFlat(G, Labels(known))
    BY ONLY <2>3, FlatExists
  <2>6. PICK k, j \in Nat :
                 /\ k \in 0..Len(n) - 1 /\ j \in 0..Len(known) - 1
                 /\ End(n, k + 1) = End(known, j + 1)
                 /\ Compressed(n, known) = Pointed(F[k], 12 + Len(G[j]))
    BY ONLY <1>1, <1>3, <2>1, <2>2, <2>4, <2>5, CompressedFacts
  <2>7. PICK off : off = 12 + Len(G[j])
    OBVIOUS
  <2>8. Joins(n, known, F, G, k, j)
    BY ONLY <2>4, <2>5, <2>6, k \in Nat, j \in Nat DEF Joins
  <2>9. NameBytes(n, known, compress) = Pointed(F[k], off)
    BY ONLY <2>1, <2>6, <2>7
  <2>10. At(pkg, p, Pointed(F[k], off))
    BY ONLY <1>1, <2>9
  <2>11. ReadQdn(pkg, p) = Result(n, p + Len(Pointed(F[k], off)))
    BY ONLY <1>1, <2>7, <2>8, <2>10, PointedNameRead, pkg \in Bytes, QuestionIn(pkg, known)
  <2> QED BY ONLY <2>9, <2>11
<1> QED BY <1>2, <1>3

-----------------------------------------------------------------------------
(* What a server has written. *)

\* One string made of two.
IsConcat(u, s, t) == u = s \o t /\ s \in Bytes /\ t \in Bytes

\* How long one string made of two is.
LEMMA TwoParts ==
    ASSUME NEW u, NEW s, NEW t, IsConcat(u, s, t)
    PROVE  u \in Bytes /\ Len(u) = Len(s) + Len(t) /\ Len(s) \in Nat /\ Len(t) \in Nat
<1>1. s \in Bytes /\ t \in Bytes
  BY DEF IsConcat
<1>2. Len(s) \in Nat /\ Len(t) \in Nat
  BY ONLY <1>1, LenProperties DEF Bytes
<1>3. s \o t \in Bytes /\ Len(s \o t) = Len(s) + Len(t)
  BY ONLY <1>1, ConcatType
<1> QED BY ONLY <1>2, <1>3, IsConcat(u, s, t) DEF IsConcat

\* Two strings as one that stand in a package stand there one behind the other.
LEMMA AtTwoParts ==
    ASSUME NEW pkg \in Bytes, NEW p \in Nat, NEW u, NEW s, NEW t, IsConcat(u, s, t),
           At(pkg, p, u), NEW q, q = p + Len(s)
    PROVE  At(pkg, p, s) /\ At(pkg, q, t) /\ q \in Nat
<1>1. s \in Bytes /\ t \in Bytes
  BY DEF IsConcat
<1>2. At(pkg, p, s \o t)
  BY DEF IsConcat
<1>3. At(pkg, p, s) /\ At(pkg, p + Len(s), t)
  BY ONLY <1>1, <1>2, AtConcat, pkg \in Bytes, p \in Nat
<1>4. Len(s) \in Nat
  BY ONLY <1>1, LenProperties DEF Bytes
<1> QED BY ONLY <1>3, <1>4, q = p + Len(s), p \in Nat

\* Records, and names, as a server has them.
RecordType == [type : Nat, preference : Nat, answer : Strings, ip : Bytes]

DataBytes(r, known, compress) ==
    CASE r.type = 1 -> r.ip
      [] r.type = 15 -> Word(r.preference) \o NameBytes(r.answer, known, compress)
      [] OTHER -> NameBytes(r.answer, known, compress)

RecordBytes(owner, r, known, compress) ==
    NameBytes(owner, known, compress) \o Word(r.type) \o <<0, 1, 0, 0, 1, 44>>
        \o Word(Len(DataBytes(r, known, compress))) \o DataBytes(r, known, compress)

RecordsBytes(question, records, compress) ==
    [i \in DOMAIN records |->
        RecordBytes(Meaning(question, records)[i].req_name, records[i], question.name, compress)]

\* The parts of a respond: its words, the question, and its records.
LEMMA WireParts ==
    ASSUME NEW id, NEW rcode, NEW question, NEW records, NEW compress
    PROVE  WireRespond(id, rcode, question, records, compress) =
              Word(id) \o <<129, 128 + rcode, 0, 1>> \o Word(Len(records)) \o <<0, 0, 0, 0>>
                 \o Plain(question.name) \o Word(question.type) \o <<0, 1>>
                 \o FlattenSeq(RecordsBytes(question, records, compress))
BY DEF WireRespond, RecordsBytes, RecordBytes, DataBytes, NameBytes

\* A name written section by section is a string of bytes.
LEMMA PlainType ==
    ASSUME NEW name \in Strings
    PROVE  Plain(name) \in Bytes
<1>1. Labels(name) \in Strings
  BY LabelsFacts
<1>2. PICK F : IsFlat(F, Labels(name))
  BY ONLY <1>1, FlatExists
<1>3. PICK k \in Nat : k = Len(name)
  BY DEF Strings
<1>4. k \in 0..Len(name)
  BY ONLY <1>3, k \in Nat
<1>5. F[k] \in Bytes /\ Plain(name) = Ended(F[k])
  BY ONLY <1>2, <1>3, <1>4, PlainFacts, name \in Strings
<1> QED BY ONLY <1>5, EndedFacts

\* So is one that ends in a pointer, or not.
LEMMA NameType ==
    ASSUME NEW name \in Strings, NEW known \in Strings, NEW compress
    PROVE  NameBytes(name, known, compress) \in Bytes
<1>1. CASE NameBytes(name, known, compress) = Plain(name)
  BY ONLY <1>1, PlainType, name \in Strings
<1>2. CASE NameBytes(name, known, compress) # Plain(name)
  <2>1. NameBytes(name, known, compress) = Compressed(name, known)
    BY ONLY <1>2 DEF NameBytes
  <2>2. Labels(name) \in Strings /\ Labels(known) \in Strings
    BY ONLY name \in Strings, known \in Strings, LabelsFacts
  <2>3. PICK F : IsFlat(F, Labels(name))
    BY ONLY <2>2, FlatExists
  <2>4. PICK G : IsFlat(G, Labels(known))
    BY ONLY <2>2, FlatExists
  <2>5. PICK k, j \in Nat :
           /\ k \in 0..Len(name) - 1 /\ j \in 0..Len(known) - 1
           /\ Compressed(name, known) = Pointed(F[k], 12 + Len(G[j]))
    BY ONLY <1>2, <2>1, <2>3, <2>4, CompressedFacts, name \in Strings, known \in Strings
  <2>6. PICK m, h : m = Len(known) /\ h = Len(name)
    OBVIOUS
  <2>7. m \in Nat /\ h \in Nat /\ k \in 0..h /\ j \in 0..m
    <3>1. m \in Nat /\ h \in Nat
      BY ONLY <2>6, name \in Strings, known \in Strings, LenProperties DEF Strings
    <3> QED BY ONLY <2>5, <2>6, <3>1
  <2>8. F[k] \in Bytes
    BY ONLY <2>3, <2>6, <2>7, PlainFacts, name \in Strings
  <2>9. Len(G[j]) \in Nat
    BY ONLY <2>4, <2>6, <2>7, FlatGrows, known \in Strings
  <2>10. PICK n \in Nat : n = 49152 + (12 + Len(G[j]))
    BY ONLY <2>9
  <2>11. PICK w, f : w = Word(n) /\ f = F[k]
    OBVIOUS
  <2>12. w \in Bytes /\ f \in Bytes
    BY ONLY <2>8, <2>11, WordBytes, n \in Nat
  <2>13. Compressed(name, known) = f \o w
    BY ONLY <2>5, <2>10, <2>11 DEF Pointed
  <2>14. f \o w \in Bytes
    BY ONLY <2>12, ConcatType
  <2> QED BY ONLY <2>1, <2>13, <2>14
<1> QED BY <1>1, <1>2

\* So are the data of a record.
LEMMA DataType ==
    ASSUME NEW r \in RecordType, NEW known \in Strings, NEW compress
    PROVE  DataBytes(r, known, compress) \in Bytes
<1>1. r.ip \in Bytes /\ r.answer \in Strings /\ r.preference \in Nat
  BY DEF RecordType
<1>2. PICK n, w : n = NameBytes(r.answer, known, compress) /\ w = Word(r.preference)
  OBVIOUS
<1>3. n \in Bytes /\ w \in Bytes
  BY ONLY <1>1, <1>2, NameType, WordBytes, known \in Strings
<1>4. w \o n \in Bytes
  BY ONLY <1>3, ConcatType
<1> QED BY ONLY <1>1, <1>2, <1>3, <1>4 DEF DataBytes

\* A record, part after part.
LEMMA RecordParts ==
    ASSUME NEW owner \in Strings, NEW r \in RecordType, NEW known \in Strings, NEW compress,
           NEW data, data = DataBytes(r, known, compress),
           NEW name, name = NameBytes(owner, known, compress),
           NEW u, u = RecordBytes(owner, r, known, compress)
    PROVE  \E t1, t2, t3, fixed :
              /\ IsConcat(t1, name, Word(r.type))
              /\ IsConcat(t2, t1, fixed) /\ Len(fixed) = 6
              /\ IsConcat(t3, t2, Word(Len(data)))
              /\ IsConcat(u, t3, data)
<1>1. r.type \in Nat
  BY DEF RecordType
<1>2. data \in Bytes
  BY ONLY DataType, r \in RecordType, known \in Strings, data = DataBytes(r, known, compress)
<1>3. name \in Bytes
  BY ONLY NameType, owner \in Strings, known \in Strings, name = NameBytes(owner, known, compress)
<1>4. PICK w, x : w = Word(r.type) /\ x = Word(Len(data))
  OBVIOUS
<1>5. w \in Bytes /\ x \in Bytes
  <2>1. Len(data) \in Nat
    BY ONLY <1>2, LenProperties DEF Bytes
  <2> QED BY ONLY <1>1, <1>4, <2>1, WordBytes
<1>6. PICK fixed : fixed = <<0, 1, 0, 0, 1, 44>>
  BY ONLY TRUE
<1>7. fixed \in Bytes /\ Len(fixed) = 6
  BY ONLY <1>6 DEF Bytes
<1>8. PICK t1 : t1 = name \o w
  OBVIOUS
<1>9. IsConcat(t1, name, w)
  BY ONLY <1>3, <1>5, <1>8 DEF IsConcat
<1>10. PICK t2 : t2 = t1 \o fixed
  OBVIOUS
<1>11. IsConcat(t2, t1, fixed)
  <2>1. t1 \in Bytes
    BY ONLY <1>9, TwoParts
  <2> QED BY ONLY <1>7, <1>10, <2>1 DEF IsConcat
<1>12. PICK t3 : t3 = t2 \o x
  OBVIOUS
<1>13. IsConcat(t3, t2, x)
  <2>1. t2 \in Bytes
    BY ONLY <1>11, TwoParts
  <2> QED BY ONLY <1>5, <1>12, <2>1 DEF IsConcat
<1>14. IsConcat(u, t3, data)
  <2>1. t3 \in Bytes
    BY ONLY <1>13, TwoParts
  <2>2. u = (((name \o w) \o fixed) \o x) \o data
    BY ONLY <1>4, <1>6, u = RecordBytes(owner, r, known, compress),
            data = DataBytes(r, known, compress), name = NameBytes(owner, known, compress)
       DEF RecordBytes
  <2>3. u = t3 \o data
    BY ONLY <1>8, <1>10, <1>12, <2>2
  <2> QED BY ONLY <1>2, <2>1, <2>3 DEF IsConcat
<1> QED BY ONLY <1>4, <1>7, <1>9, <1>11, <1>13, <1>14

\* What stands in the package of a server: its words, the question, and the rest.
Respond(pkg, id, rcode, question, n, rest) ==
    /\ pkg \in Bytes
    /\ BuffRead(pkg, 0, 2) = id /\ pkg[4] = 128 + rcode
    /\ BuffRead(pkg, 4, 2) = 1 /\ BuffRead(pkg, 6, 2) = n
    /\ At(pkg, 12, Plain(question.name))
    /\ At(pkg, 12 + Len(Plain(question.name)) + 4, rest)

\* A string with another behind it.
LEMMA Glue ==
    ASSUME NEW s \in Bytes, NEW t \in Bytes, NEW u, u = s \o t
    PROVE  IsConcat(u, s, t) /\ u \in Bytes /\ Len(u) = Len(s) + Len(t)
<1>1. IsConcat(u, s, t)
  BY ONLY s \in Bytes, t \in Bytes, u = s \o t DEF IsConcat
<1> QED BY ONLY <1>1, TwoParts, s \in Bytes, t \in Bytes

\* A string of four bytes.
LEMMA FourBytes ==
    ASSUME NEW a \in Nat, NEW b \in Nat, NEW c \in Nat, NEW d \in Nat, NEW s, s = <<a, b, c, d>>
    PROVE  s \in Bytes /\ Len(s) = 4 /\ s[1] = a /\ s[2] = b /\ s[3] = c /\ s[4] = d
BY DEF Bytes

\* What a server writes has its words where the parser reads them.
LEMMA RespondWritten ==
    ASSUME NEW id \in Nat, NEW rcode \in Nat, NEW question, question.name \in Strings,
           question.type \in Nat, NEW records, NEW n \in Nat, n = Len(records), NEW compress,
           NEW rest \in Bytes, rest = FlattenSeq(RecordsBytes(question, records, compress)),
           NEW pkg, pkg = WireRespond(id, rcode, question, records, compress)
    PROVE  Respond(pkg, id, rcode, question, n, rest)
<1>1. PICK w1, w2, w3, name : w1 = Word(id) /\ w2 = Word(n) /\ w3 = Word(question.type)
                           /\ name = Plain(question.name)
  OBVIOUS
<1>2. /\ w1 \in Bytes /\ Len(w1) = 2 /\ w2 \in Bytes /\ Len(w2) = 2
      /\ w3 \in Bytes /\ Len(w3) = 2 /\ name \in Bytes
  BY ONLY <1>1, WordBytes, PlainType, id \in Nat, n \in Nat, question.type \in Nat,
          question.name \in Strings
<1>3. PICK flags, counts, class :
         flags = <<129, 128 + rcode, 0, 1>> /\ counts = <<0, 0, 0, 0>> /\ class = <<0, 1>>
  BY ONLY TRUE
<1>4. PICK code \in Nat : code = 128 + rcode
  BY ONLY rcode \in Nat
<1>5. /\ flags \in Bytes /\ Len(flags) = 4 /\ flags[2] = code /\ flags[3] = 0 /\ flags[4] = 1
  <2>1. flags = <<129, code, 0, 1>> /\ 129 \in Nat /\ 0 \in Nat /\ 1 \in Nat
    BY ONLY <1>3, <1>4
  <2> QED BY ONLY <2>1, FourBytes, code \in Nat
<1>6. counts \in Bytes /\ Len(counts) = 4
  <2>1. 0 \in Nat
    BY ONLY TRUE
  <2> QED BY ONLY <1>3, <2>1, FourBytes
<1>7. class \in Bytes /\ Len(class) = 2
  BY ONLY <1>3 DEF Bytes
<1>8. PICK u1, u2, u3, u4, u5, u6 :
         /\ u1 = w1 \o flags /\ u2 = u1 \o w2 /\ u3 = u2 \o counts
         /\ u4 = u3 \o name /\ u5 = u4 \o w3 /\ u6 = u5 \o class
  BY ONLY TRUE
<1>9. pkg = u6 \o rest
  BY ONLY <1>1, <1>3, <1>8, WireParts, n = Len(records),
          rest = FlattenSeq(RecordsBytes(question, records, compress)),
          pkg = WireRespond(id, rcode, question, records, compress)
<1>10. PICK l \in Nat : l = Len(name)
  BY ONLY <1>2, LenProperties DEF Bytes
<1>11. IsConcat(u1, w1, flags) /\ u1 \in Bytes /\ Len(u1) = 6
  <2>0. u1 = w1 \o flags /\ w1 \in Bytes /\ flags \in Bytes
    BY ONLY <1>2, <1>5, <1>6, <1>7, <1>8
  <2>1. IsConcat(u1, w1, flags) /\ u1 \in Bytes /\ Len(u1) = Len(w1) + Len(flags)
    BY ONLY <2>0, Glue
  <2> QED BY ONLY <1>2, <1>5, <2>1
<1>12. IsConcat(u2, u1, w2) /\ u2 \in Bytes /\ Len(u2) = 8
  <2>0. u2 = u1 \o w2 /\ u1 \in Bytes /\ w2 \in Bytes
    BY ONLY <1>2, <1>5, <1>6, <1>7, <1>8, <1>11
  <2>1. IsConcat(u2, u1, w2) /\ u2 \in Bytes /\ Len(u2) = Len(u1) + Len(w2)
    BY ONLY <2>0, Glue
  <2> QED BY ONLY <1>2, <1>11, <2>1
<1>13. IsConcat(u3, u2, counts) /\ u3 \in Bytes /\ Len(u3) = 12
  <2>0. u3 = u2 \o counts /\ u2 \in Bytes /\ counts \in Bytes
    BY ONLY <1>2, <1>5, <1>6, <1>7, <1>8, <1>12
  <2>1. IsConcat(u3, u2, counts) /\ u3 \in Bytes /\ Len(u3) = Len(u2) + Len(counts)
    BY ONLY <2>0, Glue
  <2> QED BY ONLY <1>6, <1>12, <2>1
<1>14. IsConcat(u4, u3, name) /\ u4 \in Bytes /\ Len(u4) = 12 + l
  <2>0. u4 = u3 \o name /\ u3 \in Bytes /\ name \in Bytes
    BY ONLY <1>2, <1>5, <1>6, <1>7, <1>8, <1>13
  <2>1. IsConcat(u4, u3, name) /\ u4 \in Bytes /\ Len(u4) = Len(u3) + Len(name)
    BY ONLY <2>0, Glue
  <2> QED BY ONLY <1>10, <1>13, <2>1
<1>15. IsConcat(u5, u4, w3) /\ u5 \in Bytes /\ Len(u5) = 14 + l
  <2>0. u5 = u4 \o w3 /\ u4 \in Bytes /\ w3 \in Bytes
    BY ONLY <1>2, <1>5, <1>6, <1>7, <1>8, <1>14
  <2>1. IsConcat(u5, u4, w3) /\ u5 \in Bytes /\ Len(u5) = Len(u4) + Len(w3)
    BY ONLY <2>0, Glue
  <2> QED BY ONLY <1>2, <1>14, <2>1, l \in Nat
<1>16. IsConcat(u6, u5, class) /\ u6 \in Bytes /\ Len(u6) = 16 + l
  <2>0. u6 = u5 \o class /\ u5 \in Bytes /\ class \in Bytes
    BY ONLY <1>2, <1>5, <1>6, <1>7, <1>8, <1>15
  <2>1. IsConcat(u6, u5, class) /\ u6 \in Bytes /\ Len(u6) = Len(u5) + Len(class)
    BY ONLY <2>0, Glue
  <2> QED BY ONLY <1>7, <1>15, <2>1, l \in Nat
<1>17. IsConcat(pkg, u6, rest) /\ pkg \in Bytes
  BY ONLY <1>9, <1>16, Glue, rest \in Bytes
<1>18. At(pkg, 0, u6) /\ At(pkg, 12 + l + 4, rest)
  <2>1. At(pkg, 0, pkg) /\ 0 \in Nat
    BY ONLY <1>17, AtSelf
  <2>2. PICK q : q = 0 + Len(u6)
    OBVIOUS
  <2>3. At(pkg, 0, u6) /\ At(pkg, q, rest)
    BY ONLY <1>17, <2>1, <2>2, AtTwoParts
  <2>4. q = 12 + l + 4
    BY ONLY <1>16, <2>2, l \in Nat
  <2> QED BY ONLY <2>3, <2>4
<1>19. At(pkg, 0, u3) /\ At(pkg, 12, name)
  <2>1. 0 \in Nat
    BY ONLY TRUE
  <2>2. PICK a, b, c : a = 0 + Len(u5) /\ b = 0 + Len(u4) /\ c = 0 + Len(u3)
    OBVIOUS
  <2>3. At(pkg, 0, u5)
    BY ONLY <1>16, <1>17, <1>18, <2>1, <2>2, AtTwoParts
  <2>4. At(pkg, 0, u4)
    BY ONLY <1>15, <1>17, <2>1, <2>2, <2>3, AtTwoParts
  <2>5. At(pkg, 0, u3) /\ At(pkg, c, name)
    BY ONLY <1>14, <1>17, <2>1, <2>2, <2>4, AtTwoParts
  <2>6. c = 12
    BY ONLY <1>13, <2>2
  <2> QED BY ONLY <2>5, <2>6
<1>20. At(pkg, 0, w1) /\ At(pkg, 2, flags) /\ At(pkg, 6, w2)
  <2>1. 0 \in Nat
    BY ONLY TRUE
  <2>2. PICK a, b, c : a = 0 + Len(u2) /\ b = 0 + Len(u1) /\ c = 0 + Len(w1)
    OBVIOUS
  <2>3. At(pkg, 0, u2)
    BY ONLY <1>13, <1>17, <1>19, <2>1, <2>2, AtTwoParts
  <2>4. At(pkg, 0, u1) /\ At(pkg, b, w2)
    BY ONLY <1>12, <1>17, <2>1, <2>2, <2>3, AtTwoParts
  <2>5. At(pkg, 0, w1) /\ At(pkg, c, flags)
    BY ONLY <1>11, <1>17, <2>1, <2>2, <2>4, AtTwoParts
  <2>6. b = 6 /\ c = 2
    BY ONLY <1>2, <1>11, <2>2
  <2> QED BY ONLY <2>4, <2>5, <2>6
<1>21. BuffRead(pkg, 0, 2) = id /\ BuffRead(pkg, 6, 2) = n
  <2>1. 0 \in Nat /\ 6 \in Nat
    BY ONLY TRUE
  <2> QED BY ONLY <1>1, <1>17, <1>20, <2>1, AtWord, id \in Nat, n \in Nat
<1>22. pkg[4] = code /\ pkg[5] = 0 /\ pkg[6] = 1
  <2>1. \A i \in 1..4 : pkg[2 + i] = flags[i]
    BY ONLY <1>5, <1>20 DEF At
  <2>2. pkg[2 + 2] = flags[2] /\ pkg[2 + 3] = flags[3] /\ pkg[2 + 4] = flags[4]
    BY ONLY <2>1
  <2> QED BY ONLY <1>5, <2>2
<1>23. BuffRead(pkg, 4, 2) = 1
  <2>1. 4 \in Nat /\ 0 \in Nat /\ 1 \in Nat /\ pkg[4 + 1] = 0 /\ pkg[4 + 2] = 1
    BY ONLY <1>22
  <2>2. BuffRead(pkg, 4, 2) = 256 * 0 + 1
    BY ONLY <2>1, BuffReadTwo
  <2> QED BY ONLY <2>2
<1> QED BY ONLY <1>1, <1>4, <1>10, <1>17, <1>18, <1>19, <1>21, <1>22, <1>23 DEF Respond

\* The last alias is one of them.
LEMMA MaxIn ==
    ASSUME NEW n \in Nat, NEW T, T \subseteq 1..n, T # {}
    PROVE  Max(T) \in T
<1> DEFINE U == {k \in Nat : n - k \in T}
<1>1. U \subseteq Nat /\ U # {}
  <2>1. PICK t \in T : TRUE
    OBVIOUS
  <2>2. t \in 1..n
    BY <2>1
  <2>3. PICK k \in Nat : k = n - t
    BY <2>2
  <2>4. n - k = t
    BY <2>2, <2>3
  <2> QED BY <2>1, <2>3, <2>4
<1>2. PICK k \in U : \A m \in U : k <= m
  <2> HIDE DEF U
  <2> QED BY ONLY <1>1, Least
<1>3. PICK t : t = n - k
  OBVIOUS
<1>4. t \in T
  BY <1>2, <1>3
<1>5. ASSUME NEW y \in T PROVE t >= y
  <2>1. y \in 1..n
    OBVIOUS
  <2>2. PICK m \in Nat : m = n - y
    BY <2>1
  <2>3. n - m = y
    BY <2>1, <2>2
  <2>4. m \in U
    BY <2>3
  <2>5. k <= m /\ k \in Nat
    BY <1>2, <2>4
  <2> QED BY <1>3, <2>1, <2>2, <2>5
<1>6. \E x \in T : \A y \in T : x >= y
  BY <1>4, <1>5
<1> QED BY <1>6 DEF Max

\* A record belongs to the name asked for, or to what an alias stands for.
Aliases(records, i) == {j \in 1..i - 1 : records[j].type = 5}

\* Where no alias is in front, an answer has the name that was asked for.
LEMMA OwnerFacts ==
    ASSUME NEW question, question.name \in Strings,
           NEW records \in Seq(RecordType), NEW i \in 1..Len(records)
    PROVE  /\ Meaning(question, records)[i].req_name \in Strings
           /\ (\A j \in 1..Len(records) : records[j].type # 5)
                 => Meaning(question, records)[i].req_name = question.name
<1>1. i \in DOMAIN records /\ Len(records) \in Nat
  OBVIOUS
<1>2. PICK n \in Nat : n = i - 1
  BY <1>1
<1>3. Meaning(question, records)[i].req_name =
         IF Aliases(records, i) = {} THEN question.name
         ELSE records[Max(Aliases(records, i))].answer
  BY ONLY <1>1 DEF Meaning, Aliases
<1>4. Aliases(records, i) \subseteq 1..n
  BY <1>2 DEF Aliases
<1>5. CASE Aliases(records, i) = {}
  BY <1>3, <1>5
<1>6. CASE Aliases(records, i) # {}
  <2>1. PICK m : m = Max(Aliases(records, i))
    OBVIOUS
  <2>2. m \in Aliases(records, i)
    BY ONLY <1>4, <1>6, <2>1, MaxIn, n \in Nat
  <2>3. m \in 1..Len(records) /\ records[m].type = 5
    BY <1>1, <2>2 DEF Aliases
  <2>4. records[m] \in RecordType
    BY <2>3
  <2>5. records[m].answer \in Strings
    BY ONLY <2>4 DEF RecordType
  <2> QED BY ONLY <1>3, <1>6, <2>1, <2>3, <2>5
<1> QED BY <1>5, <1>6

\* A record is a string of bytes.
LEMMA RecordBytesType ==
    ASSUME NEW owner \in Strings, NEW r \in RecordType, NEW known \in Strings, NEW compress
    PROVE  RecordBytes(owner, r, known, compress) \in Bytes
<1>1. PICK data, name, u :
         /\ data = DataBytes(r, known, compress) /\ name = NameBytes(owner, known, compress)
         /\ u = RecordBytes(owner, r, known, compress)
  OBVIOUS
<1>2. PICK t1, t2, t3, fixed : IsConcat(u, t3, data)
  BY ONLY <1>1, RecordParts, owner \in Strings, r \in RecordType, known \in Strings
<1> QED BY ONLY <1>1, <1>2, TwoParts

\* So is every record of a respond.
LEMMA RecordsFacts ==
    ASSUME NEW question, question.name \in Strings, NEW records \in Seq(RecordType), NEW compress
    PROVE  /\ RecordsBytes(question, records, compress) \in Strings
           /\ Len(RecordsBytes(question, records, compress)) = Len(records)
<1>1. Len(records) \in Nat /\ DOMAIN records = 1..Len(records)
  OBVIOUS
<1> DEFINE B(i) == RecordBytes(Meaning(question, records)[i].req_name, records[i],
                               question.name, compress)
<1>2. ASSUME NEW i \in 1..Len(records) PROVE B(i) \in Bytes
  <2>1. PICK owner, r : owner = Meaning(question, records)[i].req_name /\ r = records[i]
    OBVIOUS
  <2>2. owner \in Strings /\ r \in RecordType
    BY <2>1, OwnerFacts
  <2> QED BY ONLY <2>1, <2>2, RecordBytesType, question.name \in Strings
<1>3. RecordsBytes(question, records, compress) = [i \in 1..Len(records) |-> B(i)]
  BY <1>1 DEF RecordsBytes
<1> HIDE DEF B
<1>4. [i \in 1..Len(records) |-> B(i)] \in Seq(Bytes)
  BY ONLY <1>1, <1>2
<1>5. Len([i \in 1..Len(records) |-> B(i)]) = Len(records)
  BY ONLY <1>1, <1>4
<1> QED BY ONLY <1>3, <1>4, <1>5 DEF Strings

\* A record of a type the parser knows.
KnownRecord(r) ==
    /\ r \in RecordType
    /\ Legal(r.answer) /\ r.answer # <<>>
    /\ r.type \in {1, 12, 15} /\ (r.type # 15 => r.preference = 0)
    /\ r.type = 1 => Len(r.ip) = 4 /\ r.answer = [k \in 1..4 |-> Decimal(r.ip[k])]

\* Its data stand at the offset p of a package.
DataIn(pkg, known, compress, r, p) ==
    /\ KnownRecord(r)
    /\ p \in Nat /\ p >= 12 + Len(Plain(known))
    /\ At(pkg, p, DataBytes(r, known, compress))

DataResult(r, next) == {[preference |-> r.preference, answer |-> r.answer, next |-> next]}

\* An address is read as its text, and the parser stops behind it.
LEMMA AddressRead ==
    ASSUME NEW pkg \in Bytes, NEW known \in Strings, NEW compress \in BOOLEAN, NEW r, NEW p,
           DataIn(pkg, known, compress, r, p), r.type = 1,
           NEW q, q = p + Len(DataBytes(r, known, compress))
    PROVE  DataRead(pkg, p, r.type) = DataResult(r, q)
<1>1. PICK ip : ip = r.ip
  OBVIOUS
<1>2. DataBytes(r, known, compress) = ip
  BY ONLY <1>1, r.type = 1 DEF DataBytes
<1>3. /\ ip \in Bytes /\ Len(ip) = 4 /\ r.answer = [k \in 1..4 |-> Decimal(ip[k])]
      /\ r.preference = 0 /\ p \in Nat
  BY ONLY <1>1, DataIn(pkg, known, compress, r, p), r.type = 1 DEF DataIn, KnownRecord, RecordType
<1>4. p + Len(ip) <= Len(pkg) /\ \A i \in 1..Len(ip) : pkg[p + i] = ip[i]
  BY ONLY <1>2, DataIn(pkg, known, compress, r, p) DEF DataIn, At
<1>5. IpRead(pkg, p) = r.answer
  BY ONLY <1>3, <1>4 DEF IpRead
<1>6. DataRead(pkg, p, r.type) =
         {[preference |-> 0, answer |-> IpRead(pkg, p), next |-> p + 4]}
  <2>1. p + 4 <= Len(pkg)
    BY ONLY <1>3, <1>4
  <2> QED BY ONLY <2>1, r.type = 1 DEF DataRead, DnsQType
<1>7. q = p + 4
  BY ONLY <1>2, <1>3, q = p + Len(DataBytes(r, known, compress))
<1> QED BY ONLY <1>3, <1>5, <1>6, <1>7 DEF DataResult

\* The name in a PTR record is read, and the parser stops behind it.
LEMMA PointerRead ==
    ASSUME NEW pkg \in Bytes, NEW known, QuestionIn(pkg, known), NEW compress \in BOOLEAN,
           NEW r, NEW p, DataIn(pkg, known, compress, r, p), r.type = 12,
           NEW q, q = p + Len(DataBytes(r, known, compress))
    PROVE  DataRead(pkg, p, r.type) = DataResult(r, q)
<1>1. DataBytes(r, known, compress) = NameBytes(r.answer, known, compress)
  BY ONLY r.type = 12 DEF DataBytes
<1>2. NameIn(pkg, known, compress, r.answer, p) /\ r.preference = 0
  BY ONLY <1>1, DataIn(pkg, known, compress, r, p), r.type = 12
     DEF DataIn, KnownRecord, NameIn, RecordType
<1>3. ReadQdn(pkg, p) = Result(r.answer, q)
  BY ONLY <1>1, <1>2, NameRead, pkg \in Bytes, QuestionIn(pkg, known), compress \in BOOLEAN,
          q = p + Len(DataBytes(r, known, compress))
<1>4. DataRead(pkg, p, r.type) =
         {[preference |-> 0, answer |-> x.name, next |-> x.next] : x \in ReadQdn(pkg, p)}
  BY ONLY r.type = 12 DEF DataRead, DnsQType
<1> QED BY ONLY <1>2, <1>3, <1>4 DEF DataResult, Result

\* So is the name in an MX record, with its preference.
LEMMA ExchangeRead ==
    ASSUME NEW pkg \in Bytes, NEW known, QuestionIn(pkg, known), NEW compress \in BOOLEAN,
           NEW r, NEW p, DataIn(pkg, known, compress, r, p), r.type = 15,
           NEW q, q = p + Len(DataBytes(r, known, compress))
    PROVE  DataRead(pkg, p, r.type) = DataResult(r, q)
<1>0. /\ r.answer \in Strings /\ Legal(r.answer) /\ r.answer # <<>> /\ r.preference \in Nat
      /\ p \in Nat /\ p >= 12 + Len(Plain(known))
      /\ At(pkg, p, DataBytes(r, known, compress))
  BY ONLY DataIn(pkg, known, compress, r, p) DEF DataIn, KnownRecord, RecordType
<1>1. PICK w, n, u : /\ w = Word(r.preference) /\ n = NameBytes(r.answer, known, compress)
                     /\ u = DataBytes(r, known, compress)
  OBVIOUS
<1>2. u = w \o n
  BY ONLY <1>1, r.type = 15 DEF DataBytes
<1>3. known \in Strings
  BY ONLY QuestionIn(pkg, known) DEF QuestionIn
<1>4. w \in Bytes /\ Len(w) = 2 /\ n \in Bytes
  BY ONLY <1>0, <1>1, <1>3, WordBytes, NameType
<1>5. IsConcat(u, w, n) /\ Len(u) = Len(w) + Len(n)
  BY ONLY <1>2, <1>4, Glue
<1>6. PICK m : m = p + Len(w)
  OBVIOUS
<1>7. At(pkg, p, w) /\ At(pkg, m, n) /\ m \in Nat
  BY ONLY <1>0, <1>1, <1>5, <1>6, AtTwoParts, pkg \in Bytes
<1>8. m = p + 2
  BY ONLY <1>4, <1>6
<1>9. BuffRead(pkg, p, 2) = r.preference /\ p + 2 <= Len(pkg)
  BY ONLY <1>0, <1>1, <1>7, AtWord, pkg \in Bytes
<1>10. NameIn(pkg, known, compress, r.answer, m)
  <2>1. PICK l \in Nat : l = Len(Plain(known))
    <3>1. Plain(known) \in Bytes
      BY ONLY <1>3, PlainType
    <3> QED BY ONLY <3>1, LenProperties DEF Bytes
  <2>2. m >= 12 + Len(Plain(known))
    BY ONLY <1>0, <1>8, <2>1, l \in Nat
  <2> QED BY ONLY <1>0, <1>1, <1>7, <2>2 DEF NameIn
<1>11. ReadQdn(pkg, m) = Result(r.answer, m + Len(n))
  BY ONLY <1>1, <1>10, NameRead, pkg \in Bytes, QuestionIn(pkg, known), compress \in BOOLEAN
<1>12. m + Len(n) = q
  <2>1. Len(n) \in Nat
    BY ONLY <1>4, LenProperties DEF Bytes
  <2> QED BY ONLY <1>0, <1>1, <1>4, <1>5, <1>8, <2>1,
                  q = p + Len(DataBytes(r, known, compress))
<1>13. DataRead(pkg, p, r.type) =
          {[preference |-> BuffRead(pkg, p, 2), answer |-> x.name, next |-> x.next] :
             x \in ReadQdn(pkg, m)}
  BY ONLY <1>8, <1>9, r.type = 15 DEF DataRead, DnsQType
<1> QED BY ONLY <1>9, <1>11, <1>12, <1>13 DEF DataResult, Result

\* The data of a record the parser knows are read as they were meant.
LEMMA DataIsRead ==
    ASSUME NEW pkg \in Bytes, NEW known, QuestionIn(pkg, known), NEW compress \in BOOLEAN,
           NEW r, NEW p, DataIn(pkg, known, compress, r, p),
           NEW q, q = p + Len(DataBytes(r, known, compress))
    PROVE  DataRead(pkg, p, r.type) = DataResult(r, q)
<1>1. r.type \in {1, 12, 15}
  BY ONLY DataIn(pkg, known, compress, r, p) DEF DataIn, KnownRecord
<1>2. known \in Strings
  BY ONLY QuestionIn(pkg, known) DEF QuestionIn
<1> QED BY <1>1, <1>2, AddressRead, PointerRead, ExchangeRead

\* A record stands at the offset p, behind the question it answers.
RecordIn(pkg, known, compress, r, p) ==
    /\ KnownRecord(r)
    /\ p \in Nat /\ p >= 12 + Len(Plain(known))
    /\ At(pkg, p, RecordBytes(known, r, known, compress))

Answer(known, r) == DnsPkgAnswer(known, r.type, r.preference, r.answer)

Reading(cursor, alist) == [cursor |-> cursor, alist |-> alist]

\* So is the record they are in, which goes to the list of answers.
LEMMA AnswerIsRead ==
    ASSUME NEW pkg \in Bytes, NEW known, QuestionIn(pkg, known), NEW compress \in BOOLEAN,
           NEW r, NEW p, RecordIn(pkg, known, compress, r, p), NEW alist,
           NEW q, q = p + Len(RecordBytes(known, r, known, compress))
    PROVE  AnswerRead(pkg, Reading(p, alist)) = {Reading(q, Append(alist, Answer(known, r)))}
<1>0. /\ KnownRecord(r) /\ r \in RecordType /\ r.type \in Nat
      /\ p \in Nat /\ p >= 12 + Len(Plain(known))
      /\ At(pkg, p, RecordBytes(known, r, known, compress))
  BY ONLY RecordIn(pkg, known, compress, r, p) DEF RecordIn, KnownRecord, RecordType
<1>1. known \in Strings /\ Legal(known) /\ known # <<>>
  BY ONLY QuestionIn(pkg, known) DEF QuestionIn
<1>2. PICK data, name, u :
         /\ data = DataBytes(r, known, compress) /\ name = NameBytes(known, known, compress)
         /\ u = RecordBytes(known, r, known, compress)
  OBVIOUS
<1>3. PICK t1, t2, t3, fixed :
         /\ IsConcat(t1, name, Word(r.type))
         /\ IsConcat(t2, t1, fixed) /\ Len(fixed) = 6
         /\ IsConcat(t3, t2, Word(Len(data)))
         /\ IsConcat(u, t3, data)
  BY ONLY <1>0, <1>1, <1>2, RecordParts
<1>4. PICK a \in Nat, d \in Nat, l \in Nat : a = Len(name) /\ d = Len(data) /\ l = Len(Plain(known))
  <2>1. Len(name) \in Nat /\ Len(data) \in Nat
    BY ONLY <1>3, TwoParts
  <2>2. Plain(known) \in Bytes
    BY ONLY <1>1, PlainType
  <2>3. Len(Plain(known)) \in Nat
    BY ONLY <2>2, LenProperties DEF Bytes
  <2> QED BY ONLY <2>1, <2>3
<1>5. Len(t1) = a + 2 /\ Len(t2) = a + 8 /\ Len(t3) = a + 10 /\ Len(u) = a + 10 + d
  <2>0. PICK w, x : w = Word(r.type) /\ x = Word(Len(data))
    OBVIOUS
  <2>1. IsConcat(t1, name, w) /\ IsConcat(t2, t1, fixed)
        /\ IsConcat(t3, t2, x) /\ IsConcat(u, t3, data)
    BY ONLY <1>3, <2>0
  <2>2. /\ Len(t1) = Len(name) + Len(w) /\ Len(t2) = Len(t1) + Len(fixed)
        /\ Len(t3) = Len(t2) + Len(x) /\ Len(u) = Len(t3) + Len(data)
    BY ONLY <2>1, TwoParts
  <2>3. Len(w) = 2 /\ Len(x) = 2
    BY ONLY <1>0, <1>4, <2>0, WordBytes
  <2> QED BY ONLY <1>3, <1>4, <2>2, <2>3
<1>6. PICK at3, at1 : at3 = p + Len(t3) /\ at1 = p + Len(name)
  OBVIOUS
<1>7. At(pkg, p, t3) /\ At(pkg, at3, data) /\ at3 \in Nat
  BY ONLY <1>0, <1>2, <1>3, <1>6, AtTwoParts, pkg \in Bytes
<1>8. At(pkg, p, t2)
  <2>1. PICK x : x = p + Len(t2)
    OBVIOUS
  <2> QED BY ONLY <1>0, <1>3, <1>7, <2>1, AtTwoParts, pkg \in Bytes
<1>9. At(pkg, p, t1)
  <2>1. PICK x : x = p + Len(t1)
    OBVIOUS
  <2> QED BY ONLY <1>0, <1>3, <1>8, <2>1, AtTwoParts, pkg \in Bytes
<1>10. At(pkg, p, name) /\ At(pkg, at1, Word(r.type)) /\ at1 \in Nat
  BY ONLY <1>0, <1>3, <1>6, <1>9, AtTwoParts, pkg \in Bytes
<1>11. ReadQdn(pkg, p) = Result(known, at1)
  <2>1. NameIn(pkg, known, compress, known, p)
    BY ONLY <1>0, <1>1, <1>2, <1>10 DEF NameIn
  <2>2. ReadQdn(pkg, p) = Result(known, p + Len(NameBytes(known, known, compress)))
    BY ONLY <2>1, NameRead, pkg \in Bytes, QuestionIn(pkg, known), compress \in BOOLEAN
  <2> QED BY ONLY <1>2, <1>6, <2>2
<1>12. BuffRead(pkg, at1, 2) = r.type
  BY ONLY <1>0, <1>10, AtWord, pkg \in Bytes
<1>13. at3 = at1 + 10 /\ at1 + 10 <= Len(pkg)
  <2>1. at3 = at1 + 10
    BY ONLY <1>0, <1>4, <1>5, <1>6
  <2>2. at3 + Len(data) <= Len(pkg) /\ Len(pkg) \in Nat
    BY ONLY <1>7, LenProperties, pkg \in Bytes DEF At, Bytes
  <2> QED BY ONLY <1>4, <1>7, <1>10, <2>1, <2>2
<1>14. DataIn(pkg, known, compress, r, at3)
  <2>1. at3 >= 12 + Len(Plain(known))
    BY ONLY <1>0, <1>4, <1>5, <1>6
  <2> QED BY ONLY <1>0, <1>2, <1>7, <2>1 DEF DataIn
<1>15. at3 + Len(data) = q
  <2>1. q = p + Len(u) /\ p \in Nat
    BY ONLY <1>0, <1>2, q = p + Len(RecordBytes(known, r, known, compress))
  <2>2. Len(u) = a + 10 + d /\ at3 = p + (a + 10) /\ Len(data) = d
    BY ONLY <1>4, <1>5, <1>6
  <2> QED BY ONLY <2>1, <2>2, a \in Nat, d \in Nat
<1>16. DataRead(pkg, at3, r.type) = DataResult(r, q)
  BY ONLY <1>2, <1>14, <1>15, DataIsRead, pkg \in Bytes, QuestionIn(pkg, known),
          compress \in BOOLEAN
<1>17. AnswerRead(pkg, Reading(p, alist)) =
          UNION {{[cursor |-> x.next,
                   alist |-> Append(alist,
                      DnsPkgAnswer(owner.name, BuffRead(pkg, owner.next, 2),
                                   x.preference, x.answer))] :
                  x \in IF owner.next + 10 > Len(pkg) THEN {}
                        ELSE DataRead(pkg, owner.next + 10, BuffRead(pkg, owner.next, 2))} :
              owner \in ReadQdn(pkg, p)}
  BY ONLY TRUE DEF AnswerRead, Reading
<1>18. PICK owner : owner = [name |-> known, next |-> at1]
  OBVIOUS
<1>19. owner.name = known /\ owner.next = at1 /\ ReadQdn(pkg, p) = {owner}
  BY ONLY <1>11, <1>18 DEF Result
<1>20. AnswerRead(pkg, Reading(p, alist)) =
          {[cursor |-> x.next,
            alist |-> Append(alist, DnsPkgAnswer(known, r.type, x.preference, x.answer))] :
             x \in IF at1 + 10 > Len(pkg) THEN {} ELSE DataRead(pkg, at1 + 10, r.type)}
  BY ONLY <1>12, <1>17, <1>19
<1>21. ~(at1 + 10 > Len(pkg))
  <2>1. Len(pkg) \in Nat
    BY ONLY LenProperties, pkg \in Bytes DEF Bytes
  <2> QED BY ONLY <1>10, <1>13, <2>1
<1>22. PICK x : x = [preference |-> r.preference, answer |-> r.answer, next |-> q]
  OBVIOUS
<1>23. /\ x.next = q /\ x.preference = r.preference /\ x.answer = r.answer
       /\ DataRead(pkg, at1 + 10, r.type) = {x}
  BY ONLY <1>13, <1>16, <1>22 DEF DataResult
<1>24. AnswerRead(pkg, Reading(p, alist)) =
          {[cursor |-> q,
            alist |-> Append(alist, DnsPkgAnswer(known, r.type, r.preference, r.answer))]}
  BY ONLY <1>20, <1>21, <1>23
<1> QED BY ONLY <1>24 DEF Reading, Answer

\* What respond_buff_parse reads, question after question and answer after answer.
QuestionsFrom(pkg, n, f) ==
    [i \in 0..n |-> IF i = 0 THEN {Reading(HeaderSize, <<>>)}
                    ELSE UNION {QuestionRead(pkg, res) : res \in f[i - 1]}]

AnswersFrom(pkg, n, first, f) ==
    [i \in 0..n |-> IF i = 0 THEN first
                    ELSE UNION {AnswerRead(pkg, res) : res \in f[i - 1]}]

QuestionsRead(pkg, n) == LET q == CHOOSE f : f = QuestionsFrom(pkg, n, f) IN q[n]

AnswersRead(pkg, n, first) == LET a == CHOOSE f : f = AnswersFrom(pkg, n, first, f) IN a[n]

\* The three ways to parse a respond.
LEMMA ParsedCases ==
    ASSUME NEW pkg, NEW id
    PROVE  /\ BuffRead(pkg, 0, 2) # id
                 => RespondParsed(pkg, id) = {[error |-> "id_match_err", alist |-> <<>>]}
           /\ BuffRead(pkg, 0, 2) = id /\ GetError(pkg) # 0
                 => RespondParsed(pkg, id) = {[error |-> "resolv_err", alist |-> <<>>]}
           /\ BuffRead(pkg, 0, 2) = id /\ GetError(pkg) = 0
                 => RespondParsed(pkg, id) =
                      {[error |-> "noerror", alist |-> res.alist] :
                         res \in AnswersRead(pkg, BuffRead(pkg, 6, 2),
                                            QuestionsRead(pkg, BuffRead(pkg, 4, 2)))}
<1>1. CASE BuffRead(pkg, 0, 2) # id
  BY ONLY <1>1 DEF RespondParsed
<1>2. CASE BuffRead(pkg, 0, 2) = id /\ GetError(pkg) # 0
  BY ONLY <1>2 DEF RespondParsed
<1>3. CASE BuffRead(pkg, 0, 2) = id /\ GetError(pkg) = 0
  BY ONLY <1>3, Zenon
     DEF RespondParsed, AnswersRead, QuestionsRead, AnswersFrom, QuestionsFrom, Reading
<1> QED BY <1>1, <1>2, <1>3

\* The question is passed over.
LEMMA QuestionIsRead ==
    ASSUME NEW pkg \in Bytes, NEW known, QuestionIn(pkg, known), NEW alist,
           NEW q, q = 12 + Len(Plain(known)) + 4
    PROVE  QuestionRead(pkg, Reading(12, alist)) = {Reading(q, alist)}
<1>1. known \in Strings /\ Legal(known) /\ known # <<>> /\ At(pkg, 12, Plain(known))
  BY ONLY QuestionIn(pkg, known) DEF QuestionIn
<1>2. PICK x : x = 12 + Len(Plain(known))
  OBVIOUS
<1>3. ReadQdn(pkg, 12) = Result(known, x)
  <2>1. 12 \in Nat
    OBVIOUS
  <2> QED BY ONLY <1>1, <1>2, <2>1, PlainNameRead, pkg \in Bytes
<1>4. PICK name : name = [name |-> known, next |-> x]
  OBVIOUS
<1>5. name.next = x /\ ReadQdn(pkg, 12) = {name}
  BY ONLY <1>3, <1>4 DEF Result
<1>6. PICK res : res = Reading(12, alist)
  OBVIOUS
<1>7. res.cursor = 12 /\ [res EXCEPT !.cursor = x + 4] = Reading(x + 4, alist)
  BY ONLY <1>6 DEF Reading
<1>8. QuestionRead(pkg, res) = {[res EXCEPT !.cursor = x + 4]}
  BY ONLY <1>5, <1>7 DEF QuestionRead
<1> QED BY ONLY <1>2, <1>6, <1>7, <1>8, q = 12 + Len(Plain(known)) + 4

\* And it is the only one.
LEMMA QuestionsAreRead ==
    ASSUME NEW pkg \in Bytes, NEW known, QuestionIn(pkg, known),
           NEW q, q = 12 + Len(Plain(known)) + 4
    PROVE  QuestionsRead(pkg, 1) = {Reading(q, <<>>)}
<1> DEFINE first == {Reading(12, <<>>)}
           second == {Reading(q, <<>>)}
           g == [i \in 0..1 |-> IF i = 0 THEN first ELSE second]
           f == CHOOSE f : f = QuestionsFrom(pkg, 1, f)
<1>1. UNION {QuestionRead(pkg, res) : res \in first} = second
  <2>1. QuestionRead(pkg, Reading(12, <<>>)) = {Reading(q, <<>>)}
    BY ONLY QuestionIsRead, pkg \in Bytes, QuestionIn(pkg, known), q = 12 + Len(Plain(known)) + 4
  <2> QED BY ONLY <2>1
<1>2. g[0] = first /\ g[1] = second /\ g = [i \in 0..1 |-> g[i]]
  OBVIOUS
<1>3. HeaderSize = 12
  BY DEF HeaderSize
<1> HIDE DEF first, second, g
<1>4. g = QuestionsFrom(pkg, 1, g)
  <2>1. ASSUME NEW i \in 0..1
        PROVE  g[i] = IF i = 0 THEN {Reading(HeaderSize, <<>>)}
                      ELSE UNION {QuestionRead(pkg, res) : res \in g[i - 1]}
    <3>1. CASE i = 0
      BY ONLY <1>2, <1>3, <3>1 DEF first
    <3>2. CASE i = 1
      <4>1. 1 - 1 = 0 /\ i # 0
        BY ONLY <3>2
      <4> QED BY ONLY <1>1, <1>2, <3>2, <4>1
    <3> QED BY <3>1, <3>2
  <2> QED BY ONLY <1>2, <2>1 DEF QuestionsFrom
<1>5. f = QuestionsFrom(pkg, 1, f)
  <2>1. \E h : h = QuestionsFrom(pkg, 1, h)
    BY ONLY <1>4
  <2> QED BY ONLY <2>1
<1>6. QuestionsRead(pkg, 1) = f[1]
  BY DEF QuestionsRead
<1> HIDE DEF f
<1>7. f[0] = first
  BY ONLY <1>3, <1>5 DEF QuestionsFrom, first
<1>8. f[1] = UNION {QuestionRead(pkg, res) : res \in f[0]}
  <2>1. f[1] = UNION {QuestionRead(pkg, res) : res \in f[1 - 1]}
    BY ONLY <1>5 DEF QuestionsFrom
  <2>2. 1 - 1 = 0
    OBVIOUS
  <2> QED BY ONLY <2>1, <2>2
<1>9. f[1] = second
  BY ONLY <1>1, <1>7, <1>8
<1> QED BY ONLY <1>6, <1>9 DEF second

\* The answers to a question that stand in a package from the offset p on.
AnswersIn(pkg, known, compress, records, ss, F, n, p) ==
    /\ records \in Seq(RecordType) /\ n \in Nat /\ n = Len(records)
    /\ \A i \in 1..n : KnownRecord(records[i])
    /\ ss \in Strings /\ Len(ss) = n
    /\ \A i \in 1..n : ss[i] = RecordBytes(known, records[i], known, compress)
    /\ FlatAt(pkg, p, ss, F, n) /\ Len(F[0]) = 0
    /\ p \in Nat /\ p >= 12 + Len(Plain(known))

AnswerType == {Answer(known, r) : known \in Strings, r \in RecordType}

\* What is read of them.
Sent(known, records) == [i \in DOMAIN records |-> Answer(known, records[i])]
Offset(p, F, i) == p + Len(F[i])
AnswersTo(p, F, sent, i) == Reading(Offset(p, F, i), SubSeq(sent, 1, i))

\* A list up to its next element.
LEMMA SubSeqAppend ==
    ASSUME NEW T, NEW s \in Seq(T), NEW i \in Nat, NEW j, j = i + 1, j <= Len(s)
    PROVE  Append(SubSeq(s, 1, i), s[j]) = SubSeq(s, 1, j)
<1>1. Len(s) \in Nat /\ i <= Len(s) /\ j \in Nat /\ j \in 1..Len(s)
  OBVIOUS
<1>2. PICK a, b : a = SubSeq(s, 1, i) /\ b = SubSeq(s, 1, j)
  OBVIOUS
<1>3. a = [k \in 1..i |-> s[k]] /\ b = [k \in 1..j |-> s[k]]
  <2>1. a = [k \in 1..(i - 1 + 1) |-> s[1 + k - 1]] /\ b = [k \in 1..(j - 1 + 1) |-> s[1 + k - 1]]
    BY ONLY <1>1, <1>2
  <2> QED BY <1>1, <2>1
<1>4. a \in Seq(T) /\ Len(a) = i
  <2>1. \A k \in 1..i : s[k] \in T
    BY <1>1
  <2> QED BY <1>1, <1>3, <2>1
<1>5. s[j] \in T
  BY <1>1
<1>6. PICK c : c = Append(a, s[j])
  OBVIOUS
<1>7. c \in Seq(T) /\ Len(c) = i + 1
  BY ONLY <1>4, <1>5, <1>6, AppendProperties
<1>8. ASSUME NEW k \in 1..j PROVE c[k] = s[k]
  <2>1. CASE k = j
    BY ONLY <1>4, <1>5, <1>6, <2>1, AppendProperties, j = i + 1
  <2>2. CASE k # j
    <3>1. k \in 1..i
      BY <1>1, <2>2
    <3>2. c[k] = a[k]
      BY ONLY <1>4, <1>5, <1>6, <3>1, AppendProperties
    <3> QED BY <1>3, <3>1, <3>2
  <2> QED BY <2>1, <2>2
<1>9. c = [k \in 1..j |-> c[k]]
  BY ONLY <1>7, j = i + 1
<1>10. c = b
  BY ONLY <1>3, <1>8, <1>9
<1> QED BY ONLY <1>2, <1>6, <1>10

\* When some answers are read, the next one is read behind them.
LEMMA OneAnswerRead ==
    ASSUME NEW pkg \in Bytes, NEW known, QuestionIn(pkg, known), NEW compress \in BOOLEAN,
           NEW records, NEW ss, NEW F, NEW n, NEW p,
           AnswersIn(pkg, known, compress, records, ss, F, n, p),
           NEW sent, sent = Sent(known, records),
           NEW i \in Nat, NEW j, j = i + 1, j \in 1..n
    PROVE  AnswerRead(pkg, AnswersTo(p, F, sent, i)) = {AnswersTo(p, F, sent, j)}
<1>1. /\ records \in Seq(RecordType) /\ n \in Nat /\ n = Len(records) /\ KnownRecord(records[j])
      /\ ss[j] = RecordBytes(known, records[j], known, compress)
      /\ FlatAt(pkg, p, ss, F, n) /\ Len(F[0]) = 0
      /\ p \in Nat /\ p >= 12 + Len(Plain(known))
  BY ONLY AnswersIn(pkg, known, compress, records, ss, F, n, p), j \in 1..n DEF AnswersIn
<1>2. known \in Strings
  BY ONLY QuestionIn(pkg, known) DEF QuestionIn
<1>3. PICK l \in Nat : l = Len(Plain(known))
  <2>1. Plain(known) \in Bytes
    BY ONLY <1>2, PlainType
  <2> QED BY ONLY <2>1, LenProperties DEF Bytes
<1>4. /\ At(pkg, p + Len(F[i]), ss[j]) /\ Len(F[j]) = Len(F[i]) + Len(ss[j])
      /\ Len(F[i]) \in Nat /\ i \in 0..n
  <2>1. j - 1 = i /\ i \in 0..n
    BY ONLY <1>1, i \in Nat, j = i + 1, j \in 1..n
  <2>2. /\ \A k \in 0..n : At(pkg, p, F[k]) /\ Len(F[k]) \in Nat
        /\ \A k \in 1..n : /\ At(pkg, p + Len(F[k - 1]), ss[k])
                           /\ Len(F[k]) = Len(F[k - 1]) + Len(ss[k])
    BY ONLY <1>1 DEF FlatAt
  <2> QED BY ONLY <2>1, <2>2, j \in 1..n
<1>5. PICK at \in Nat : at = Offset(p, F, i)
  BY ONLY <1>1, <1>4 DEF Offset
<1>6. PICK next : next = Offset(p, F, j)
  OBVIOUS
<1>7. PICK r : r = records[j]
  OBVIOUS
<1>8. RecordIn(pkg, known, compress, r, at)
  <2>1. at = p + Len(F[i])
    BY ONLY <1>5 DEF Offset
  <2>2. at >= 12 + Len(Plain(known))
    BY ONLY <1>1, <1>3, <1>4, <2>1
  <2> QED BY ONLY <1>1, <1>4, <1>7, <2>1, <2>2, at \in Nat DEF RecordIn
<1>9. next = at + Len(RecordBytes(known, r, known, compress))
  <2>1. RecordBytes(known, r, known, compress) \in Bytes
    <3>1. r \in RecordType
      BY ONLY <1>1, <1>7 DEF KnownRecord
    <3> QED BY ONLY <1>2, <3>1, RecordBytesType
  <2>2. PICK m \in Nat : m = Len(RecordBytes(known, r, known, compress))
    BY ONLY <2>1, LenProperties DEF Bytes
  <2>3. Len(ss[j]) = m
    BY ONLY <1>1, <1>7, <2>2
  <2>4. next = p + Len(F[j]) /\ at = p + Len(F[i])
    BY ONLY <1>5, <1>6 DEF Offset
  <2>5. PICK a \in Nat : a = Len(F[i])
    BY ONLY <1>4
  <2>6. next = p + (a + m) /\ at = p + a /\ p \in Nat
    BY ONLY <1>1, <1>4, <2>3, <2>4, <2>5
  <2> QED BY ONLY <2>2, <2>6, m \in Nat, a \in Nat
<1>10. PICK alist : alist = SubSeq(sent, 1, i)
  OBVIOUS
<1>11. AnswerRead(pkg, Reading(at, alist)) = {Reading(next, Append(alist, Answer(known, r)))}
  BY ONLY <1>8, <1>9, AnswerIsRead, pkg \in Bytes, QuestionIn(pkg, known), compress \in BOOLEAN
<1>12. Append(alist, Answer(known, r)) = SubSeq(sent, 1, j)
  <2>1. sent = [k \in 1..n |-> Answer(known, records[k])]
    BY ONLY <1>1, sent = Sent(known, records) DEF Sent
  <2>2. ASSUME NEW k \in 1..n PROVE Answer(known, records[k]) \in AnswerType
    <3>1. records[k] \in RecordType
      BY ONLY <1>1, k \in 1..n
    <3> QED BY ONLY <1>2, <3>1 DEF AnswerType
  <2>3. sent \in Seq(AnswerType) /\ Len(sent) = n
    <3> HIDE DEF AnswerType
    <3> QED BY ONLY <1>1, <2>1, <2>2
  <2>4. sent[j] = Answer(known, r)
    BY ONLY <1>7, <2>1, j \in 1..n
  <2>5. j <= Len(sent)
    BY ONLY <1>1, <2>3, j \in 1..n
  <2>6. Append(SubSeq(sent, 1, i), sent[j]) = SubSeq(sent, 1, j)
    BY ONLY <2>3, <2>5, SubSeqAppend, i \in Nat, j = i + 1
  <2> QED BY ONLY <1>10, <2>4, <2>6
<1> QED BY ONLY <1>5, <1>6, <1>10, <1>11, <1>12 DEF AnswersTo

\* Answers are read one after another.
LEMMA AnswersAreRead ==
    ASSUME NEW pkg \in Bytes, NEW known, QuestionIn(pkg, known), NEW compress \in BOOLEAN,
           NEW records, NEW ss, NEW F, NEW n, NEW p,
           AnswersIn(pkg, known, compress, records, ss, F, n, p),
           NEW sent, sent = Sent(known, records)
    PROVE  AnswersRead(pkg, n, {AnswersTo(p, F, sent, 0)}) = {AnswersTo(p, F, sent, n)}
<1>0. n \in Nat
  BY DEF AnswersIn
<1> DEFINE first == {AnswersTo(p, F, sent, 0)}
           g == [i \in 0..n |-> {AnswersTo(p, F, sent, i)}]
           f == CHOOSE f : f = AnswersFrom(pkg, n, first, f)
           S == {i \in 0..n : f[i] = {AnswersTo(p, F, sent, i)}}
<1>1. ASSUME NEW i \in Nat, NEW j, j = i + 1, j \in 1..n, NEW G, G = {AnswersTo(p, F, sent, i)}
      PROVE  UNION {AnswerRead(pkg, res) : res \in G} = {AnswersTo(p, F, sent, j)}
  <2>1. AnswerRead(pkg, AnswersTo(p, F, sent, i)) = {AnswersTo(p, F, sent, j)}
    BY ONLY <1>1, OneAnswerRead, pkg \in Bytes, QuestionIn(pkg, known), compress \in BOOLEAN,
            AnswersIn(pkg, known, compress, records, ss, F, n, p), sent = Sent(known, records)
  <2> QED BY ONLY <1>1, <2>1
<1>2. g = AnswersFrom(pkg, n, first, g)
  <2>1. ASSUME NEW j \in 0..n
        PROVE  g[j] = IF j = 0 THEN first ELSE UNION {AnswerRead(pkg, res) : res \in g[j - 1]}
    <3>1. CASE j = 0
      BY ONLY <3>1, j \in 0..n
    <3>2. CASE j # 0
      <4>1. PICK i \in Nat : i = j - 1
        BY ONLY <1>0, <3>2, j \in 0..n
      <4>2. j = i + 1 /\ j \in 1..n /\ i \in 0..n
        BY ONLY <1>0, <3>2, <4>1, j \in 0..n, i \in Nat
      <4>3. PICK G : G = g[i]
        OBVIOUS
      <4>4. G = {AnswersTo(p, F, sent, i)} /\ g[j] = {AnswersTo(p, F, sent, j)}
        BY ONLY <4>2, <4>3, j \in 0..n
      <4>5. UNION {AnswerRead(pkg, res) : res \in G} = {AnswersTo(p, F, sent, j)}
        BY ONLY <1>1, <4>2, <4>4, i \in Nat
      <4> HIDE DEF g
      <4> QED BY ONLY <3>2, <4>1, <4>3, <4>4, <4>5
    <3> QED BY <3>1, <3>2
  <2>2. g = [j \in 0..n |-> g[j]]
    OBVIOUS
  <2> HIDE DEF g, first
  <2> QED BY ONLY <2>1, <2>2 DEF AnswersFrom
<1>3. f = AnswersFrom(pkg, n, first, f)
  <2>1. \E h : h = AnswersFrom(pkg, n, first, h)
    <3> HIDE DEF g, first
    <3> QED BY ONLY <1>2
  <2> HIDE DEF first
  <2> QED BY ONLY <2>1
<1>4. AnswersRead(pkg, n, first) = f[n]
  BY DEF AnswersRead
<1> HIDE DEF f
<1>5. 0 \in S
  <2>1. f[0] = first
    <3> HIDE DEF first
    <3> QED BY ONLY <1>0, <1>3 DEF AnswersFrom
  <2> QED BY ONLY <1>0, <2>1
<1>6. ASSUME NEW i \in 0..n - 1, i \in S PROVE i + 1 \in S
  <2>1. PICK j : j = i + 1
    OBVIOUS
  <2>2. i \in Nat /\ j \in 1..n /\ j \in 0..n /\ j # 0 /\ j - 1 = i
    BY ONLY <1>0, <2>1, i \in 0..n - 1
  <2>3. f[j] = UNION {AnswerRead(pkg, res) : res \in f[j - 1]}
    <3> HIDE DEF first
    <3> QED BY ONLY <1>3, <2>2 DEF AnswersFrom
  <2>4. PICK G : G = f[i]
    OBVIOUS
  <2>5. G = {AnswersTo(p, F, sent, i)}
    BY ONLY <1>6, <2>4
  <2>6. UNION {AnswerRead(pkg, res) : res \in G} = {AnswersTo(p, F, sent, j)}
    BY ONLY <1>1, <2>1, <2>2, <2>5
  <2>7. f[j] = {AnswersTo(p, F, sent, j)}
    BY ONLY <2>2, <2>3, <2>4, <2>6
  <2> QED BY ONLY <2>1, <2>2, <2>7
<1>7. n \in S
  <2>1. n \in Int /\ 0 \in Int /\ n \in 0..n
    BY <1>0
  <2>2. \A i \in 0..n - 1 : i \in S => i + 1 \in S
    BY ONLY <1>6
  <2> HIDE DEF S
  <2>3. 0..n \subseteq S
    BY ONLY <1>5, <2>1, <2>2, UpFrom
  <2> QED BY ONLY <2>1, <2>3
<1> QED BY ONLY <1>4, <1>7

MatchError == [error |-> "id_match_err", alist |-> <<>>]
ResolvError == [error |-> "resolv_err", alist |-> <<>>]
NoError(alist) == [error |-> "noerror", alist |-> alist]

\* What a server is asked, and answers.
Asked(question) == question.name \in Strings /\ question.type \in Nat

\* A respond that was written, with its records put together.
LEMMA ReplyWritten ==
    ASSUME NEW i \in Nat, NEW rcode \in Nat, NEW question, Asked(question),
           NEW records \in Seq(RecordType), NEW compress,
           NEW pkg, pkg = WireRespond(i, rcode, question, records, compress)
    PROVE  \E ss, F, n, rest :
              /\ ss = RecordsBytes(question, records, compress) /\ ss \in Strings
              /\ IsFlat(F, ss) /\ n \in Nat /\ n = Len(records) /\ n = Len(ss)
              /\ rest = F[n] /\ Respond(pkg, i, rcode, question, n, rest)
<1>0. question.name \in Strings /\ question.type \in Nat
  BY ONLY Asked(question) DEF Asked
<1>1. PICK ss : ss = RecordsBytes(question, records, compress)
  OBVIOUS
<1>2. PICK n \in Nat : n = Len(records)
  OBVIOUS
<1>3. ss \in Strings /\ Len(ss) = n
  BY ONLY <1>0, <1>1, <1>2, RecordsFacts, records \in Seq(RecordType)
<1>4. PICK F : IsFlat(F, ss)
  BY ONLY <1>3, FlatExists
<1>5. PICK rest : rest = F[n]
  OBVIOUS
<1>6. rest \in Bytes
  BY ONLY <1>3, <1>4, <1>5, n \in Nat DEF IsFlat
<1>7. FlattenSeq(ss) = F[n]
  <2>1. Len(ss) <= Len(ss) /\ \A k \in 1..Len(ss) : ss[k] = ss[k]
    BY ONLY <1>3, n \in Nat
  <2>2. FlattenSeq(ss) = F[Len(ss)]
    BY ONLY <1>3, <1>4, <2>1, FlatValue
  <2> QED BY ONLY <1>3, <2>2
<1>8. Respond(pkg, i, rcode, question, n, rest)
  BY ONLY <1>0, <1>1, <1>2, <1>5, <1>6, <1>7, RespondWritten, i \in Nat, rcode \in Nat,
          n \in Nat, pkg = WireRespond(i, rcode, question, records, compress)
<1> QED BY ONLY <1>1, <1>2, <1>3, <1>4, <1>5, <1>8

\* An error code, of 4 bits.
Codes == 0..15

\* What is received of a package: its beginning, and all of it if it is short.
LEMMA ReceivedFacts ==
    ASSUME NEW s \in Bytes
    PROVE  /\ Len(s) <= 512 => Received(s) = s
           /\ Len(s) >= 4 => \A k \in 1..4 : Received(s)[k] = s[k]
<1>1. Len(s) \in Nat
  BY LenProperties DEF Bytes
<1>2. PICK m \in Nat : m = max_pkg_size /\ m = 512
  BY ONLY TRUE DEF max_pkg_size
<1>3. Received(s) = IF Len(s) <= m THEN s ELSE SubSeq(s, 1, m)
  BY ONLY <1>2 DEF Received
<1>4. Len(s) <= 512 => Received(s) = s
  BY ONLY <1>2, <1>3
<1>5. ASSUME Len(s) >= 4, NEW k \in 1..4, ~(Len(s) <= m) PROVE Received(s)[k] = s[k]
  <2>1. 1 \in 1..Len(s) + 1 /\ m \in 0..Len(s)
    BY ONLY <1>1, <1>2, <1>5
  <2>2. SubSeq(s, 1, m) = [n \in 1..m |-> s[n]]
    BY ONLY <2>1, s \in Bytes DEF Bytes
  <2>3. k \in 1..m
    BY ONLY <1>2, k \in 1..4
  <2>4. SubSeq(s, 1, m)[k] = s[k]
    BY ONLY <2>2, <2>3
  <2> QED BY ONLY <1>3, <1>5, <2>4
<1> QED BY ONLY <1>3, <1>4, <1>5

\* The identifier and the code are in what is received.
LEMMA WordsReceived ==
    ASSUME NEW pkg \in Bytes, Len(pkg) >= 4, NEW r, r = Received(pkg)
    PROVE  BuffRead(r, 0, 2) = BuffRead(pkg, 0, 2) /\ GetError(r) = GetError(pkg)
<1>1. \A k \in 1..4 : r[k] = pkg[k]
  BY ONLY ReceivedFacts, pkg \in Bytes, Len(pkg) >= 4, r = Received(pkg)
<1>2. Len(pkg) \in Nat
  BY LenProperties DEF Bytes
<1>3. PICK a, b : a = pkg[1] /\ b = pkg[2]
  OBVIOUS
<1>4. a \in Nat /\ b \in Nat
  BY ONLY <1>2, <1>3, pkg \in Bytes, Len(pkg) >= 4 DEF Bytes
<1>5. r[1] = a /\ r[2] = b /\ r[4] = pkg[4]
  BY ONLY <1>1, <1>3
<1>6. BuffRead(pkg, 0, 2) = 256 * a + b
  <2>1. pkg[0 + 1] = a /\ pkg[0 + 2] = b /\ 0 \in Nat
    BY ONLY <1>3
  <2> QED BY ONLY <1>4, <2>1, BuffReadTwo
<1>7. BuffRead(r, 0, 2) = 256 * a + b
  <2>1. r[0 + 1] = a /\ r[0 + 2] = b /\ 0 \in Nat
    BY ONLY <1>5
  <2> QED BY ONLY <1>4, <2>1, BuffReadTwo
<1> QED BY ONLY <1>5, <1>6, <1>7 DEF GetError

\* The parser finds the identifier and the code of a respond.
LEMMA WordsRead ==
    ASSUME NEW i \in Nat, NEW rcode \in Codes, NEW question, Asked(question),
           NEW records \in Seq(RecordType), NEW compress,
           NEW pkg, pkg = WireRespond(i, rcode, question, records, compress)
    PROVE  /\ pkg \in Bytes /\ BuffRead(pkg, 0, 2) = i /\ GetError(pkg) = rcode
           /\ BuffRead(Received(pkg), 0, 2) = i /\ GetError(Received(pkg)) = rcode
<1>0. rcode \in Nat
  BY DEF Codes
<1>1. PICK n, rest : Respond(pkg, i, rcode, question, n, rest)
  BY ONLY <1>0, ReplyWritten, i \in Nat, Asked(question), records \in Seq(RecordType),
          pkg = WireRespond(i, rcode, question, records, compress)
<1>2. BuffRead(pkg, 0, 2) = i /\ pkg[4] = 128 + rcode /\ pkg \in Bytes
  BY ONLY <1>1 DEF Respond
<1>3. (128 + rcode) % 16 = rcode
  BY ONLY rcode \in Codes DEF Codes
<1>4. Len(pkg) >= 4
  <2>1. PICK name : name = Plain(question.name)
    OBVIOUS
  <2>2. Len(name) \in Nat
    BY ONLY <2>1, PlainType, LenProperties, Asked(question) DEF Asked, Bytes
  <2>3. 12 + Len(name) <= Len(pkg)
    BY ONLY <1>1, <2>1 DEF Respond, At
  <2>4. Len(pkg) \in Nat
    BY ONLY <1>2, LenProperties DEF Bytes
  <2> QED BY ONLY <2>2, <2>3, <2>4
<1>5. GetError(pkg) = rcode
  BY ONLY <1>2, <1>3 DEF GetError
<1> QED BY ONLY <1>2, <1>4, <1>5, WordsReceived

\* A respond of others, and one that tells of an error, whole or not.
LEMMA ErrorsRead ==
    ASSUME NEW i \in Nat, NEW rcode \in Codes, NEW question, Asked(question),
           NEW records \in Seq(RecordType), NEW compress,
           NEW pkg, pkg = WireRespond(i, rcode, question, records, compress), NEW id
    PROVE  /\ i # id => RespondParsed(Received(pkg), id) = {MatchError}
           /\ i = id /\ rcode # 0 => RespondParsed(Received(pkg), id) = {ResolvError}
<1>1. BuffRead(Received(pkg), 0, 2) = i /\ GetError(Received(pkg)) = rcode
  BY ONLY WordsRead, i \in Nat, rcode \in Codes, Asked(question), records \in Seq(RecordType),
          pkg = WireRespond(i, rcode, question, records, compress)
<1> QED BY ONLY <1>1, ParsedCases DEF MatchError, ResolvError

\* A respond that the parser knows is read as it was meant.
LEMMA ReplyRead ==
    ASSUME NEW id \in Nat, NEW question, Asked(question), Known(question.name),
           question.name # <<>>,
           NEW records \in Seq(RecordType), \A k \in 1..Len(records) : KnownRecord(records[k]),
           NEW compress \in BOOLEAN,
           NEW pkg, pkg = WireRespond(id, 0, question, records, compress)
    PROVE  RespondParsed(pkg, id) = {NoError(Meaning(question, records))}
<1>0. 0 \in Nat /\ 0 \in 0..15
  OBVIOUS
<1>1. PICK ss, F, n, rest :
         /\ ss = RecordsBytes(question, records, compress) /\ ss \in Strings
         /\ IsFlat(F, ss) /\ n \in Nat /\ n = Len(records) /\ n = Len(ss)
         /\ rest = F[n] /\ Respond(pkg, id, 0, question, n, rest)
  BY ONLY <1>0, ReplyWritten, id \in Nat, Asked(question), records \in Seq(RecordType),
          pkg = WireRespond(id, 0, question, records, compress)
<1>21. DOMAIN records = 1..n
  <2>1. n = Len(records)
    BY ONLY <1>1
  <2> QED BY ONLY <2>1, records \in Seq(RecordType)
<1>2. PICK known : known = question.name
  OBVIOUS
<1>3. known \in Strings /\ Legal(known) /\ known # <<>> /\ Len(Plain(known)) <= 255
  BY ONLY <1>2, Asked(question), Known(question.name), question.name # <<>> DEF Asked, Known
<1>4. /\ pkg \in Bytes
      /\ BuffRead(pkg, 4, 2) = 1 /\ BuffRead(pkg, 6, 2) = n
      /\ At(pkg, 12, Plain(known)) /\ At(pkg, 12 + Len(Plain(known)) + 4, rest)
  BY ONLY <1>1, <1>2 DEF Respond
<1>5. QuestionIn(pkg, known)
  BY ONLY <1>3, <1>4 DEF QuestionIn
<1>6. PICK l \in Nat : l = Len(Plain(known))
  <2>1. Plain(known) \in Bytes
    BY ONLY <1>3, PlainType
  <2> QED BY ONLY <2>1, LenProperties DEF Bytes
<1>7. PICK p \in Nat : p = 12 + Len(Plain(known)) + 4
  BY ONLY <1>6, l \in Nat
<1>8. FlatAt(pkg, p, ss, F, n)
  <2>1. n \in 0..Len(ss)
    BY ONLY <1>1
  <2> QED BY ONLY <1>1, <1>4, <1>7, <2>1, AtFlat, p \in Nat
<1>9. \A k \in 1..n : ss[k] = RecordBytes(known, records[k], known, compress)
  <2>1. \A j \in 1..Len(records) : records[j].type # 5
    <3> TAKE j \in 1..Len(records)
    <3>1. KnownRecord(records[j])
      OBVIOUS
    <3> QED BY ONLY <3>1 DEF KnownRecord
  <2>2. ASSUME NEW k \in 1..n
        PROVE  ss[k] = RecordBytes(known, records[k], known, compress)
    <3>1. k \in 1..Len(records) /\ k \in DOMAIN records
      BY ONLY <1>1, <1>21, k \in 1..n
    <3>2. question.name \in Strings
      BY ONLY <1>2, <1>3
    <3>3. Meaning(question, records)[k].req_name = known
      BY ONLY <1>2, <2>1, <3>1, <3>2, OwnerFacts, records \in Seq(RecordType)
    <3>4. ss[k] = RecordBytes(Meaning(question, records)[k].req_name, records[k],
                              question.name, compress)
      BY ONLY <1>1, <3>1 DEF RecordsBytes
    <3> QED BY ONLY <1>2, <3>3, <3>4
  <2> QED BY ONLY <2>2
<1>10. AnswersIn(pkg, known, compress, records, ss, F, n, p)
  <2>1. Len(F[0]) = 0
    <3>1. F[0] = <<>>
      BY ONLY <1>1 DEF IsFlat
    <3> QED BY ONLY <3>1
  <2>2. p >= 12 + Len(Plain(known))
    BY ONLY <1>6, <1>7, l \in Nat
  <2>3. \A k \in 1..n : KnownRecord(records[k])
    BY ONLY <1>1, \A k \in 1..Len(records) : KnownRecord(records[k])
  <2> QED BY ONLY <1>1, <1>8, <1>9, <2>1, <2>2, <2>3, records \in Seq(RecordType), p \in Nat
             DEF AnswersIn
<1>11. PICK sent : sent = Sent(known, records)
  OBVIOUS
<1>12. AnswersRead(pkg, n, {AnswersTo(p, F, sent, 0)}) = {AnswersTo(p, F, sent, n)}
  BY ONLY <1>4, <1>5, <1>10, <1>11, AnswersAreRead, compress \in BOOLEAN
<1>13. QuestionsRead(pkg, 1) = {Reading(p, <<>>)}
  BY ONLY <1>4, <1>5, <1>7, QuestionsAreRead
<1>14. sent = Meaning(question, records) /\ sent = [k \in 1..n |-> sent[k]]
  <2>1. DOMAIN records = 1..n
    BY ONLY <1>21
  <2>2. \A k \in 1..n : Meaning(question, records)[k].req_name = known
    <3> TAKE k \in 1..n
    <3>1. \A j \in 1..Len(records) : records[j].type # 5
      <4> TAKE j \in 1..Len(records)
      <4>1. KnownRecord(records[j])
        OBVIOUS
      <4> QED BY ONLY <4>1 DEF KnownRecord
    <3>2. question.name \in Strings /\ k \in 1..Len(records)
      BY <1>1, <1>2, <1>3
    <3> QED BY ONLY <1>2, <3>1, <3>2, OwnerFacts, records \in Seq(RecordType)
  <2>3. \A k \in 1..n : Meaning(question, records)[k] =
           [req_name |-> Meaning(question, records)[k].req_name, type |-> records[k].type,
            preference |-> records[k].preference, answer |-> records[k].answer]
    BY ONLY <2>1 DEF Meaning
  <2>4. Meaning(question, records) = [k \in 1..n |-> Meaning(question, records)[k]]
    BY ONLY <2>1 DEF Meaning
  <2>5. sent = [k \in 1..n |-> Answer(known, records[k])]
    BY ONLY <1>11, <2>1 DEF Sent
  <2>6. \A k \in 1..n : sent[k] = Meaning(question, records)[k]
    BY ONLY <2>2, <2>3, <2>5 DEF Answer, DnsPkgAnswer
  <2> QED BY ONLY <2>4, <2>5, <2>6
<1>15. AnswersTo(p, F, sent, 0) = Reading(p, <<>>)
  <2>1. Len(F[0]) = 0
    BY ONLY <1>10 DEF AnswersIn
  <2>2. Offset(p, F, 0) = p
    BY ONLY <2>1, p \in Nat DEF Offset
  <2>3. SubSeq(sent, 1, 0) = <<>>
    BY ONLY TRUE
  <2> QED BY ONLY <2>2, <2>3 DEF AnswersTo
<1>16. AnswersTo(p, F, sent, n).alist = sent
  <2>1. AnswersTo(p, F, sent, n).alist = SubSeq(sent, 1, n)
    BY ONLY TRUE DEF AnswersTo, Reading
  <2>2. SubSeq(sent, 1, n) = [k \in 1..(n - 1 + 1) |-> sent[1 + k - 1]]
    BY ONLY <1>1
  <2>3. n - 1 + 1 = n /\ \A k \in 1..n : 1 + k - 1 = k
    BY ONLY <1>1
  <2>4. SubSeq(sent, 1, n) = [k \in 1..n |-> sent[k]]
    BY ONLY <2>2, <2>3
  <2> QED BY ONLY <1>14, <2>1, <2>4
<1>17. BuffRead(pkg, 0, 2) = id /\ GetError(pkg) = 0
  <2>1. PICK rcode : rcode = 0
    OBVIOUS
  <2>2. rcode \in Codes /\ pkg = WireRespond(id, rcode, question, records, compress)
    BY ONLY <1>0, <2>1, pkg = WireRespond(id, 0, question, records, compress) DEF Codes
  <2>3. BuffRead(pkg, 0, 2) = id /\ GetError(pkg) = rcode
    BY ONLY <2>2, WordsRead, id \in Nat, Asked(question), records \in Seq(RecordType)
  <2> QED BY ONLY <2>1, <2>3
<1>18. RespondParsed(pkg, id) =
          {[error |-> "noerror", alist |-> res.alist] :
             res \in AnswersRead(pkg, n, QuestionsRead(pkg, 1))}
  BY ONLY <1>4, <1>17, ParsedCases
<1>19. PICK res : res = AnswersTo(p, F, sent, n)
  OBVIOUS
<1>20. RespondParsed(pkg, id) = {[error |-> "noerror", alist |-> res.alist]}
  BY ONLY <1>12, <1>13, <1>15, <1>18, <1>19
<1> QED BY ONLY <1>14, <1>16, <1>19, <1>20 DEF NoError

-----------------------------------------------------------------------------
(* What a client writes. *)

\* What a name has to be to be written as it is.
Writable(name) == name \in Strings /\ Legal(name)

\* A legal name is written section by section.
LEMMA NameWritten ==
    ASSUME NEW name, Writable(name)
    PROVE  WriteQdn(name) = Plain(name)
<1>1. ASSUME NEW i \in DOMAIN name PROVE Len(name[i]) % 256 = Len(name[i])
  <2>1. PICK m : m = Len(name[i])
    OBVIOUS
  <2>2. m \in 1..63
    BY ONLY <2>1, Writable(name), i \in DOMAIN name DEF Writable, Legal
  <2>3. m % 256 = m
    BY ONLY <2>2
  <2> QED BY ONLY <2>1, <2>3
<1>2. [i \in DOMAIN name |-> <<Len(name[i]) % 256>> \o name[i]] =
         [i \in DOMAIN name |-> <<Len(name[i])>> \o name[i]]
  BY ONLY <1>1
<1> QED BY ONLY <1>2 DEF WriteQdn, Plain

\* What a list with another behind it is.
LEMMA ConcatFacts ==
    ASSUME NEW s \in Strings, NEW t \in Strings
    PROVE  /\ s \o t \in Strings /\ Len(s) \in Nat /\ Len(t) \in Nat
           /\ Len(s \o t) = Len(s) + Len(t)
           /\ \A i \in 1..Len(s) + Len(t) :
                 (s \o t)[i] = IF i <= Len(s) THEN s[i] ELSE t[i - Len(s)]
BY ConcatProperties DEF Strings

\* What is behind the address in a PTR request.
LEMMA ArpaFacts == InAddrArpa \in Strings /\ Len(InAddrArpa) = 2 /\ Legal(InAddrArpa)
<1>1. PICK a, b : a = <<105, 110, 45, 97, 100, 100, 114>> /\ b = <<97, 114, 112, 97>>
  BY ONLY TRUE
<1>2. a \in Bytes /\ Len(a) = 7 /\ b \in Bytes /\ Len(b) = 4
  BY ONLY <1>1 DEF Bytes
<1>3. InAddrArpa = <<a, b>>
  BY ONLY <1>1 DEF InAddrArpa
<1>4. <<a, b>> \in Seq(Bytes) /\ Len(<<a, b>>) = 2 /\ DOMAIN <<a, b>> = 1..2
      /\ <<a, b>>[1] = a /\ <<a, b>>[2] = b
  BY ONLY <1>2
<1>5. \A i \in 1..2 : Len(<<a, b>>[i]) \in 1..63
  BY ONLY <1>2, <1>4
<1> QED BY ONLY <1>3, <1>4, <1>5 DEF Strings, Legal

\* An address backwards below in-addr.arpa.
LEMMA ReverseFacts ==
    ASSUME NEW name \in Strings
    PROVE  /\ Reverse(name) \o InAddrArpa \in Strings
           /\ Reverse(name) \o InAddrArpa # <<>>
           /\ Legal(name) => Legal(Reverse(name) \o InAddrArpa)
<1>1. PICK n \in Nat : n = Len(name)
  BY DEF Strings
<1>2. PICK r, u : r = Reverse(name) /\ u = r \o InAddrArpa
  OBVIOUS
<1>3. r = [i \in 1..n |-> name[(n - i) + 1]]
  BY ONLY <1>1, <1>2 DEF Reverse
<1>4. ASSUME NEW i \in 1..n
      PROVE  /\ (n - i) + 1 \in 1..n /\ name[(n - i) + 1] \in Bytes
             /\ Legal(name) => Len(name[(n - i) + 1]) \in 1..63
  <2>1. PICK j : j = (n - i) + 1
    OBVIOUS
  <2>2. j \in 1..n /\ j \in DOMAIN name
    BY <1>1, <2>1 DEF Strings
  <2>3. name[j] \in Bytes
    BY ONLY <1>1, <2>2, name \in Strings DEF Strings
  <2> QED BY ONLY <2>1, <2>2, <2>3 DEF Legal
<1>5. r \in Strings /\ Len(r) = n
  BY ONLY <1>3, <1>4, n \in Nat DEF Strings
<1>6. u \in Strings /\ Len(u) = n + 2
      /\ \A i \in 1..n + 2 : u[i] = IF i <= n THEN r[i] ELSE InAddrArpa[i - n]
  <2>1. /\ r \o InAddrArpa \in Strings
        /\ Len(r \o InAddrArpa) = Len(r) + Len(InAddrArpa)
        /\ \A i \in 1..Len(r) + Len(InAddrArpa) :
              (r \o InAddrArpa)[i] = IF i <= Len(r) THEN r[i] ELSE InAddrArpa[i - Len(r)]
    BY ONLY <1>5, ArpaFacts, ConcatFacts
  <2> QED BY ONLY <1>2, <1>5, <2>1, ArpaFacts
<1>7. u # <<>>
  <2>1. Len(u) # 0
    BY ONLY <1>6, n \in Nat
  <2> QED BY ONLY <2>1
<1>8. ASSUME Legal(name) PROVE Legal(u)
  <2>1. DOMAIN u = 1..n + 2
    BY ONLY <1>6 DEF Strings
  <2>2. ASSUME NEW i \in 1..n + 2 PROVE Len(u[i]) \in 1..63
    <3>1. CASE i <= n
      <4>1. i \in 1..n
        BY ONLY <3>1, i \in 1..n + 2, n \in Nat
      <4>2. u[i] = name[(n - i) + 1]
        BY ONLY <1>3, <1>6, <3>1, <4>1, i \in 1..n + 2
      <4> QED BY ONLY <1>4, <1>8, <4>1, <4>2
    <3>2. CASE ~(i <= n)
      <4>1. PICK j : j = i - n
        OBVIOUS
      <4>2. j \in 1..2 /\ u[i] = InAddrArpa[j]
        BY ONLY <1>6, <3>2, <4>1, i \in 1..n + 2, n \in Nat
      <4>3. DOMAIN InAddrArpa = 1..2
        BY ONLY ArpaFacts DEF Strings
      <4> QED BY ONLY <4>2, <4>3, ArpaFacts DEF Legal
    <3> QED BY ONLY <3>1, <3>2
  <2> QED BY ONLY <2>1, <2>2 DEF Legal
<1> QED BY ONLY <1>2, <1>6, <1>7, <1>8

\* What a string of bytes with another behind it is.
LEMMA BytesConcat ==
    ASSUME NEW u, NEW s, NEW t, IsConcat(u, s, t)
    PROVE  /\ u \in Bytes /\ Len(s) \in Nat /\ Len(t) \in Nat /\ Len(u) = Len(s) + Len(t)
           /\ \A i \in 1..Len(s) + Len(t) : u[i] = IF i <= Len(s) THEN s[i] ELSE t[i - Len(s)]
<1>1. s \in Bytes /\ t \in Bytes /\ u = s \o t
  BY DEF IsConcat
<1> QED BY ONLY <1>1, ConcatProperties DEF Bytes

\* It does not matter which two of three strings are put together first.
LEMMA Associative ==
    ASSUME NEW s, NEW t, NEW u, NEW a, NEW b, NEW c, NEW x,
           IsConcat(a, s, t), IsConcat(b, a, u), IsConcat(x, t, u), IsConcat(c, s, x)
    PROVE  b = c
<1>1. PICK k \in Nat, m \in Nat, n \in Nat : k = Len(s) /\ m = Len(t) /\ n = Len(u)
  <2>1. Len(s) \in Nat /\ Len(t) \in Nat /\ Len(u) \in Nat
    BY ONLY IsConcat(a, s, t), IsConcat(b, a, u), BytesConcat
  <2> QED BY ONLY <2>1
<1>2. Len(a) = k + m /\ \A i \in 1..k + m : a[i] = IF i <= k THEN s[i] ELSE t[i - k]
  BY ONLY <1>1, IsConcat(a, s, t), BytesConcat
<1>3. Len(x) = m + n /\ \A i \in 1..m + n : x[i] = IF i <= m THEN t[i] ELSE u[i - m]
  BY ONLY <1>1, IsConcat(x, t, u), BytesConcat
<1>4. PICK h \in Nat : h = k + m
  BY ONLY k \in Nat, m \in Nat
<1>5. /\ b \in Bytes /\ Len(b) = h + n
      /\ \A i \in 1..h + n : b[i] = IF i <= h THEN a[i] ELSE u[i - h]
  <2>1. Len(a) = h
    BY ONLY <1>2, <1>4
  <2> QED BY ONLY <1>1, <2>1, IsConcat(b, a, u), BytesConcat
<1>6. PICK j \in Nat : j = m + n
  BY ONLY m \in Nat, n \in Nat
<1>7. /\ c \in Bytes /\ Len(c) = k + j
      /\ \A i \in 1..k + j : c[i] = IF i <= k THEN s[i] ELSE x[i - k]
  <2>1. Len(x) = j
    BY ONLY <1>3, <1>6
  <2> QED BY ONLY <1>1, <2>1, IsConcat(c, s, x), BytesConcat
<1>8. h + n = k + j
  BY ONLY <1>4, <1>6, k \in Nat, m \in Nat, n \in Nat
<1>9. ASSUME NEW i \in 1..h + n PROVE b[i] = c[i]
  <2>0. i \in Nat /\ i \in 1..k + j
    BY ONLY <1>8, i \in 1..h + n, h \in Nat, n \in Nat
  <2>1. CASE i <= k
    <3>1. i <= h /\ i \in 1..k + m
      BY ONLY <1>4, <2>1, i \in 1..h + n, k \in Nat, m \in Nat
    <3>2. b[i] = s[i]
      BY ONLY <1>2, <1>5, <2>1, <3>1, i \in 1..h + n
    <3> QED BY ONLY <1>7, <2>0, <2>1, <3>2
  <2>2. CASE ~(i <= k) /\ i <= h
    <3>1. PICK q : q = i - k
      OBVIOUS
    <3>2. i \in 1..k + m /\ q \in 1..m + n /\ q <= m
      BY ONLY <1>4, <2>0, <2>2, <3>1, k \in Nat, m \in Nat, n \in Nat
    <3>3. b[i] = t[q]
      BY ONLY <1>2, <1>5, <2>2, <3>1, <3>2, i \in 1..h + n
    <3>4. c[i] = t[q]
      BY ONLY <1>3, <1>7, <2>0, <2>2, <3>1, <3>2
    <3> QED BY ONLY <3>3, <3>4
  <2>3. CASE ~(i <= k) /\ ~(i <= h)
    <3>1. PICK q : q = i - k
      OBVIOUS
    <3>2. q \in 1..m + n /\ ~(q <= m) /\ q - m = i - h
      BY ONLY <1>4, <2>3, <3>1, i \in 1..h + n, k \in Nat, m \in Nat, n \in Nat, h \in Nat
    <3>3. c[i] = u[q - m]
      BY ONLY <1>3, <1>7, <2>0, <2>3, <3>1, <3>2
    <3>4. b[i] = u[i - h]
      BY ONLY <1>5, <2>3, i \in 1..h + n
    <3> QED BY ONLY <3>2, <3>3, <3>4
  <2> QED BY ONLY <2>1, <2>2, <2>3
<1>10. Len(b) = Len(c) /\ \A i \in 1..Len(b) : b[i] = c[i]
  BY ONLY <1>5, <1>7, <1>8, <1>9
<1> QED BY ONLY <1>5, <1>7, <1>10, SeqEqual DEF Bytes

\* A word behind a string of n bytes.
AddsWord(u, s, n, a, b) ==
    u = s \o <<a, b>> /\ s \in Bytes /\ n \in Nat /\ n = Len(s) /\ a \in Nat /\ b \in Nat

\* A string with a word behind it.
LEMMA AddWord ==
    ASSUME NEW u, NEW s, NEW n, NEW a, NEW b, AddsWord(u, s, n, a, b)
    PROVE  /\ u \in Bytes /\ Len(u) = n + 2
           /\ \A i \in 1..n : u[i] = s[i]
           /\ u[n + 1] = a /\ u[n + 2] = b
<1>0. s \in Bytes /\ n \in Nat /\ n = Len(s) /\ a \in Nat /\ b \in Nat
  BY DEF AddsWord
<1> PICK t : t = <<a, b>>
  OBVIOUS
<1>7. u = s \o t
  BY DEF AddsWord
<1>1. t \in Bytes /\ Len(t) = 2 /\ t[1] = a /\ t[2] = b
  BY ONLY <1>0, t = <<a, b>> DEF Bytes
<1>2. /\ u \in Bytes /\ Len(u) = Len(s) + Len(t)
      /\ \A i \in 1..Len(s) + Len(t) : u[i] = IF i <= Len(s) THEN s[i] ELSE t[i - Len(s)]
  BY ONLY <1>0, <1>1, <1>7, ConcatProperties DEF Bytes
<1>3. \A i \in 1..n + 2 : u[i] = IF i <= n THEN s[i] ELSE t[i - n]
  BY ONLY <1>1, <1>2, <1>0
<1>4. ASSUME NEW i \in 1..n PROVE u[i] = s[i]
  <2>1. i \in 1..n + 2 /\ i <= n
    BY ONLY i \in 1..n, <1>0
  <2> QED BY ONLY <1>3, <2>1
<1>5. u[n + 1] = a
  <2>1. PICK i : i = n + 1
    OBVIOUS
  <2>2. i \in 1..n + 2 /\ ~(i <= n) /\ i - n = 1
    BY ONLY <2>1, <1>0
  <2> QED BY ONLY <1>1, <1>3, <2>1, <2>2
<1>6. u[n + 2] = b
  <2>1. PICK i : i = n + 2
    OBVIOUS
  <2>2. i \in 1..n + 2 /\ ~(i <= n) /\ i - n = 2
    BY ONLY <2>1, <1>0
  <2> QED BY ONLY <1>1, <1>3, <2>1, <2>2
<1> QED BY ONLY <1>1, <1>2, <1>4, <1>5, <1>6, <1>0

\* The words behind the identifier.
LEMMA HeaderWords ==
    ASSUME NEW f, f = <<1, 0>>, NEW g, g = <<0, 1>>, NEW z, z = <<0, 0>>,
           NEW a, a = f \o g, NEW b, b = a \o z, NEW c, c = b \o z, NEW d, d = c \o z
    PROVE  /\ a \in Bytes /\ b \in Bytes /\ c \in Bytes
           /\ d = <<1, 0, 0, 1, 0, 0, 0, 0, 0, 0>>
<1>0. 0 \in Nat /\ 1 \in Nat
  OBVIOUS
<1>1. f \in Bytes /\ Len(f) = 2 /\ f[1] = 1 /\ f[2] = 0
  BY ONLY f = <<1, 0>> DEF Bytes
<1>2. a \in Bytes /\ Len(a) = 4 /\ a[1] = 1 /\ a[2] = 0 /\ a[3] = 0 /\ a[4] = 1
  <2>1. PICK n \in Nat : n = Len(f)
    BY ONLY <1>1
  <2>2. /\ a \in Bytes /\ Len(a) = n + 2 /\ \A i \in 1..n : a[i] = f[i]
        /\ a[n + 1] = 0 /\ a[n + 2] = 1
    <3>1. a = f \o <<0, 1>>
      BY ONLY g = <<0, 1>>, a = f \o g
    <3>2. AddsWord(a, f, n, 0, 1)
      BY ONLY <1>0, <1>1, <2>1, <3>1 DEF AddsWord
    <3> QED BY ONLY <3>2, AddWord
  <2>3. n = 2
    BY ONLY <1>1, <2>1
  <2> QED BY ONLY <1>1, <2>2, <2>3
<1>3. b \in Bytes /\ Len(b) = 6 /\ (\A i \in 1..4 : b[i] = a[i]) /\ b[5] = 0 /\ b[6] = 0
  <2>1. PICK n \in Nat : n = Len(a)
    BY ONLY <1>2
  <2>2. /\ b \in Bytes /\ Len(b) = n + 2 /\ \A i \in 1..n : b[i] = a[i]
        /\ b[n + 1] = 0 /\ b[n + 2] = 0
    <3>1. b = a \o <<0, 0>>
      BY ONLY z = <<0, 0>>, b = a \o z
    <3>2. AddsWord(b, a, n, 0, 0)
      BY ONLY <1>0, <1>2, <2>1, <3>1 DEF AddsWord
    <3> QED BY ONLY <3>2, AddWord
  <2>3. n = 4
    BY ONLY <1>2, <2>1
  <2> QED BY ONLY <2>2, <2>3
<1>4. c \in Bytes /\ Len(c) = 8 /\ (\A i \in 1..6 : c[i] = b[i]) /\ c[7] = 0 /\ c[8] = 0
  <2>1. PICK n \in Nat : n = Len(b)
    BY ONLY <1>3
  <2>2. /\ c \in Bytes /\ Len(c) = n + 2 /\ \A i \in 1..n : c[i] = b[i]
        /\ c[n + 1] = 0 /\ c[n + 2] = 0
    <3>1. c = b \o <<0, 0>>
      BY ONLY z = <<0, 0>>, c = b \o z
    <3>2. AddsWord(c, b, n, 0, 0)
      BY ONLY <1>0, <1>3, <2>1, <3>1 DEF AddsWord
    <3> QED BY ONLY <3>2, AddWord
  <2>3. n = 6
    BY ONLY <1>3, <2>1
  <2> QED BY ONLY <2>2, <2>3
<1>5. d \in Bytes /\ Len(d) = 10 /\ (\A i \in 1..8 : d[i] = c[i]) /\ d[9] = 0 /\ d[10] = 0
  <2>1. PICK n \in Nat : n = Len(c)
    BY ONLY <1>4
  <2>2. /\ d \in Bytes /\ Len(d) = n + 2 /\ \A i \in 1..n : d[i] = c[i]
        /\ d[n + 1] = 0 /\ d[n + 2] = 0
    <3>1. d = c \o <<0, 0>>
      BY ONLY z = <<0, 0>>, d = c \o z
    <3>2. AddsWord(d, c, n, 0, 0)
      BY ONLY <1>0, <1>4, <2>1, <3>1 DEF AddsWord
    <3> QED BY ONLY <3>2, AddWord
  <2>3. n = 8
    BY ONLY <1>4, <2>1
  <2> QED BY ONLY <2>2, <2>3
<1>6. PICK e : e = <<1, 0, 0, 1, 0, 0, 0, 0, 0, 0>>
  BY ONLY TRUE
<1>7. /\ e \in Bytes /\ Len(e) = 10 /\ e[1] = 1 /\ e[2] = 0 /\ e[3] = 0 /\ e[4] = 1
      /\ \A i \in 5..10 : e[i] = 0
  BY ONLY <1>6 DEF Bytes
<1>8. /\ d[1] = 1 /\ d[2] = 0 /\ d[3] = 0 /\ d[4] = 1 /\ d[5] = 0 /\ d[6] = 0
      /\ d[7] = 0 /\ d[8] = 0
  BY ONLY <1>2, <1>3, <1>4, <1>5
<1>9. \A i \in 1..10 : d[i] = e[i]
  BY ONLY <1>5, <1>7, <1>8
<1>10. d = [i \in 1..10 |-> d[i]] /\ e = [i \in 1..10 |-> e[i]]
  BY ONLY <1>5, <1>7 DEF Bytes
<1>11. d = e
  BY ONLY <1>9, <1>10
<1> QED BY ONLY <1>2, <1>3, <1>4, <1>6, <1>11

\* The header of a request, and the flag that asks for recursion.
LEMMA HeaderWritten ==
    ASSUME NEW n \in Nat
    PROVE  BuffWrite(n) \o SetFlag(7) \o BuffWrite(1) \o BuffWrite(0) \o BuffWrite(0) \o BuffWrite(0)
              = Word(n) \o <<1, 0, 0, 1, 0, 0, 0, 0, 0, 0>>
<1>1. BuffWrite(n) = Word(n)
  BY DEF BuffWrite, Word
<1>2. SetFlag(7) = <<1, 0>> /\ BuffWrite(1) = <<0, 1>> /\ BuffWrite(0) = <<0, 0>>
  <2>1. 2^(7 - 7) = 1 /\ 1 \div 256 = 0 /\ 1 % 256 = 1 /\ 0 \div 256 = 0 /\ 0 % 256 = 0
    OBVIOUS
  <2> QED BY ONLY <2>1 DEF SetFlag, BuffWrite
<1>3. PICK f, g, z, w : f = <<1, 0>> /\ g = <<0, 1>> /\ z = <<0, 0>> /\ w = Word(n)
  BY ONLY TRUE
<1>4. w \in Bytes /\ f \in Bytes /\ g \in Bytes /\ z \in Bytes
  <2>1. w \in Bytes
    BY ONLY <1>3, WordBytes, n \in Nat
  <2>2. f \in Bytes /\ g \in Bytes /\ z \in Bytes
    BY ONLY <1>3 DEF Bytes
  <2> QED BY ONLY <2>1, <2>2
<1>5. PICK a, b, c, d : a = f \o g /\ b = a \o z /\ c = b \o z /\ d = c \o z
  BY ONLY TRUE
<1>6. a \in Bytes /\ b \in Bytes /\ c \in Bytes /\ d = <<1, 0, 0, 1, 0, 0, 0, 0, 0, 0>>
  BY ONLY <1>3, <1>5, HeaderWords
<1>7. PICK u1, u2, u3, u4, u5 :
         u1 = w \o f /\ u2 = u1 \o g /\ u3 = u2 \o z /\ u4 = u3 \o z /\ u5 = u4 \o z
  BY ONLY TRUE
<1>15. IsConcat(u1, w, f) /\ IsConcat(a, f, g) /\ IsConcat(b, a, z)
       /\ IsConcat(c, b, z) /\ IsConcat(d, c, z)
  BY ONLY <1>4, <1>5, <1>6, <1>7 DEF IsConcat
<1>8. IsConcat(u2, w, a)
  <2>1. IsConcat(u1, w, f) /\ IsConcat(a, f, g)
    BY ONLY <1>15
  <2>2. u1 \in Bytes /\ a \in Bytes
    BY ONLY <2>1, BytesConcat
  <2>3. IsConcat(u2, u1, g)
    BY ONLY <1>4, <1>7, <2>2 DEF IsConcat
  <2>4. PICK v : v = w \o a
    OBVIOUS
  <2>5. IsConcat(v, w, a)
    BY ONLY <1>4, <2>2, <2>4 DEF IsConcat
  <2>6. u2 = v
    BY ONLY <2>1, <2>3, <2>5, Associative
  <2> QED BY ONLY <2>5, <2>6
<1>9. IsConcat(u3, w, b)
  <2>1. IsConcat(u2, w, a) /\ IsConcat(b, a, z)
    BY ONLY <1>15, <1>8
  <2>2. u2 \in Bytes /\ b \in Bytes
    BY ONLY <2>1, BytesConcat
  <2>3. IsConcat(u3, u2, z)
    BY ONLY <1>4, <1>7, <2>2 DEF IsConcat
  <2>4. PICK v : v = w \o b
    OBVIOUS
  <2>5. IsConcat(v, w, b)
    BY ONLY <1>4, <2>2, <2>4 DEF IsConcat
  <2>6. u3 = v
    BY ONLY <2>1, <2>3, <2>5, Associative
  <2> QED BY ONLY <2>5, <2>6
<1>10. IsConcat(u4, w, c)
  <2>1. IsConcat(u3, w, b) /\ IsConcat(c, b, z)
    BY ONLY <1>15, <1>9
  <2>2. u3 \in Bytes /\ c \in Bytes
    BY ONLY <2>1, BytesConcat
  <2>3. IsConcat(u4, u3, z)
    BY ONLY <1>4, <1>7, <2>2 DEF IsConcat
  <2>4. PICK v : v = w \o c
    OBVIOUS
  <2>5. IsConcat(v, w, c)
    BY ONLY <1>4, <2>2, <2>4 DEF IsConcat
  <2>6. u4 = v
    BY ONLY <2>1, <2>3, <2>5, Associative
  <2> QED BY ONLY <2>5, <2>6
<1>14. IsConcat(u5, w, d)
  <2>1. IsConcat(u4, w, c) /\ IsConcat(d, c, z)
    BY ONLY <1>15, <1>10
  <2>2. u4 \in Bytes /\ d \in Bytes
    BY ONLY <2>1, BytesConcat
  <2>3. IsConcat(u5, u4, z)
    BY ONLY <1>4, <1>7, <2>2 DEF IsConcat
  <2>4. PICK v : v = w \o d
    OBVIOUS
  <2>5. IsConcat(v, w, d)
    BY ONLY <1>4, <2>2, <2>4 DEF IsConcat
  <2>6. u5 = v
    BY ONLY <2>1, <2>3, <2>5, Associative
  <2> QED BY ONLY <2>5, <2>6
<1>11. u5 = w \o d
  BY ONLY <1>14 DEF IsConcat
<1>12. ((((w \o f) \o g) \o z) \o z) \o z = w \o d
  BY ONLY <1>7, <1>11
<1>13. BuffWrite(n) = w /\ SetFlag(7) = f /\ BuffWrite(1) = g /\ BuffWrite(0) = z /\ Word(n) = w
  BY ONLY <1>1, <1>2, <1>3
<1> QED BY ONLY <1>6, <1>12, <1>13

\* A request is written as a server reads it: the question, and nothing else.
LEMMA RequestIsWritten ==
    ASSUME NEW id \in Nat, NEW name, NEW type \in Nat, NEW question, Writable(question.name),
           question.type = type,
           question.name = (IF type = 12 THEN IpToArpa(name) ELSE name)
    PROVE  RequestWritten(DnsRequest(id, name, type)) = WireRequest(id, question)
<1>1. PICK r : r = DnsRequest(id, name, type)
  OBVIOUS
<1>2. r.id = id /\ r.q_count = 1 /\ r.name = name /\ r.type = type
  BY ONLY <1>1 DEF DnsRequest
<1>3. (IF r.type = DnsQType.PTR THEN IpToArpa(r.name) ELSE r.name) = question.name
  BY ONLY <1>2, question.name = (IF type = 12 THEN IpToArpa(name) ELSE name) DEF DnsQType
<1>4. RequestWritten(r) =
         BuffWrite(id) \o SetFlag(7) \o BuffWrite(1) \o BuffWrite(0) \o BuffWrite(0) \o BuffWrite(0)
            \o WriteQdn(question.name) \o BuffWrite(type) \o BuffWrite(1)
  BY ONLY <1>2, <1>3 DEF RequestWritten
<1>5. WriteQdn(question.name) = Plain(question.name)
  BY ONLY NameWritten, Writable(question.name)
<1>6. BuffWrite(type) = Word(type) /\ BuffWrite(1) = Word(1)
  BY DEF BuffWrite, Word
<1>7. PICK h : h = BuffWrite(id) \o SetFlag(7) \o BuffWrite(1) \o BuffWrite(0)
                     \o BuffWrite(0) \o BuffWrite(0)
  OBVIOUS
<1>8. h = Word(id) \o <<1, 0, 0, 1, 0, 0, 0, 0, 0, 0>>
  BY ONLY <1>7, HeaderWritten, id \in Nat
<1>9. RequestWritten(r) = h \o Plain(question.name) \o Word(type) \o Word(1)
  BY ONLY <1>4, <1>5, <1>6, <1>7
<1>10. WireRequest(id, question) = h \o Plain(question.name) \o Word(type) \o Word(1)
  BY ONLY <1>8, question.type = type DEF WireRequest
<1> QED BY ONLY <1>1, <1>9, <1>10

\* A question about a name of up to 255 bytes fits the buffer.
LEMMA RequestFits ==
    ASSUME NEW id \in Nat, NEW question, Asked(question), Known(question.name)
    PROVE  /\ Len(WireRequest(id, question)) <= max_pkg_size
           /\ ~(Len(WireRequest(id, question)) > BasicBlockSize)
<1>1. PICK a, h, n, t, c :
         /\ a = Word(id) /\ h = <<1, 0, 0, 1, 0, 0, 0, 0, 0, 0>>
         /\ n = Plain(question.name) /\ t = Word(question.type) /\ c = Word(1)
  OBVIOUS
<1>2. a \in Bytes /\ Len(a) = 2 /\ t \in Bytes /\ Len(t) = 2 /\ c \in Bytes /\ Len(c) = 2
  BY ONLY <1>1, WordBytes, id \in Nat, 1 \in Nat, Asked(question) DEF Asked
<1>3. h \in Bytes /\ Len(h) = 10
  BY ONLY <1>1 DEF Bytes
<1>4. n \in Bytes /\ Len(n) <= 255
  BY ONLY <1>1, PlainType, Asked(question), Known(question.name) DEF Asked, Known
<1>5. Len(n) \in Nat
  BY ONLY <1>4, LenProperties DEF Bytes
<1>6. PICK u, v, w, x : u = a \o h /\ v = u \o n /\ w = v \o t /\ x = w \o c
  OBVIOUS
<1>7. u \in Bytes /\ Len(u) = Len(a) + Len(h)
  <2>1. IsConcat(u, a, h)
    BY ONLY <1>2, <1>3, <1>6 DEF IsConcat
  <2> QED BY ONLY <2>1, TwoParts
<1>8. v \in Bytes /\ Len(v) = Len(u) + Len(n)
  <2>1. IsConcat(v, u, n)
    BY ONLY <1>4, <1>6, <1>7 DEF IsConcat
  <2> QED BY ONLY <2>1, TwoParts
<1>9. w \in Bytes /\ Len(w) = Len(v) + Len(t)
  <2>1. IsConcat(w, v, t)
    BY ONLY <1>2, <1>6, <1>8 DEF IsConcat
  <2> QED BY ONLY <2>1, TwoParts
<1>10. Len(x) = Len(w) + Len(c)
  <2>1. IsConcat(x, w, c)
    BY ONLY <1>2, <1>6, <1>9 DEF IsConcat
  <2> QED BY ONLY <2>1, TwoParts
<1>11. x = WireRequest(id, question)
  BY ONLY <1>1, <1>6 DEF WireRequest
<1>12. PICK l : l = Len(n)
  OBVIOUS
<1>13. Len(x) = ((12 + l) + 2) + 2 /\ l \in Nat /\ l <= 255
  BY ONLY <1>2, <1>3, <1>4, <1>5, <1>7, <1>8, <1>9, <1>10, <1>12
<1>14. PICK k : k = Len(x)
  OBVIOUS
<1>15. k <= max_pkg_size /\ ~(k > BasicBlockSize)
  BY ONLY <1>13, <1>14 DEF max_pkg_size, BasicBlockSize
<1> QED BY ONLY <1>11, <1>14, <1>15, Zenon

-----------------------------------------------------------------------------
(* What is chosen from the answers. *)

Preferences(sent) == {sent[i].preference : i \in DOMAIN sent}
Preferred(sent) == {j \in DOMAIN sent : \A k \in DOMAIN sent :
                       sent[j].preference <= sent[k].preference}

\* The smallest preference is one, and none is smaller.
LEMMA MinIn ==
    ASSUME NEW T, T \subseteq Nat, T # {}
    PROVE  Min(T) \in T /\ \A y \in T : Min(T) <= y
<1>1. \E x \in T : \A y \in T : x <= y
  BY Least
<1> QED BY ONLY <1>1 DEF Min

\* The first answer of the least preference.
LEMMA MxFacts ==
    ASSUME NEW sent, NEW n \in Nat, n # 0, DOMAIN sent = 1..n,
           \A i \in 1..n : sent[i].preference \in Nat
    PROVE  GetMxSorted(sent)[Min(DOMAIN GetMxSorted(sent))] = sent[Min(Preferred(sent))].answer
<1>1. PICK P : P = Preferences(sent)
  OBVIOUS
<1>2. P \subseteq Nat /\ P # {}
  <2>1. 1 \in DOMAIN sent
    BY ONLY n \in Nat, n # 0, DOMAIN sent = 1..n
  <2> QED BY ONLY <1>1, <2>1, DOMAIN sent = 1..n, \A i \in 1..n : sent[i].preference \in Nat
           DEF Preferences
<1>3. PICK m : m = Min(P)
  OBVIOUS
<1>4. m \in P /\ (\A y \in P : m <= y) /\ m \in Nat
  BY ONLY <1>2, <1>3, MinIn
<1>5. DOMAIN GetMxSorted(sent) = P
  BY ONLY <1>1 DEF GetMxSorted, Preferences
<1> DEFINE First(i) == /\ sent[i].preference = m
                       /\ \A j \in 1..i - 1 : sent[j].preference # m
<1>6. GetMxSorted(sent)[m] = sent[CHOOSE i \in DOMAIN sent : First(i)].answer
  BY ONLY <1>1, <1>4 DEF GetMxSorted, Preferences
<1>7. PICK B : B = Preferred(sent)
  OBVIOUS
<1>8. B = {j \in 1..n : sent[j].preference = m}
  <2>1. \A k \in 1..n : sent[k].preference \in P /\ m <= sent[k].preference
    BY ONLY <1>1, <1>4, DOMAIN sent = 1..n DEF Preferences
  <2>2. PICK i \in 1..n : sent[i].preference = m
    BY ONLY <1>1, <1>4, DOMAIN sent = 1..n DEF Preferences
  <2>3. ASSUME NEW j \in B PROVE j \in 1..n /\ sent[j].preference = m
    <3>1. j \in 1..n /\ \A k \in 1..n : sent[j].preference <= sent[k].preference
      BY ONLY <1>7, <2>3, DOMAIN sent = 1..n DEF Preferred
    <3>2. sent[j].preference <= m /\ m <= sent[j].preference /\ sent[j].preference \in Nat
      BY ONLY <2>1, <2>2, <3>1, \A i_1 \in 1..n : sent[i_1].preference \in Nat
    <3> QED BY ONLY <1>4, <3>1, <3>2
  <2>4. ASSUME NEW j \in 1..n, sent[j].preference = m PROVE j \in B
    BY ONLY <1>7, <2>1, <2>4, DOMAIN sent = 1..n DEF Preferred
  <2> QED BY ONLY <2>3, <2>4
<1>9. B \subseteq Nat /\ B # {}
  <2>1. PICK i \in 1..n : sent[i].preference = m
    BY ONLY <1>1, <1>4, DOMAIN sent = 1..n DEF Preferences
  <2>2. B \subseteq Nat
    BY ONLY <1>8
  <2> QED BY ONLY <1>8, <2>1, <2>2
<1>10. PICK b : b = Min(B)
  OBVIOUS
<1>11. b \in B /\ \A y \in B : b <= y
  BY ONLY <1>9, <1>10, MinIn
<1>12. b \in 1..n /\ sent[b].preference = m
  BY ONLY <1>8, <1>11
<1>13. First(b)
  <2>1. ASSUME NEW j \in 1..b - 1, sent[j].preference = m PROVE FALSE
    <3>1. j \in 1..n /\ ~(b <= j)
      BY ONLY <1>12, j \in 1..b - 1, n \in Nat
    <3>2. j \in B
      BY ONLY <1>8, <2>1, <3>1
    <3> QED BY ONLY <1>11, <3>1, <3>2
  <2> QED BY ONLY <1>12, <2>1
<1>14. ASSUME NEW i \in 1..n, First(i) PROVE i = b
  <2>1. i \in B
    BY ONLY <1>8, <1>14
  <2>2. b <= i
    BY ONLY <1>11, <2>1
  <2>3. ~(b \in 1..i - 1)
    BY ONLY <1>12, <1>14
  <2> QED BY ONLY <1>12, <2>2, <2>3, i \in 1..n, n \in Nat
<1>15. (CHOOSE i \in DOMAIN sent : First(i)) = b
  <2> HIDE DEF First
  <2> QED BY ONLY <1>12, <1>13, <1>14, DOMAIN sent = 1..n
<1> HIDE DEF First
<1> QED BY ONLY <1>1, <1>3, <1>5, <1>6, <1>7, <1>10, <1>15

\* What get_rand_rec_value returns is the value of an answer.
LEMMA RandFacts ==
    ASSUME NEW sent, NEW n \in Nat, n # 0, n = Len(sent), DOMAIN sent = 1..n
    PROVE  RandRecValue(sent) \subseteq {sent[j].answer : j \in DOMAIN sent}
<1>1. CASE n = 1
  <2>1. RandRecValue(sent) = {sent[1].answer}
    BY ONLY <1>1, n = Len(sent) DEF RandRecValue
  <2> QED BY ONLY <1>1, <2>1, DOMAIN sent = 1..n
<1>2. CASE n # 1
  <2>1. RandRecValue(sent) = {sent[(r % (n - 1)) + 1].answer : r \in 0..n}
    BY ONLY <1>2, n = Len(sent), n # 0 DEF RandRecValue
  <2>2. \A r \in 0..n : (r % (n - 1)) + 1 \in 1..n
    <3> TAKE r \in 0..n
    <3>1. PICK d \in Nat : d = n - 1 /\ d > 0
      BY ONLY <1>2, n \in Nat, n # 0
    <3>2. r % d \in 0..d - 1
      BY ONLY <3>1, r \in 0..n, n \in Nat
    <3> QED BY ONLY <3>1, <3>2, n \in Nat
  <2> QED BY ONLY <2>1, <2>2, DOMAIN sent = 1..n
<1> QED BY ONLY <1>1, <1>2

-----------------------------------------------------------------------------
(* What a server knows, and what its package is parsed into. *)

\* A list over a set is one over a larger set.
LEMMA SeqGrows ==
    ASSUME NEW S, NEW T, NEW s \in Seq(S), \A x \in S : x \in T
    PROVE  s \in Seq(T)
<1>1. PICK n \in Nat : n = Len(s)
  OBVIOUS
<1>2. s = [i \in 1..n |-> s[i]] /\ \A i \in 1..n : s[i] \in T
  BY <1>1
<1> QED BY ONLY <1>2, n \in Nat

\* Characters are numbers.
LEMMA CharactersFacts ==
    ASSUME NEW s
    PROVE  /\ s \in Seq(Byte) => s \in Bytes
           /\ s \in Name => s \in Strings
           /\ s \in Short => s \in Nat
<1>1. \A x \in Byte : x \in Nat
  BY DEF Byte
<1>2. \A t \in Seq(Byte) : t \in Seq(Nat)
  BY ONLY <1>1, SeqGrows
<1>3. s \in Seq(Seq(Byte)) => s \in Seq(Seq(Nat))
  BY ONLY <1>2, SeqGrows
<1>4. s \in Short => s \in Nat
  BY DEF Short
<1> QED BY ONLY <1>2, <1>3, <1>4 DEF Bytes, Strings, Name

\* A query that is not refused.
Sendable(q) == q \in Query /\ ~ReqStrErr(q.name, q.type)

\* DnsAssumption, a constant at a time.
LEMMA ConstantsFacts ==
    /\ \A id \in Id : id \in 1..2^16 - 2
    /\ \A q \in Query : q \in [name : Name, type : Short]
    /\ \A reply \in Reply :
          /\ reply \in [rcode : 0..15, compress : BOOLEAN, records : Seq(ZoneRecord)]
          /\ \A i \in DOMAIN reply.records : InZone(reply.records[i])
BY ONLY DnsAssumption, Zenon

\* What is asked for a query has a name and a type.
LEMMA QueryFacts ==
    ASSUME NEW q \in Query
    PROVE  /\ q.name \in Strings /\ q.type \in Nat
           /\ Asked(Question(q)) /\ Question(q).type = q.type
           /\ Question(q).name = (IF q.type = 12 THEN Reverse(q.name) \o InAddrArpa ELSE q.name)
<1>1. q \in [name : Name, type : Short]
  BY ONLY q \in Query, ConstantsFacts, Zenon
<1>2. q.name \in Strings /\ q.type \in Nat
  <2>1. q.name \in Name /\ q.type \in Short
    BY ONLY <1>1
  <2> QED BY ONLY <2>1, CharactersFacts
<1>3. Question(q).name = (IF q.type = 12 THEN Reverse(q.name) \o InAddrArpa ELSE q.name)
      /\ Question(q).type = q.type
  BY ONLY TRUE DEF Question
<1>4. Question(q).name \in Strings
  BY ONLY <1>2, <1>3, ReverseFacts
<1> QED BY ONLY <1>2, <1>3, <1>4, Zenon DEF Asked

\* A query that _ev_begin lets pass asks for a name, one that can be written if it
\* can be known.
LEMMA SendableFacts ==
    ASSUME NEW q, Sendable(q)
    PROVE  /\ Question(q).name # <<>>
           /\ Question(q).name = (IF q.type = 12 THEN IpToArpa(q.name) ELSE q.name)
           /\ Known(Question(q).name) => Writable(Question(q).name)
<1>1. q \in Query /\ ~ReqStrErr(q.name, q.type)
  BY DEF Sendable
<1>2. /\ q.name \in Strings /\ Question(q).name \in Strings
      /\ Question(q).name = (IF q.type = 12 THEN Reverse(q.name) \o InAddrArpa ELSE q.name)
  <2>1. q.name \in Strings /\ Asked(Question(q))
    BY ONLY <1>1, QueryFacts, Zenon
  <2>2. Question(q).name = (IF q.type = 12 THEN Reverse(q.name) \o InAddrArpa ELSE q.name)
    BY ONLY <1>1, QueryFacts, Zenon
  <2> QED BY ONLY <2>1, <2>2, Zenon DEF Asked
<1>3. Len(q.name) >= 2 /\ (q.type = 12 => Len(q.name) = 4)
  BY ONLY <1>1 DEF ReqStrErr, IsFqdn, IsIpV4, DnsQType
<1>4. q.name # <<>>
  BY ONLY <1>3
<1>5. CASE q.type = 12
  <2>1. IpToArpa(q.name) = Reverse(q.name) \o InAddrArpa
    BY ONLY <1>3, <1>5 DEF IpToArpa
  <2> QED BY ONLY <1>2, <1>5, <2>1, ReverseFacts DEF Writable, Known
<1>6. CASE q.type # 12
  BY ONLY <1>2, <1>4, <1>6 DEF Writable, Known
<1> QED BY ONLY <1>5, <1>6

\* The request for a name that can be known is what a server reads, and fits.
LEMMA WrittenFacts ==
    ASSUME NEW q, Sendable(q), Known(Question(q).name), NEW id \in Id,
           NEW r, r = DnsRequest(id, q.name, q.type)
    PROVE  /\ RequestWritten(r) = WireRequest(r.id, Question(q))
           /\ Len(RequestWritten(r)) <= max_pkg_size /\ ~Overruns(r)
<1>1. id \in Nat
  <2>1. id \in 1..2^16 - 2
    BY ONLY ConstantsFacts, id \in Id, Zenon
  <2> QED BY ONLY <2>1
<1>2. PICK question, name, type :
         question = Question(q) /\ name = q.name /\ type = q.type
  OBVIOUS
<1>3. Question(q).type = q.type /\ q.type \in Nat /\ Asked(Question(q))
  <2>1. q \in Query
    BY ONLY Sendable(q) DEF Sendable
  <2> QED BY ONLY <2>1, QueryFacts
<1>4. /\ Writable(question.name) /\ question.type = type /\ type \in Nat
      /\ question.name = (IF type = 12 THEN IpToArpa(name) ELSE name)
  <2>1. /\ Question(q).name = (IF q.type = 12 THEN IpToArpa(q.name) ELSE q.name)
        /\ Writable(Question(q).name)
    BY ONLY SendableFacts, Sendable(q), Known(Question(q).name)
  <2> QED BY ONLY <1>2, <1>3, <2>1
<1>5. RequestWritten(DnsRequest(id, name, type)) = WireRequest(id, question)
  BY ONLY <1>1, <1>4, RequestIsWritten
<1>6. r.id = id
  BY ONLY r = DnsRequest(id, q.name, q.type) DEF DnsRequest
<1>7. RequestWritten(r) = WireRequest(r.id, Question(q))
  BY ONLY <1>2, <1>5, <1>6, r = DnsRequest(id, q.name, q.type), Zenon
<1>8. /\ Len(WireRequest(id, Question(q))) <= max_pkg_size
      /\ ~(Len(WireRequest(id, Question(q))) > BasicBlockSize)
  BY ONLY <1>1, <1>3, Known(Question(q).name), RequestFits, Zenon
<1>9. Len(RequestWritten(r)) <= max_pkg_size /\ ~Overruns(r)
  BY ONLY <1>6, <1>7, <1>8, Zenon DEF Overruns
<1> QED BY ONLY <1>7, <1>9

\* A reply of the types the parser knows, without the name of the root.
Legible(reply) ==
    \A i \in DOMAIN reply.records :
        reply.records[i].type \in {1, 12, 15} /\ reply.records[i].answer # <<>>

\* What is readable is such a reply, and was received whole.
LEMMA ReadableFacts ==
    ASSUME NEW a, Readable(a)
    PROVE  a.whole /\ Legible(a.reply)
BY DEF Readable, Legible

\* A readable reply is one of records the parser knows.
LEMMA ReplyFacts ==
    ASSUME NEW reply \in Reply
    PROVE  /\ reply.rcode \in Codes /\ reply.rcode \in Nat /\ reply.compress \in BOOLEAN
           /\ reply.records \in Seq(RecordType)
           /\ Legible(reply) => \A k \in 1..Len(reply.records) : KnownRecord(reply.records[k])
<1>1. /\ reply.rcode \in 0..15 /\ reply.compress \in BOOLEAN
      /\ reply.records \in Seq(ZoneRecord)
  <2>1. reply \in [rcode : 0..15, compress : BOOLEAN, records : Seq(ZoneRecord)]
    BY ONLY reply \in Reply, ConstantsFacts, Zenon
  <2> QED BY ONLY <2>1
<1>2. \A r \in ZoneRecord : r \in RecordType
  <2> TAKE r \in ZoneRecord
  <2>1. r \in [type : Short, preference : Short, answer : Name, ip : Seq(Byte)]
    BY ONLY r \in ZoneRecord DEF ZoneRecord
  <2>2. /\ r = [type |-> r.type, preference |-> r.preference, answer |-> r.answer, ip |-> r.ip]
        /\ r.type \in Short /\ r.preference \in Short
        /\ r.answer \in Name /\ r.ip \in Seq(Byte)
    BY ONLY <2>1
  <2>3. r.answer \in Strings /\ r.ip \in Bytes
    BY ONLY <2>2, CharactersFacts
  <2>4. r.type \in Nat /\ r.preference \in Nat
    BY ONLY <2>2, CharactersFacts
  <2> QED BY ONLY <2>2, <2>3, <2>4 DEF RecordType
<1>3. reply.records \in Seq(RecordType)
  BY ONLY <1>1, <1>2, SeqGrows
<1>4. ASSUME Legible(reply), NEW k \in 1..Len(reply.records)
      PROVE  KnownRecord(reply.records[k])
  <2>1. PICK r : r = reply.records[k]
    OBVIOUS
  <2>2. k \in DOMAIN reply.records /\ r \in RecordType
    BY ONLY <1>3, <2>1, k \in 1..Len(reply.records)
  <2>3. r.type \in {1, 12, 15} /\ r.answer # <<>>
    BY ONLY <1>4, <2>1, <2>2 DEF Legible
  <2>4. /\ Known(r.answer)
        /\ r.type = 1 => Len(r.ip) = 4 /\ r.answer = [j \in 1..4 |-> Decimal(r.ip[j])]
        /\ r.type # 15 => r.preference = 0
    <3>1. InZone(r)
      <4>1. \A i \in DOMAIN reply.records : InZone(reply.records[i])
        BY ONLY reply \in Reply, ConstantsFacts, Zenon
      <4> QED BY ONLY <2>1, <2>2, <4>1
    <3> QED BY ONLY <3>1 DEF InZone
  <2> QED BY ONLY <2>1, <2>2, <2>3, <2>4 DEF KnownRecord, Known
<1>5. reply.rcode \in Codes
  BY ONLY <1>1 DEF Codes
<1>6. reply.rcode \in Nat
  BY ONLY <1>1
<1> QED BY ONLY <1>1, <1>3, <1>4, <1>5, <1>6, Zenon

\* A package that reaches the client, and what can be said of what it is parsed into.
Arrives(a, q, id) ==
    /\ Sendable(q) /\ a.id \in Id /\ a.reply \in Reply
    /\ LET sent == WireRespond(a.id, a.reply.rcode, Question(q), a.reply.records,
                               a.reply.compress)
       IN  a.whole = (Len(sent) <= max_pkg_size) /\ a.bytes = Received(sent)
    /\ a.id = id => Known(Question(q).name)

Told(r, a, q, id) ==
    /\ r.err # "noerror" => r.alist = <<>>
    /\ r.alist # <<>> =>
          /\ a.id = id /\ a.reply.rcode = 0 /\ a.reply \in Reply
          /\ Readable(a) => r.alist = Meaning(Question(q), a.reply.records)

\* What a package that arrives is parsed into: the reply that was meant, if it is
\* readable, and nothing if it is of another request or an error.
LEMMA ParsedFacts ==
    ASSUME NEW a, NEW q, NEW id, Arrives(a, q, id)
    PROVE  /\ Readable(a) => RespondParsed(a.bytes, id) # {}
           /\ \A respond \in RespondParsed(a.bytes, id) :
                 Told([err |-> respond.error, alist |-> respond.alist], a, q, id)
<1>1. PICK i, reply, pkg, question :
         /\ i = a.id /\ reply = a.reply /\ question = Question(q)
         /\ pkg = WireRespond(a.id, a.reply.rcode, Question(q), a.reply.records, a.reply.compress)
  OBVIOUS
<1>2. /\ Sendable(q) /\ i \in Id /\ reply \in Reply
      /\ pkg = WireRespond(i, reply.rcode, question, reply.records, reply.compress)
      /\ a.bytes = Received(pkg) /\ a.whole = (Len(pkg) <= 512)
      /\ i = id => Known(question.name)
  BY ONLY <1>1, Arrives(a, q, id) DEF Arrives, max_pkg_size
<1>3. i \in Nat
  <2>1. i \in 1..2^16 - 2
    BY ONLY <1>2, ConstantsFacts, Zenon
  <2> QED BY ONLY <2>1
<1>4. Asked(question) /\ question.name # <<>>
  <2>1. q \in Query
    BY ONLY <1>2 DEF Sendable
  <2> QED BY ONLY <1>1, <1>2, <2>1, QueryFacts, SendableFacts
<1>5. PICK rcode, records, compress :
         rcode = reply.rcode /\ records = reply.records /\ compress = reply.compress
  OBVIOUS
<1>6. /\ rcode \in Codes /\ records \in Seq(RecordType) /\ compress \in BOOLEAN
      /\ Legible(reply) => \A k \in 1..Len(records) : KnownRecord(records[k])
      /\ pkg = WireRespond(i, rcode, question, records, compress)
  BY ONLY <1>2, <1>5, ReplyFacts
<1>7. CASE i # id
  <2>1. RespondParsed(Received(pkg), id) = {MatchError}
    BY ONLY <1>3, <1>4, <1>6, <1>7, ErrorsRead
  <2> QED BY ONLY <1>2, <2>1 DEF MatchError, Told
<1>8. CASE i = id /\ rcode # 0
  <2>1. RespondParsed(Received(pkg), id) = {ResolvError}
    BY ONLY <1>3, <1>4, <1>6, <1>8, ErrorsRead
  <2> QED BY ONLY <1>2, <2>1 DEF ResolvError, Told
<1>9. CASE i = id /\ rcode = 0
  <2>1. ASSUME Readable(a)
        PROVE  RespondParsed(a.bytes, id) = {NoError(Meaning(question, records))}
    <3>1. Len(pkg) <= 512 /\ Legible(reply)
      <4>1. a.whole /\ Legible(a.reply)
        BY ONLY <2>1, ReadableFacts
      <4> QED BY ONLY <1>1, <1>2, <4>1
    <3>2. Known(question.name) /\ \A k \in 1..Len(records) : KnownRecord(records[k])
      BY ONLY <1>2, <1>6, <1>9, <3>1
    <3>3. id \in Nat /\ pkg = WireRespond(id, 0, question, records, compress)
      BY ONLY <1>3, <1>6, <1>9
    <3>4. a.bytes = pkg
      <4>1. pkg \in Bytes
        BY ONLY <1>3, <1>4, <1>6, WordsRead
      <4> QED BY ONLY <1>2, <3>1, <4>1, ReceivedFacts
    <3> QED BY ONLY <1>4, <1>6, <3>2, <3>3, <3>4, ReplyRead
  <2>2. ASSUME NEW respond \in RespondParsed(a.bytes, id)
        PROVE  /\ respond.error = "noerror"
               /\ Readable(a) => respond.alist = Meaning(question, records)
    <3>1. BuffRead(a.bytes, 0, 2) = id /\ GetError(a.bytes) = 0
      <4>1. BuffRead(Received(pkg), 0, 2) = i /\ GetError(Received(pkg)) = rcode
        BY ONLY <1>3, <1>4, <1>6, WordsRead
      <4> QED BY ONLY <1>2, <1>9, <4>1
    <3>2. PICK res : respond = [error |-> "noerror", alist |-> res.alist]
      BY ONLY <3>1, ParsedCases, respond \in RespondParsed(a.bytes, id)
    <3>3. respond.error = "noerror"
      BY ONLY <3>2
    <3>4. ASSUME Readable(a) PROVE respond.alist = Meaning(question, records)
      BY ONLY <2>1, <3>4, respond \in RespondParsed(a.bytes, id) DEF NoError
    <3> QED BY ONLY <3>3, <3>4
  <2>3. a.id = id /\ a.reply.rcode = 0 /\ a.reply \in Reply
    BY ONLY <1>1, <1>2, <1>5, <1>9
  <2>4. Readable(a) => RespondParsed(a.bytes, id) # {}
    BY ONLY <2>1
  <2>5. \A respond \in RespondParsed(a.bytes, id) :
           Told([err |-> respond.error, alist |-> respond.alist], a, q, id)
    BY ONLY <1>1, <1>5, <2>2, <2>3 DEF Told
  <2> QED BY ONLY <2>4, <2>5
<1> QED BY ONLY <1>7, <1>8, <1>9

-----------------------------------------------------------------------------
(* The query. *)

\* The request that was written, when there was one.
Requested ==
    /\ ~ReqStrErr(query.name, query.type)
    /\ \E id \in Id : req = DnsRequest(id, query.name, query.type)
    /\ request = IF Len(RequestWritten(req)) <= max_pkg_size THEN RequestWritten(req) ELSE <<>>

\* One report, which tells of the package that arrived.
Reported ==
    IF stop_inited THEN reports = <<reports[1]>> /\ Told(reports[1], arrived, query, req.id)
    ELSE reports = <<>>

\* What the properties rest on: an operation belongs to a request, what is received
\* is a package, and nothing is pending, and so nothing arrives, behind a report.
DnsInv ==
    /\ query \in Query
    /\ stop_inited \in BOOLEAN
    /\ op \in {NoOp} \union [kind : {"send", "receive"}, st : {"pending", "ok", "failed"}]
    /\ timer = "new" => op = NoOp /\ req = <<>> /\ ~stop_inited /\ ~crashed
    /\ op # NoOp \/ req # <<>> => Requested
    /\ op = [kind |-> "receive", st |-> "ok"] => Arrives(arrived, query, req.id)
    /\ stop_inited => op.st # "pending"
    /\ crashed => op = NoOp /\ (Known(Question(query).name) /\ Readable(arrived) => stop_inited)
    /\ Reported

\* DnsInv holds when the client is made.
LEMMA DnsInvInit == Init => DnsInv
<1> SUFFICES ASSUME Init PROVE DnsInv
  OBVIOUS
<1>1. /\ query \in Query /\ req = <<>> /\ op = NoOp /\ ~stop_inited /\ stop_inited \in BOOLEAN
      /\ reports = <<>> /\ ~crashed
  BY DEF Init
<1>2. op # [kind |-> "receive", st |-> "ok"]
  BY ONLY <1>1 DEF NoOp
<1>3. Reported
  BY ONLY <1>1 DEF Reported
<1> QED BY ONLY <1>1, <1>2, <1>3 DEF DnsInv

\* A report without answers tells of any package.
LEMMA NothingTold ==
    ASSUME NEW err, NEW a, NEW q, NEW id
    PROVE  Told([err |-> err, alist |-> <<>>], a, q, id)
BY DEF Told

\* _ev_stop reports once, and what it is given.
LEMMA StopReported ==
    ASSUME Reported, stop_inited \in BOOLEAN, NEW err, NEW alist, Stop(err, alist),
           UNCHANGED <<query, req, arrived>>,
           Told([err |-> err, alist |-> alist], arrived, query, req.id)
    PROVE  stop_inited' = TRUE /\ Reported'
<1>1. stop_inited' = TRUE
  BY DEF Stop
<1>2. CASE stop_inited
  <2>1. reports' = reports
    BY ONLY <1>2, Stop(err, alist) DEF Stop
  <2>2. reports = <<reports[1]>> /\ Told(reports[1], arrived, query, req.id)
    BY ONLY <1>2, Reported DEF Reported
  <2>3. reports' = <<reports'[1]>> /\ Told(reports'[1], arrived', query', req'.id)
    BY ONLY <2>1, <2>2, UNCHANGED <<query, req, arrived>>
  <2> QED BY ONLY <1>1, <2>3 DEF Reported
<1>3. CASE ~stop_inited
  <2>1. PICK r : r = [err |-> err, alist |-> alist]
    OBVIOUS
  <2>2. reports = <<>> /\ reports' = Append(reports, r)
    BY ONLY <1>3, <2>1, Reported, Stop(err, alist) DEF Reported, Stop
  <2>3. reports' = <<r>> /\ reports'[1] = r
    BY ONLY <2>2
  <2>4. Told(r, arrived', query', req'.id)
    BY ONLY <2>1, UNCHANGED <<query, req, arrived>>,
            Told([err |-> err, alist |-> alist], arrived, query, req.id)
  <2>5. reports' = <<reports'[1]>> /\ Told(reports'[1], arrived', query', req'.id)
    BY ONLY <2>3, <2>4
  <2> QED BY ONLY <1>1, <2>5 DEF Reported
<1> QED BY ONLY <1>1, <1>2, <1>3, stop_inited \in BOOLEAN

\* _ev_begin: the request is written and sent, or the client stops without one.
LEMMA BeginKeeps ==
    ASSUME DnsInv, Begin
    PROVE  DnsInv'
<1>1. /\ query \in Query /\ op = NoOp /\ req = <<>> /\ ~stop_inited /\ ~crashed
      /\ Reported /\ stop_inited \in BOOLEAN /\ timer = "new"
      /\ UNCHANGED <<query, timeout, arrived>>
  BY DEF DnsInv, Begin
<1>2. CASE ReqStrErr(query.name, query.type)
  <2>1. /\ Stop("noerror", <<>>) /\ TimerCancelled /\ UNCHANGED <<request, req, op, crashed>>
    BY <1>2 DEF Begin
  <2>2. stop_inited' = TRUE /\ Reported'
    BY <1>1, <2>1, NothingTold, StopReported
  <2>3. timer' # "new"
    BY <1>1, <2>1 DEF TimerCancelled
  <2>4. op' = NoOp /\ req' = <<>> /\ op'.st = "none" /\ op' # [kind |-> "receive", st |-> "ok"]
    BY <1>1, <2>1 DEF NoOp
  <2>5. query' \in Query /\ ~crashed'
    BY ONLY <1>1, <2>1
  <2> QED BY ONLY <2>2, <2>3, <2>4, <2>5 DEF DnsInv
<1>3. CASE ~ReqStrErr(query.name, query.type)
  <2>1. /\ PrepareForRequest /\ timer' # "new" /\ crashed' = Overruns(req')
        /\ op' = (IF crashed' THEN NoOp ELSE Started("send"))
        /\ UNCHANGED <<stop_inited, reports>>
    BY <1>3 DEF Begin
  <2>2. op' = (IF crashed' THEN NoOp ELSE [kind |-> "send", st |-> "pending"])
    BY ONLY <1>1, <2>1 DEF Started
  <2>3. Requested'
    <3>1. PICK id \in Id : req' = DnsRequest(id, query.name, query.type)
      BY ONLY <2>1 DEF PrepareForRequest, RandQid
    <3>2. request' = IF Len(RequestWritten(req')) <= max_pkg_size THEN RequestWritten(req')
                     ELSE <<>>
      BY ONLY <2>1 DEF PrepareForRequest
    <3> QED BY ONLY <1>1, <1>3, <3>1, <3>2 DEF Requested
  <2>4. Reported'
    BY ONLY <1>1, <2>1 DEF Reported
  <2>5. /\ op' \in {NoOp} \union [kind : {"send", "receive"}, st : {"pending", "ok", "failed"}]
        /\ op' # [kind |-> "receive", st |-> "ok"]
    BY ONLY <2>2 DEF NoOp
  <2>6. crashed' => op' = NoOp /\ ~Known(Question(query').name)
    <3>0. query' = query /\ (crashed' => op' = NoOp)
      BY ONLY <1>1, <2>1
    <3>1. ASSUME crashed', Known(Question(query).name)
          PROVE  FALSE
      <4>1. PICK r : r = req' /\ Overruns(r)
        BY ONLY <2>1, <3>1
      <4>2. PICK id \in Id : r = DnsRequest(id, query.name, query.type)
        BY ONLY <2>1, <4>1 DEF PrepareForRequest, RandQid
      <4>3. Sendable(query)
        BY ONLY <1>1, <1>3 DEF Sendable
      <4>4. ~Overruns(r)
        BY ONLY <4>2, <4>3, <3>1, WrittenFacts, Zenon
      <4> QED BY ONLY <4>1, <4>4
    <3>2. \A q : q = query => (Known(Question(q).name) => Known(Question(query).name))
      OBVIOUS
    <3>3. Known(Question(query').name) => Known(Question(query).name)
      BY ONLY <3>0, <3>2, Zenon
    <3> QED BY ONLY <3>0, <3>1, <3>3
  <2>7. query' \in Query /\ stop_inited' \in BOOLEAN /\ ~stop_inited'
    BY ONLY <1>1, <2>1
  <2> QED BY ONLY <2>1, <2>3, <2>4, <2>5, <2>6, <2>7 DEF DnsInv
<1> QED BY ONLY <1>2, <1>3

\* What an operation may be, and what it becomes.
LEMMA OpFacts ==
    ASSUME op \in {NoOp} \union [kind : {"send", "receive"}, st : {"pending", "ok", "failed"}],
           op.st = "pending", NEW st \in {"pending", "ok", "failed"}
    PROVE  /\ op # NoOp /\ op.kind \in {"send", "receive"}
           /\ [op EXCEPT !.st = st] = [kind |-> op.kind, st |-> st]
           /\ [op EXCEPT !.st = st] \in [kind : {"send", "receive"}, st : {"pending", "ok", "failed"}]
<1>1. op # NoOp
  BY DEF NoOp
<1>2. op \in [kind : {"send", "receive"}, st : {"pending", "ok", "failed"}]
  BY ONLY <1>1, op \in {NoOp} \union [kind : {"send", "receive"}, st : {"pending", "ok", "failed"}]
<1> QED BY ONLY <1>1, <1>2, st \in {"pending", "ok", "failed"}

\* An operation is done, and what a receive has is a package.
LEMMA CompleteKeeps ==
    ASSUME DnsInv, Complete
    PROVE  DnsInv'
<1>1. /\ query \in Query /\ stop_inited \in BOOLEAN /\ op.st = "pending" /\ ~stop_inited
      /\ op \in {NoOp} \union [kind : {"send", "receive"}, st : {"pending", "ok", "failed"}]
      /\ UNCHANGED <<query, timeout, request, req, timer, stop_inited, reports, crashed>>
  BY DEF DnsInv, Complete
<1>2. op # NoOp /\ op.kind \in {"send", "receive"}
  BY ONLY <1>1, OpFacts
<1>3. timer # "new" /\ ~crashed /\ Requested /\ reports = <<>>
  BY ONLY <1>1, <1>2, DnsInv DEF DnsInv, Reported
<1>4. /\ timer' # "new" /\ ~crashed' /\ Requested' /\ Reported' /\ query' \in Query
      /\ stop_inited' \in BOOLEAN /\ ~stop_inited'
  BY ONLY <1>1, <1>3 DEF Requested, Reported
<1>5. CASE op' = [op EXCEPT !.st = "ok"] /\ op.kind = "send"
  <2>1. op' = [kind |-> "send", st |-> "ok"]
    BY ONLY <1>1, <1>5, OpFacts
  <2>2. /\ op' \in {NoOp} \union [kind : {"send", "receive"}, st : {"pending", "ok", "failed"}]
        /\ op' # [kind |-> "receive", st |-> "ok"]
    BY ONLY <2>1
  <2> QED BY ONLY <1>4, <2>2 DEF DnsInv
<1>6. CASE /\ op' = [op EXCEPT !.st = "ok"] /\ op.kind = "receive"
           /\ \E i \in Id, reply \in Reply :
                 /\ i = req.id => Known(Question(query).name)
                 /\ arrived' = Package(i, reply)
  <2>1. op' \in {NoOp} \union [kind : {"send", "receive"}, st : {"pending", "ok", "failed"}]
    BY ONLY <1>1, <1>6, OpFacts
  <2>2. PICK i \in Id, reply \in Reply :
           /\ i = req.id => Known(Question(query).name)
           /\ arrived' = Package(i, reply)
    BY <1>6
  <2>3. /\ arrived'.id = i /\ arrived'.reply = reply
        /\ LET sent == WireRespond(i, reply.rcode, Question(query), reply.records, reply.compress)
           IN  arrived'.whole = (Len(sent) <= max_pkg_size) /\ arrived'.bytes = Received(sent)
    BY ONLY <2>2 DEF Package
  <2>4. Sendable(query)
    BY ONLY <1>1, <1>3 DEF Sendable, Requested
  <2>5. Arrives(arrived', query', req'.id)
    <3>1. Arrives(arrived', query, req.id)
      BY ONLY <2>2, <2>3, <2>4, i \in Id, reply \in Reply DEF Arrives
    <3> QED BY ONLY <1>1, <3>1
  <2> QED BY ONLY <1>4, <2>1, <2>5 DEF DnsInv
<1>7. CASE op' = [op EXCEPT !.st = "failed"]
  <2>1. op' = [kind |-> op.kind, st |-> "failed"]
    BY ONLY <1>1, <1>7, OpFacts
  <2>2. /\ op' \in {NoOp} \union [kind : {"send", "receive"}, st : {"pending", "ok", "failed"}]
        /\ op' # [kind |-> "receive", st |-> "ok"]
    BY ONLY <1>2, <2>1
  <2> QED BY ONLY <1>4, <2>2 DEF DnsInv
<1> QED BY ONLY <1>5, <1>6, <1>7, Complete DEF Complete

\* The timer expires.
LEMMA TimerExpiresKeeps ==
    ASSUME DnsInv, TimerExpires
    PROVE  DnsInv'
BY DEF DnsInv, TimerExpires, Requested, Reported

\* What a handler leaves alone, and what holds behind a step that stops the query.
Rest == UNCHANGED <<query, timeout, request, req, arrived>>

\* A handler that stops the client: the report is the first, and closes what is pending.
LEMMA StoppedKeeps ==
    ASSUME DnsInv, ~crashed, op # NoOp \/ timer # "new", Rest,
           NEW err, NEW alist, Stop(err, alist), UNCHANGED crashed,
           Told([err |-> err, alist |-> alist], arrived, query, req.id),
           timer' # "new", op' = NoOp \/ Closed
    PROVE  DnsInv'
<1>1. /\ query \in Query /\ stop_inited \in BOOLEAN /\ Reported
      /\ op \in {NoOp} \union [kind : {"send", "receive"}, st : {"pending", "ok", "failed"}]
      /\ op # NoOp \/ req # <<>> => Requested
      /\ op = [kind |-> "receive", st |-> "ok"] => Arrives(arrived, query, req.id)
  BY DEF DnsInv
<1>2. stop_inited' = TRUE /\ Reported'
  BY <1>1, StopReported DEF Rest
<1>3. Requested => Requested'
  BY ONLY Rest DEF Rest, Requested
<1>4. query' \in Query /\ request' = request /\ arrived' = arrived /\ query' = query /\ req' = req
      /\ ~crashed'
  BY ONLY <1>1, ~crashed, UNCHANGED crashed, Rest DEF Rest
<1>5. CASE op' = NoOp
  <2>1. op'.st # "pending" /\ op' # [kind |-> "receive", st |-> "ok"]
    BY ONLY <1>5 DEF NoOp
  <2>2. req' # <<>> => Requested'
    BY ONLY <1>1, <1>3, <1>4
  <2> QED BY ONLY <1>2, <1>4, <1>5, <2>1, <2>2, timer' # "new" DEF DnsInv
<1>6. CASE Closed /\ op.st = "pending"
  <2>1. op' = [op EXCEPT !.st = "failed"]
    BY ONLY <1>6 DEF Closed
  <2>2. op # NoOp /\ op' = [kind |-> op.kind, st |-> "failed"] /\ op.kind \in {"send", "receive"}
    BY ONLY <1>1, <1>6, <2>1, OpFacts
  <2>3. /\ op' \in {NoOp} \union [kind : {"send", "receive"}, st : {"pending", "ok", "failed"}]
        /\ op' # [kind |-> "receive", st |-> "ok"] /\ op'.st # "pending"
    BY ONLY <2>2
  <2>4. Requested'
    BY ONLY <1>1, <1>3, <2>2
  <2> QED BY ONLY <1>2, <1>4, <2>3, <2>4, timer' # "new" DEF DnsInv
<1>7. CASE Closed /\ op.st # "pending"
  <2>1. op' = op
    BY ONLY <1>7 DEF Closed
  <2>2. op' # NoOp \/ req' # <<>> => Requested'
    BY ONLY <1>1, <1>3, <1>4, <2>1
  <2>3. op' = [kind |-> "receive", st |-> "ok"] => Arrives(arrived', query', req'.id)
    BY ONLY <1>1, <1>4, <2>1
  <2>4. op'.st # "pending" /\ op' \in {NoOp} \union [kind : {"send", "receive"}, st : {"pending", "ok", "failed"}]
    BY ONLY <1>1, <1>7, <2>1
  <2> QED BY ONLY <1>2, <1>4, <2>2, <2>3, <2>4, timer' # "new" DEF DnsInv
<1> QED BY ONLY <1>5, <1>6, <1>7, op' = NoOp \/ Closed

\* The handler of a send: the receive begins.
LEMMA RequestSentKeeps ==
    ASSUME DnsInv, RequestSent, Rest
    PROVE  DnsInv'
<1>1. /\ ~crashed /\ op = [kind |-> "send", st |-> "ok"] /\ op' = Started("receive")
      /\ UNCHANGED <<timer, stop_inited, reports, crashed>>
  BY DEF RequestSent, Runs
<1>2. op # NoOp
  BY ONLY <1>1 DEF NoOp
<1>3. /\ query \in Query /\ stop_inited \in BOOLEAN /\ Requested /\ Reported /\ timer # "new"
  BY ONLY <1>2, DnsInv DEF DnsInv
<1>4. /\ op' \in {NoOp} \union [kind : {"send", "receive"}, st : {"pending", "ok", "failed"}]
      /\ op' # [kind |-> "receive", st |-> "ok"] /\ (stop_inited => op'.st # "pending")
  BY ONLY <1>1 DEF Started
<1>5. Requested' /\ Reported' /\ query' \in Query
  BY ONLY <1>1, <1>3, Rest DEF Rest, Requested, Reported
<1> QED BY ONLY <1>1, <1>3, <1>4, <1>5 DEF DnsInv

\* The handler of a receive: the package is parsed, and what it tells is reported.
LEMMA RespondReceivedKeeps ==
    ASSUME DnsInv, RespondReceived, Rest
    PROVE  DnsInv'
<1>1. /\ ~crashed /\ op = [kind |-> "receive", st |-> "ok"] /\ op' = NoOp
      /\ IF stop_inited \/ Parsed = {}
         THEN crashed' = TRUE /\ UNCHANGED <<timer, stop_inited, reports>>
         ELSE \E respond \in Parsed :
                 Stop(respond.error, respond.alist) /\ TimerCancelled /\ UNCHANGED crashed
  BY DEF RespondReceived, Runs
<1>2. op # NoOp
  BY ONLY <1>1 DEF NoOp
<1>3. /\ query \in Query /\ stop_inited \in BOOLEAN /\ Requested /\ Reported /\ timer # "new"
      /\ Arrives(arrived, query, req.id)
  BY ONLY <1>1, <1>2, DnsInv DEF DnsInv
<1>4. Parsed = RespondParsed(arrived.bytes, req.id)
  BY DEF Parsed
<1>5. CASE stop_inited \/ Parsed = {}
  <2>1. crashed' = TRUE /\ UNCHANGED <<timer, stop_inited, reports>>
    BY ONLY <1>1, <1>5
  <2>2. Readable(arrived) => stop_inited
    BY ONLY <1>3, <1>4, <1>5, ParsedFacts
  <2>3. Readable(arrived') => stop_inited'
    BY ONLY <2>1, <2>2, Rest DEF Rest
  <2>4. Requested' /\ Reported' /\ query' \in Query
    BY ONLY <1>3, <2>1, Rest DEF Rest, Requested, Reported
  <2>5. op'.st # "pending" /\ op' # [kind |-> "receive", st |-> "ok"]
    BY ONLY <1>1 DEF NoOp
  <2> QED BY ONLY <1>1, <1>3, <2>1, <2>3, <2>4, <2>5 DEF DnsInv
<1>6. CASE ~(stop_inited \/ Parsed = {})
  <2>1. PICK respond \in Parsed :
           Stop(respond.error, respond.alist) /\ TimerCancelled /\ UNCHANGED crashed
    BY ONLY <1>1, <1>6
  <2>2. Told([err |-> respond.error, alist |-> respond.alist], arrived, query, req.id)
    BY ONLY <1>3, <1>4, ParsedFacts, respond \in Parsed
  <2>3. timer' # "new"
    BY ONLY <2>1 DEF TimerCancelled
  <2>4. PICK err, alist : err = respond.error /\ alist = respond.alist
    OBVIOUS
  <2>5. Stop(err, alist) /\ Told([err |-> err, alist |-> alist], arrived, query, req.id)
    BY ONLY <2>1, <2>2, <2>4
  <2> QED BY ONLY <1>1, <1>2, <2>1, <2>3, <2>5, StoppedKeeps, DnsInv, Rest
<1> QED BY ONLY <1>5, <1>6

\* The handler of an operation that failed.
LEMMA OperationFailedKeeps ==
    ASSUME DnsInv, OperationFailed, Rest
    PROVE  DnsInv'
<1>1. /\ ~crashed /\ op' = NoOp /\ Stop("noerror", <<>>) /\ TimerCancelled /\ UNCHANGED crashed
      /\ op.st = "failed"
  BY DEF OperationFailed, Runs
<1>2. op # NoOp /\ timer' # "new"
  BY ONLY <1>1 DEF NoOp, TimerCancelled
<1>3. PICK err, alist : err = "noerror" /\ alist = <<>>
  OBVIOUS
<1>4. Stop(err, alist) /\ Told([err |-> err, alist |-> alist], arrived, query, req.id)
  BY ONLY <1>1, <1>3, NothingTold
<1> QED BY ONLY <1>1, <1>2, <1>4, StoppedKeeps, DnsInv, Rest

\* The handler of the timer.
LEMMA TimeoutKeeps ==
    ASSUME DnsInv, Timeout, Rest
    PROVE  DnsInv'
<1>1. /\ ~crashed /\ timer = "queued" /\ timer' = "off" /\ Stop("timeout_err", <<>>) /\ Closed
      /\ UNCHANGED crashed
  BY DEF Timeout
<1>2. timer # "new" /\ timer' # "new"
  BY ONLY <1>1
<1>3. PICK err, alist : err = "timeout_err" /\ alist = <<>>
  OBVIOUS
<1>4. Stop(err, alist) /\ Told([err |-> err, alist |-> alist], arrived, query, req.id)
  BY ONLY <1>1, <1>3, NothingTold
<1> QED BY ONLY <1>1, <1>2, <1>4, StoppedKeeps, DnsInv, Rest

\* The daemon stops the client.
LEMMA StopFromAboveKeeps ==
    ASSUME DnsInv, StopFromAbove, Rest
    PROVE  DnsInv'
<1>1. /\ ~crashed /\ timer # "new" /\ Stop("noerror", <<>>) /\ TimerCancelled /\ Closed
      /\ UNCHANGED crashed
  BY DEF StopFromAbove
<1>2. timer' # "new"
  BY ONLY <1>1 DEF TimerCancelled
<1>3. PICK err, alist : err = "noerror" /\ alist = <<>>
  OBVIOUS
<1>4. Stop(err, alist) /\ Told([err |-> err, alist |-> alist], arrived, query, req.id)
  BY ONLY <1>1, <1>3, NothingTold
<1> QED BY ONLY <1>1, <1>2, <1>4, StoppedKeeps, DnsInv, Rest

\* DnsInv is an invariant, for every query, server, bound of repeats and set of
\* identifiers: every action of the client keeps it.
THEOREM DnsInvariant == Spec => []DnsInv
<1>1. Init => DnsInv
  BY DnsInvInit
<1>2. DnsInv /\ [Next]_vars => DnsInv'
  <2> SUFFICES ASSUME DnsInv, [Next]_vars PROVE DnsInv'
    OBVIOUS
  <2>1. CASE Begin
    BY <2>1, BeginKeeps
  <2>2. CASE Complete
    BY <2>2, CompleteKeeps
  <2>3. CASE TimerExpires
    BY <2>3, TimerExpiresKeeps
  <2>4. CASE Handler
    <3>1. Rest /\ (RequestSent \/ RespondReceived \/ OperationFailed \/ Timeout)
      BY ONLY <2>4 DEF Handler, Rest
    <3> QED BY ONLY <3>1, DnsInv, RequestSentKeeps, RespondReceivedKeeps, OperationFailedKeeps,
                    TimeoutKeeps
  <2>5. CASE StopFromAbove /\ UNCHANGED <<query, timeout, request, req, arrived>>
    BY <2>5, StopFromAboveKeeps DEF Rest
  <2>6. CASE UNCHANGED vars
    BY <2>6 DEF vars, DnsInv, Requested, Reported
  <2> QED BY <2>1, <2>2, <2>3, <2>4, <2>5, <2>6 DEF Next
<1> QED BY <1>1, <1>2, PTL DEF Spec

\* A request that was written is the question that was meant.
LEMMA DnsInvUnderstood == DnsInv => RequestUnderstood
<1> SUFFICES ASSUME DnsInv, req # <<>>, Known(Question(query).name)
             PROVE  request = WireRequest(req.id, Question(query))
  BY DEF RequestUnderstood
<1>1. query \in Query /\ Requested
  BY DEF DnsInv
<1>2. PICK id \in Id : req = DnsRequest(id, query.name, query.type)
  BY ONLY <1>1 DEF Requested
<1>3. Sendable(query)
  BY ONLY <1>1 DEF Requested, Sendable
<1>4. /\ RequestWritten(req) = WireRequest(req.id, Question(query))
      /\ Len(RequestWritten(req)) <= max_pkg_size
  BY ONLY <1>2, <1>3, WrittenFacts, Known(Question(query).name)
<1>5. request = IF Len(RequestWritten(req)) <= max_pkg_size THEN RequestWritten(req) ELSE <<>>
  BY ONLY <1>1 DEF Requested
<1> QED BY ONLY <1>4, <1>5, Zenon

\* A report is of the reply that arrived.
LEMMA DnsInvExact == DnsInv => AnswersExact
<1> SUFFICES ASSUME DnsInv, NEW i \in DOMAIN reports,
                    reports[i].err = "noerror", reports[i].alist # <<>>
             PROVE  LET alist == reports[i].alist
                        sent == Meaning(Question(query), arrived.reply.records)
                        best == {j \in DOMAIN sent : \A k \in DOMAIN sent :
                                    sent[j].preference <= sent[k].preference}
                    IN  /\ arrived.id = req.id
                        /\ arrived.reply.rcode = 0
                        /\ Readable(arrived) =>
                              /\ alist = sent
                              /\ RandRecValue(alist) \subseteq {sent[j].answer : j \in DOMAIN sent}
                              /\ GetMxSorted(alist)[Min(DOMAIN GetMxSorted(alist))]
                                    = sent[Min(best)].answer
  BY DEF AnswersExact
<1>1. Reported
  BY DEF DnsInv
<1>2. stop_inited
  <2>1. reports # <<>>
    OBVIOUS
  <2> QED BY ONLY <1>1, <2>1 DEF Reported
<1>3. reports = <<reports[1]>> /\ Told(reports[1], arrived, query, req.id)
  BY ONLY <1>1, <1>2 DEF Reported
<1>4. i = 1
  BY ONLY <1>3, i \in DOMAIN reports
<1>5. PICK alist, sent, records :
         /\ alist = reports[1].alist /\ records = arrived.reply.records
         /\ sent = Meaning(Question(query), arrived.reply.records)
  OBVIOUS
<1>6. /\ arrived.id = req.id /\ arrived.reply.rcode = 0 /\ arrived.reply \in Reply
      /\ Readable(arrived) => alist = sent
  BY ONLY <1>3, <1>4, <1>5, reports[i].alist # <<>> DEF Told
<1>7. ASSUME Readable(arrived)
      PROVE  /\ RandRecValue(sent) \subseteq {sent[j].answer : j \in DOMAIN sent}
             /\ GetMxSorted(sent)[Min(DOMAIN GetMxSorted(sent))]
                   = sent[Min(Preferred(sent))].answer
  <2>1. records \in Seq(RecordType)
    BY ONLY <1>5, <1>6, ReplyFacts
  <2>2. PICK n \in Nat : n = Len(records)
    BY ONLY <2>1
  <2>3. DOMAIN records = 1..n
    BY ONLY <2>1, <2>2
  <2>4. DOMAIN sent = 1..n /\ \A k \in 1..n : sent[k].preference = records[k].preference
    BY ONLY <1>5, <2>3 DEF Meaning
  <2>5. \A k \in 1..n : sent[k].preference \in Nat
    <3> TAKE k \in 1..n
    <3>1. records[k] \in RecordType
      BY ONLY <2>1, <2>3, k \in 1..n
    <3>2. records[k].preference \in Nat
      BY ONLY <3>1 DEF RecordType
    <3> QED BY ONLY <2>4, <3>2, k \in 1..n
  <2>6. n = Len(sent)
    <3>1. sent = [k \in 1..n |-> sent[k]]
      BY ONLY <1>5, <2>3 DEF Meaning
    <3> QED BY ONLY <3>1, n \in Nat
  <2>7. n # 0
    <3>1. sent # <<>>
      BY ONLY <1>4, <1>5, <1>6, <1>7, reports[i].alist # <<>>
    <3>2. sent = [k \in 1..n |-> sent[k]]
      BY ONLY <1>5, <2>3 DEF Meaning
    <3> QED BY ONLY <2>6, <3>1, <3>2
  <2> QED BY ONLY <2>4, <2>5, <2>6, <2>7, MxFacts, RandFacts, n \in Nat
<1> QED BY ONLY <1>4, <1>5, <1>6, <1>7 DEF Preferred

\* One report, and the program goes on to it with what is readable.
LEMMA DnsInvOnce == DnsInv => ReportedOnce
<1> SUFFICES ASSUME DnsInv PROVE ReportedOnce
  OBVIOUS
<1>1. /\ Reported /\ stop_inited \in BOOLEAN
      /\ crashed => (Known(Question(query).name) /\ Readable(arrived) => stop_inited)
  BY DEF DnsInv
<1>2. CASE stop_inited
  <2>1. reports = <<reports[1]>> /\ Told(reports[1], arrived, query, req.id)
    BY ONLY <1>1, <1>2 DEF Reported
  <2>2. Len(reports) = 1 /\ DOMAIN reports = {1} /\ reports # <<>>
    BY ONLY <2>1
  <2>3. reports[1].err # "noerror" => reports[1].alist = <<>>
    BY ONLY <2>1 DEF Told
  <2> QED BY ONLY <1>2, <2>2, <2>3 DEF ReportedOnce
<1>3. CASE ~stop_inited
  <2>1. reports = <<>>
    BY ONLY <1>1, <1>3 DEF Reported
  <2>2. Len(reports) = 0 /\ DOMAIN reports = {}
    BY ONLY <2>1
  <2> QED BY ONLY <1>1, <1>3, <2>2 DEF ReportedOnce
<1> QED BY ONLY <1>2, <1>3

\* Nothing but a stop or the parser leaves a query without an operation or, if it
\* has a timeout, without its timer.
Awaited ==
    ~stop_inited /\ ~crashed /\ timer # "new" =>
        /\ op # NoOp
        /\ timeout => timer \in {"pending", "queued"}

\* Every step keeps it.
LEMMA NextAwaited ==
    ASSUME DnsInv, Awaited, [Next]_vars
    PROVE  Awaited'
<1>0. \A kind \in {"send", "receive"} : Started(kind) # NoOp
  BY DEF Started, NoOp
<1>1. CASE Begin
  <2>1. CASE ReqStrErr(query.name, query.type)
    <3>1. stop_inited'
      BY ONLY <1>1, <2>1 DEF Begin, Stop
    <3> QED BY ONLY <3>1 DEF Awaited
  <2>2. CASE ~ReqStrErr(query.name, query.type)
    <3>1. /\ crashed' \/ op' = Started("send")
          /\ timeout' = timeout
          /\ timer' = IF timeout THEN "pending" ELSE "off"
      BY ONLY <1>1, <2>2 DEF Begin
    <3> QED BY ONLY <1>0, <3>1 DEF Awaited, NoOp
  <2> QED BY ONLY <2>1, <2>2
<1>2. CASE Complete
  <2>1. /\ op.st = "pending" /\ UNCHANGED <<timeout, timer, stop_inited, crashed>>
        /\ op' = [op EXCEPT !.st = "ok"] \/ op' = [op EXCEPT !.st = "failed"]
    BY ONLY <1>2 DEF Complete
  <2>2. op \in [kind : {"send", "receive"}, st : {"pending", "ok", "failed"}]
    BY ONLY <2>1, DnsInv DEF DnsInv, NoOp
  <2>3. op'.st \in {"ok", "failed"}
    BY ONLY <2>1, <2>2
  <2>4. op' # NoOp /\ op # NoOp
    BY ONLY <2>1, <2>3 DEF NoOp
  <2> QED BY ONLY <2>1, <2>4, Awaited DEF Awaited
<1>3. CASE TimerExpires
  BY ONLY <1>3, Awaited DEF Awaited, TimerExpires, NoOp
<1>4. CASE RequestSent /\ UNCHANGED timeout
  <2>1. /\ op' = Started("receive") /\ op # NoOp
        /\ UNCHANGED <<timeout, timer, stop_inited, crashed>>
    BY ONLY <1>4 DEF RequestSent, Runs, NoOp
  <2> QED BY ONLY <1>0, <2>1, Awaited DEF Awaited, NoOp
<1>5. CASE RespondReceived \/ OperationFailed \/ Timeout \/ StopFromAbove
  <2>1. crashed' \/ stop_inited'
    BY ONLY <1>5 DEF RespondReceived, OperationFailed, Timeout, StopFromAbove, Stop
  <2> QED BY ONLY <2>1 DEF Awaited
<1>6. CASE UNCHANGED vars
  BY ONLY <1>6, Awaited DEF Awaited, vars, NoOp
<1> QED BY ONLY <1>1, <1>2, <1>3, <1>4, <1>5, <1>6, [Next]_vars DEF Next, Handler

\* A server reads in what the client sends, for every name of up to 255 bytes, the
\* question that was meant: the header, the name section by section or the reversed
\* address below in-addr.arpa, the type and the class; it always fits the 512 bytes
\* of the buffer (DnsUtils.cpp, DnsRequest, DnsBuffer::prepare_for_request).
THEOREM RequestsUnderstood == Spec => []RequestUnderstood
BY DnsInvariant, DnsInvUnderstood, PTL

\* The answers AEvDnsClient hands up are those of the reply to its own request, in
\* their order, when the parser knows their types and the package is received whole,
\* which one of up to 512 bytes is; and the MX and the address that are chosen from
\* them are chosen as their comments say.
THEOREM AnswersAreExact == Spec => []AnswersExact
BY DnsInvariant, DnsInvExact, PTL

\* The client reports once in its life, whichever of the answer, the timer, an error
\* and its parent comes first, and a report of an error has no answers.
THEOREM ReportsOnce == Spec => []ReportedOnce
BY DnsInvariant, DnsInvOnce, PTL

\* UnreportedIsAwaited: until the query has reported something will come back to
\* it, the timer included if it has one, unless the parser ended the program.
THEOREM QueryIsAwaited == Spec => []UnreportedIsAwaited
<1>1. Init => Awaited
  BY DEF Init, Awaited
<1>2. DnsInv /\ Awaited /\ [Next]_vars => Awaited'
  BY NextAwaited
<1>3. DnsInv /\ Awaited => UnreportedIsAwaited
  <2> SUFFICES ASSUME DnsInv, Awaited, reports = <<>> PROVE UnreportedIsAwaited
    BY DEF UnreportedIsAwaited
  <2>1. ~stop_inited
    <3>1. Reported
      BY DEF DnsInv
    <3> QED BY ONLY <3>1, reports = <<>> DEF Reported
  <2> QED BY ONLY <2>1, Awaited DEF Awaited, UnreportedIsAwaited
<1> QED BY <1>1, <1>2, <1>3, DnsInvariant, PTL DEF Spec

=============================================================================
