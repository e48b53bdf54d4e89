--------------------------- MODULE PortKeyProofs ----------------------------
(***************************************************************************)
(* Proofs about PortKey: when str.strip(prefix) keeps a conf file's port,  *)
(* for every component path and every port, and that ports_pids is then    *)
(* keyed by port.                                                          *)
(***************************************************************************)
EXTENDS PortKey, SequenceTheorems, TLAPS

\* The first kept index of s is a when s[a] is kept and nothing before it is.
LEMMA FirstKeptIs ==
    ASSUME NEW s, NEW chars, NEW a \in 1..Len(s),
           s[a] \notin chars,
           \A i \in 1..(a - 1) : s[i] \in chars
    PROVE  FirstKept(s, chars) = a
<1> DEFINE K == KeptAt(s, chars)
<1>1. a \in K /\ \A j \in K : a <= j
  BY DEF KeptAt
<1>2. \A i \in K : (\A j \in K : i <= j) => i = a
  BY <1>1
<1>3. (CHOOSE i \in K : \A j \in K : i <= j) = a
  BY <1>1, <1>2
<1> QED
  BY <1>1, <1>3 DEF FirstKept

\* The last kept index of s is b when s[b] is kept and nothing after it is.
LEMMA LastKeptIs ==
    ASSUME NEW s, NEW chars, NEW b \in 1..Len(s),
           s[b] \notin chars,
           \A i \in (b + 1)..Len(s) : s[i] \in chars
    PROVE  LastKept(s, chars) = b
<1> DEFINE K == KeptAt(s, chars)
<1>1. b \in K /\ \A j \in K : j <= b
  BY DEF KeptAt
<1>2. \A i \in K : (\A j \in K : j <= i) => i = b
  BY <1>1
<1>3. (CHOOSE i \in K : \A j \in K : j <= i) = b
  BY <1>1, <1>2
<1> QED
  BY <1>1, <1>3 DEF LastKept

\* s.strip(chars) is the part of s between the first and last kept characters.
LEMMA StripBetween ==
    ASSUME NEW s, NEW chars,
           NEW a \in 1..Len(s), NEW b \in 1..Len(s), a <= b,
           s[a] \notin chars, s[b] \notin chars,
           \A i \in 1..(a - 1) : s[i] \in chars,
           \A i \in (b + 1)..Len(s) : s[i] \in chars
    PROVE  Strip(s, chars) = SubSeq(s, a, b)
BY FirstKeptIs, LastKeptIs DEF Strip

\* s.lstrip(chars) is s from its first kept character on.
LEMMA LStripFrom ==
    ASSUME NEW s, NEW chars, NEW a \in 1..Len(s),
           s[a] \notin chars,
           \A i \in 1..(a - 1) : s[i] \in chars
    PROVE  LStrip(s, chars) = SubSeq(s, a, Len(s))
BY FirstKeptIs DEF LStrip

\* A part of a part of s is a part of s.
LEMMA PartOfPart ==
    ASSUME NEW S, NEW s \in Seq(S), NEW i \in 1..Len(s), NEW j \in 1..Len(s),
           NEW a \in 1..(j - i + 1), NEW b \in 1..(j - i + 1)
    PROVE  SubSeq(SubSeq(s, i, j), a, b) = SubSeq(s, i + a - 1, i + b - 1)
BY SubSeqOfSubSeq

----------------------------------------------------------------------------
(* The characters of a conf file name *)

\* The characters of the fixed path part, and the conf file's tail.
FixedChars == {"/", "c", "o", "n", "f", "i", "g", "z", "d", "a", "e", "m"}

LEMMA FixedIsString ==
    ASSUME NEW S, FixedChars \subseteq S
    PROVE  /\ Fixed \in Seq(S) /\ Len(Fixed) = 23
           /\ CharsOf(Fixed) = FixedChars
<1>1. Fixed \in Seq(S) /\ Len(Fixed) = 23
  BY DEF Fixed, FixedChars
<1>2. CharsOf(Fixed) = FixedChars
  BY DEF CharsOf, Fixed, FixedChars
<1> QED
  BY <1>1, <1>2

(***************************************************************************)
(* Where the parts of zdaemon.<port>.conf sit: n characters of prefix, the *)
(* dot, the m digits of the port, the dot and 'conf'.                      *)
(***************************************************************************)
LEMMA ConfFileAt ==
    ASSUME NEW S, FixedChars \cup {"."} \subseteq S,
           NEW d \in Seq(S), NEW p \in Seq(S)
    PROVE  LET f == ConfFile(d, p)
               n == Len(Prefix(d))
               m == Len(p)
           IN  /\ Prefix(d) \in Seq(S) /\ f \in Seq(S)
               /\ n = Len(d) + 23 /\ Len(f) = n + m + 6
               /\ \A i \in 1..n : f[i] = Prefix(d)[i]
               /\ f[n + 1] = "."
               /\ \A j \in 1..m : f[n + 1 + j] = p[j]
               /\ f[n + m + 2] = "."
               /\ \A i \in (n + m + 3)..(n + m + 6) : f[i] \in FixedChars
<1> DEFINE pre == Prefix(d)
           n == Len(pre)
           m == Len(p)
           tail == <<".", "c", "o", "n", "f">>
           s1 == pre \o <<".">>
           s2 == s1 \o p
<1>1. Fixed \in Seq(S) /\ Len(Fixed) = 23
  BY FixedIsString
<1>2. pre \in Seq(S) /\ n = Len(d) + 23
  <2>1. d \o Fixed \in Seq(S) /\ Len(d \o Fixed) = Len(d) + Len(Fixed)
    BY <1>1, ConcatProperties
  <2> QED
    BY <1>1, <2>1 DEF Prefix
<1>3. tail \in Seq(S) /\ Len(tail) = 5 /\ \A i \in 1..5 : tail[i] \in FixedChars \cup {"."}
  BY DEF FixedChars
<1>4. <<".">> \in Seq(S) /\ Len(<<".">>) = 1
  OBVIOUS
<1>5. /\ s1 \in Seq(S) /\ Len(s1) = n + 1
      /\ \A i \in 1..n : s1[i] = pre[i]
      /\ s1[n + 1] = "."
  BY <1>2, <1>4, ConcatProperties
<1>6. /\ s2 \in Seq(S) /\ Len(s2) = n + 1 + m
      /\ \A i \in 1..(n + 1) : s2[i] = s1[i]
      /\ \A j \in 1..m : s2[n + 1 + j] = p[j]
  BY <1>5, ConcatProperties
<1>7. /\ s2 \o tail \in Seq(S) /\ Len(s2 \o tail) = n + m + 6
      /\ \A i \in 1..(n + 1 + m) : (s2 \o tail)[i] = s2[i]
      /\ (s2 \o tail)[n + m + 2] = "."
      /\ \A i \in (n + m + 3)..(n + m + 6) : (s2 \o tail)[i] \in FixedChars
  <2>1. \A i \in 1..(n + 1 + m + 5) : (s2 \o tail)[i] =
            IF i <= n + 1 + m THEN s2[i] ELSE tail[i - (n + 1 + m)]
    BY <1>3, <1>6, ConcatProperties
  <2>2. (s2 \o tail)[n + m + 2] = "."
    BY <1>2, <2>1
  <2>3. \A i \in (n + m + 3)..(n + m + 6) : (s2 \o tail)[i] \in FixedChars
    BY <1>2, <2>1 DEF FixedChars
  <2> QED
    BY <1>3, <1>6, <2>1, <2>2, <2>3, ConcatProperties
<1>8. ConfFile(d, p) = s2 \o tail
  BY DEF ConfFile, Prefix
<1>9. \A i \in 1..n : (s2 \o tail)[i] = pre[i]
  BY <1>2, <1>5, <1>6, <1>7
<1>10. (s2 \o tail)[n + 1] = "."
  BY <1>2, <1>5, <1>6, <1>7
<1>11. \A j \in 1..m : (s2 \o tail)[n + 1 + j] = p[j]
  BY <1>2, <1>6, <1>7
<1> HIDE DEF s1, s2, tail
<1> QED
  BY <1>2, <1>7, <1>8, <1>9, <1>10, <1>11

\* Every character of the fixed path part is a character of the prefix.
LEMMA FixedInPrefix ==
    ASSUME NEW S, FixedChars \subseteq S, NEW d \in Seq(S)
    PROVE  FixedChars \subseteq CharsOf(Prefix(d))
<1>1. Fixed \in Seq(S) /\ Len(Fixed) = 23 /\ CharsOf(Fixed) = FixedChars
  BY FixedIsString
<1>2. /\ Len(d \o Fixed) = Len(d) + Len(Fixed)
      /\ \A i \in 1..(Len(d) + Len(Fixed)) :
            (d \o Fixed)[i] = IF i <= Len(d) THEN d[i] ELSE Fixed[i - Len(d)]
  BY <1>1, ConcatProperties
<1>3. \A k \in 1..23 : (d \o Fixed)[Len(d) + k] = Fixed[k]
  <2> SUFFICES ASSUME NEW k \in 1..23 PROVE (d \o Fixed)[Len(d) + k] = Fixed[k]
    OBVIOUS
  <2>1. Len(d) \in Nat
    OBVIOUS
  <2>2. Len(d) + k \in 1..(Len(d) + Len(Fixed)) /\ ~(Len(d) + k <= Len(d))
        /\ Len(d) + k - Len(d) = k
    BY <1>1, <2>1
  <2> QED
    BY <1>2, <2>2
<1>4. \A c \in FixedChars : \E k \in 1..23 : Fixed[k] = c
  BY <1>1 DEF CharsOf
<1>5. Len(d \o Fixed) = Len(d) + 23
  BY <1>1, <1>2
<1>6. \A c \in FixedChars : \E i \in 1..Len(d \o Fixed) : (d \o Fixed)[i] = c
  <2> SUFFICES ASSUME NEW c \in FixedChars
               PROVE \E i \in 1..Len(d \o Fixed) : (d \o Fixed)[i] = c
    OBVIOUS
  <2>1. PICK k \in 1..23 : Fixed[k] = c
    BY <1>4
  <2>2. Len(d) + k \in 1..Len(d \o Fixed)
    BY <1>5
  <2> QED
    BY <1>3, <2>1, <2>2
<1> QED
  BY <1>6 DEF CharsOf, Prefix

\* The port's digits sit between the two dots of its conf file name.
LEMMA PortInConf ==
    ASSUME NEW S, FixedChars \cup {"."} \subseteq S,
           NEW d \in Seq(S), NEW p \in Seq(S)
    PROVE  SubSeq(ConfFile(d, p), Len(Prefix(d)) + 2, Len(Prefix(d)) + Len(p) + 1) = p
<1> DEFINE f == ConfFile(d, p)
           n == Len(Prefix(d))
           m == Len(p)
           g == SubSeq(f, n + 2, n + m + 1)
<1>1. f \in Seq(S) /\ n \in Nat /\ Len(f) = n + m + 6
      /\ \A j \in 1..m : f[n + 1 + j] = p[j]
  BY ConfFileAt
<1>2. g \in Seq(S) /\ Len(g) = m /\ \A i \in 1..m : g[i] = f[n + 2 + i - 1]
  <2>1. \A i \in (n + 2)..(n + m + 1) : f[i] \in S
    BY <1>1, ElementOfSeq
  <2> QED
    BY <2>1, <1>1, SubSeqProperties
<1>3. \A i \in 1..m : g[i] = p[i]
  BY <1>1, <1>2
<1> HIDE DEF f, n, m, g
<1>4. g = p
  <2>1. g \in Seq(S) /\ Len(g) = Len(p) /\ \A i \in 1..Len(g) : g[i] = p[i]
    BY <1>2, <1>3 DEF m
  <2> QED
    BY <2>1, SeqEqual
<1> QED
  BY <1>4 DEF f, n, m, g

(***************************************************************************)
(* The key is the port: conf_file.strip(prefix).strip('.').lstrip('0')     *)
(* gives the port back when the port has no leading zero and no dot at     *)
(* either end, and either the prefix has no '.' (the strip stops at the    *)
(* dots around the port) or it has neither end digit of the port (the      *)
(* strip stops at those digits).                                           *)
(***************************************************************************)
LEMMA KeyIsPort ==
    ASSUME NEW S, FixedChars \cup {"."} \subseteq S,
           NEW d \in Seq(S), NEW p \in Seq(S),
           Len(p) >= 1, p[1] \notin {".", "0"}, p[Len(p)] # ".",
           \/ "." \notin CharsOf(Prefix(d))
           \/ p[1] \notin CharsOf(Prefix(d)) /\ p[Len(p)] \notin CharsOf(Prefix(d))
    PROVE  Key(d, ConfFile(d, p)) = p
<1> DEFINE P == CharsOf(Prefix(d))
           f == ConfFile(d, p)
           n == Len(Prefix(d))
           m == Len(p)
<1>0. m \in Nat
  OBVIOUS
<1>1. /\ Prefix(d) \in Seq(S) /\ f \in Seq(S) /\ n \in Nat /\ m \in Nat
      /\ Len(f) = n + m + 6
      /\ \A i \in 1..n : f[i] = Prefix(d)[i]
      /\ f[n + 1] = "."
      /\ \A j \in 1..m : f[n + 1 + j] = p[j]
      /\ f[n + m + 2] = "."
      /\ \A i \in (n + m + 3)..(n + m + 6) : f[i] \in FixedChars
  <2>1. Prefix(d) \in Seq(S) /\ f \in Seq(S) /\ n \in Nat /\ Len(f) = n + m + 6
    BY ConfFileAt
  <2>2. /\ \A i \in 1..n : f[i] = Prefix(d)[i]
        /\ f[n + 1] = "."
    BY ConfFileAt
  <2>3. /\ \A j \in 1..m : f[n + 1 + j] = p[j]
        /\ f[n + m + 2] = "."
    BY ConfFileAt
  <2>4. \A i \in (n + m + 3)..(n + m + 6) : f[i] \in FixedChars
    BY ConfFileAt
  <2> QED
    BY <1>0, <2>1, <2>2, <2>3, <2>4
<1>2. \A i \in 1..n : f[i] \in P
  BY <1>1 DEF CharsOf
<1>3. \A i \in (n + m + 3)..(n + m + 6) : f[i] \in P
  BY <1>1, FixedInPrefix
<1>4. SubSeq(f, n + 2, n + m + 1) = p
  BY PortInConf
<1>5. Strip(Strip(f, P), {"."}) = p
  <2>1. CASE "." \notin P
    \* The strip of the prefix's characters stops at the two dots.
    <3>1. Strip(f, P) = SubSeq(f, n + 1, n + m + 2)
      <4>1. n + 1 \in 1..Len(f) /\ n + m + 2 \in 1..Len(f) /\ n + 1 <= n + m + 2
        BY <1>1
      <4>2. f[n + 1] \notin P /\ f[n + m + 2] \notin P
        BY <1>1, <2>1
      <4>3. \A i \in 1..((n + 1) - 1) : f[i] \in P
        BY <1>1, <1>2
      <4>4. \A i \in ((n + m + 2) + 1)..Len(f) : f[i] \in P
        BY <1>1, <1>3
      <4> HIDE DEF f, n, m, P
      <4> QED
        BY <4>1, <4>2, <4>3, <4>4, StripBetween, Zenon
    <3> DEFINE g == SubSeq(f, n + 1, n + m + 2)
    <3>2. g \in Seq(S) /\ Len(g) = m + 2
          /\ \A i \in 1..(m + 2) : g[i] = f[n + 1 + i - 1]
      <4>1. \A i \in (n + 1)..(n + m + 2) : f[i] \in S
        BY <1>1, ElementOfSeq
      <4> QED
        BY <4>1, <1>1, SubSeqProperties
    <3>3. g[1] = "." /\ g[m + 2] = "." /\ g[2] = p[1] /\ g[m + 1] = p[m]
      <4>1. g[1] = f[n + 1] /\ g[m + 2] = f[n + m + 2]
            /\ g[2] = f[n + 1 + 1] /\ g[m + 1] = f[n + 1 + m]
        <5>1. 1 \in 1..(m + 2) /\ 2 \in 1..(m + 2) /\ m + 1 \in 1..(m + 2)
              /\ m + 2 \in 1..(m + 2)
          BY <1>0
        <5>2. n + 1 + 1 - 1 = n + 1 /\ n + 1 + (m + 2) - 1 = n + m + 2
              /\ n + 1 + 2 - 1 = n + 1 + 1 /\ n + 1 + (m + 1) - 1 = n + 1 + m
          BY <1>1
        <5> HIDE DEF g, f, n, m
        <5> QED
          BY <3>2, <5>1, <5>2
      <4>2. 1 \in 1..m /\ m \in 1..m
        BY <1>0
      <4> HIDE DEF g, f, n, m
      <4> QED
        BY <1>1, <4>1, <4>2
    <3>4. Strip(g, {"."}) = SubSeq(g, 2, m + 1)
      <4>1. 2 \in 1..Len(g) /\ m + 1 \in 1..Len(g) /\ 2 <= m + 1
        BY <1>1, <3>2
      <4>2. g[2] \notin {"."} /\ g[m + 1] \notin {"."}
        BY <3>3
      <4>3. \A i \in 1..(2 - 1) : g[i] \in {"."}
        BY <3>3
      <4> HIDE DEF g, m
      <4>4. \A i \in ((m + 1) + 1)..Len(g) : g[i] \in {"."}
        BY <1>0, <3>2, <3>3
      <4> QED
        BY <4>1, <4>2, <4>3, <4>4, StripBetween, Zenon
    <3>5. SubSeq(g, 2, m + 1) = SubSeq(f, n + 2, n + m + 1)
      <4>1. n + 1 \in 1..Len(f) /\ n + m + 2 \in 1..Len(f)
            /\ 2 \in 1..((n + m + 2) - (n + 1) + 1)
            /\ m + 1 \in 1..((n + m + 2) - (n + 1) + 1)
        BY <1>1
      <4>2. SubSeq(g, 2, m + 1) = SubSeq(f, (n + 1) + 2 - 1, (n + 1) + (m + 1) - 1)
        <5>1. f \in Seq(S)
          BY <1>1
        <5> HIDE DEF f, n, m, g, P
        <5>2. SubSeq(SubSeq(f, n + 1, n + m + 2), 2, m + 1)
                = SubSeq(f, (n + 1) + 2 - 1, (n + 1) + (m + 1) - 1)
          BY <1>0, <1>1, <5>1, <4>1, PartOfPart
        <5> QED
          BY <5>2 DEF g
      <4>3. (n + 1) + 2 - 1 = n + 2 /\ (n + 1) + (m + 1) - 1 = n + m + 1
        BY <1>1
      <4> QED
        BY <4>2, <4>3
    <3> QED
      BY <1>4, <3>1, <3>4, <3>5
  <2>2. CASE "." \in P
    \* The strip of the prefix's characters eats the dots and stops at the port.
    <3>1. p[1] \notin P /\ p[m] \notin P
      BY <2>2
    <3>2. Strip(f, P) = SubSeq(f, n + 2, n + m + 1)
      <4>1. n + 2 \in 1..Len(f) /\ n + m + 1 \in 1..Len(f) /\ n + 2 <= n + m + 1
        BY <1>1
      <4>2. f[n + 2] \notin P /\ f[n + m + 1] \notin P
        BY <1>1, <3>1
      <4>3. \A i \in 1..((n + 2) - 1) : f[i] \in P
        BY <1>1, <1>2, <2>2
      <4>4. \A i \in ((n + m + 1) + 1)..Len(f) : f[i] \in P
        <5> SUFFICES ASSUME NEW i \in ((n + m + 1) + 1)..Len(f) PROVE f[i] \in P
          OBVIOUS
        <5> HIDE DEF f, P, n, m
        <5>1. CASE i = n + m + 2
          BY <1>1, <2>2, <5>1
        <5>2. CASE i # n + m + 2
          <6>1. i \in (n + m + 3)..(n + m + 6)
            BY <1>1, <5>2
          <6> QED
            BY <1>3, <6>1
        <5> QED
          BY <5>1, <5>2
      <4> HIDE DEF f, n, m, P
      <4> QED
        BY <4>1, <4>2, <4>3, <4>4, StripBetween, Zenon
    <3>3. Strip(p, {"."}) = SubSeq(p, 1, m)
      <4>1. 1 \in 1..Len(p) /\ m \in 1..Len(p) /\ 1 <= m
        OBVIOUS
      <4>2. p[1] \notin {"."} /\ p[m] \notin {"."}
        OBVIOUS
      <4>3. \A i \in 1..(1 - 1) : p[i] \in {"."}
        OBVIOUS
      <4>4. \A i \in (m + 1)..Len(p) : p[i] \in {"."}
        OBVIOUS
      <4> HIDE DEF m
      <4> QED
        BY <4>1, <4>2, <4>3, <4>4, StripBetween, Zenon
    <3>4. SubSeq(p, 1, m) = p
      BY SubSeqFull
    <3> QED
      BY <1>4, <3>2, <3>3, <3>4
  <2> QED
    BY <2>1, <2>2
<1>6. LStrip(p, {"0"}) = p
  <2>1. 1 \in 1..Len(p) /\ p[1] \notin {"0"} /\ \A i \in 1..(1 - 1) : p[i] \in {"0"}
    OBVIOUS
  <2>2. LStrip(p, {"0"}) = SubSeq(p, 1, Len(p))
    BY <2>1, LStripFrom, Zenon
  <2> QED
    BY <2>2, SubSeqFull
<1> QED
  BY <1>5, <1>6 DEF Key


----------------------------------------------------------------------------
(* ports_pids is keyed by port *)

\* The characters of a port number.
Digits == {"0", "1", "2", "3", "4", "5", "6", "7", "8", "9"}

\* Every port is a decimal number written without a leading zero.
PortsAreNumbers == Ports \subseteq {p \in Seq(Digits) : Len(p) >= 1 /\ p[1] # "0"}

\* The component path has no '.' or no digit.
DirSeparable == "." \notin DirChars \/ DirChars \cap Digits = {}

\* A component path is a string of its characters and '/'.
LEMMA DirIsString ==
    ASSUME NEW d \in Dirs
    PROVE  d \in Seq(DirChars \cup {"/"})
<1>1. PICK s \in UNION {[1..n -> DirChars] : n \in 0..DirLen} : d = <<"/">> \o s
  BY DEF Dirs
<1>2. s \in Seq(DirChars)
  <2>1. PICK n \in 0..DirLen : s \in [1..n -> DirChars]
    OBVIOUS
  <2>2. n \in Nat
    OBVIOUS
  <2> QED
    BY <2>1, <2>2
<1>3. s \in Seq(DirChars \cup {"/"}) /\ <<"/">> \in Seq(DirChars \cup {"/"})
  BY <1>2, SeqMonotonic
<1> QED
  BY <1>1, <1>3, ConcatProperties

\* The characters of a string are those of its alphabet.
LEMMA CharsOfSeq ==
    ASSUME NEW T, NEW s \in Seq(T)
    PROVE  CharsOf(s) \subseteq T
BY ElementOfSeq DEF CharsOf

\* The prefix holds the path's characters and those of the fixed part only.
LEMMA PrefixChars ==
    ASSUME NEW d \in Dirs
    PROVE  CharsOf(Prefix(d)) \subseteq DirChars \cup FixedChars
<1> DEFINE T == DirChars \cup FixedChars
<1>1. d \in Seq(T)
  <2>1. d \in Seq(DirChars \cup {"/"}) /\ DirChars \cup {"/"} \subseteq T
    BY DirIsString DEF FixedChars
  <2> QED
    BY <2>1, SeqMonotonic
<1>2. Fixed \in Seq(T)
  BY FixedIsString
<1>3. Prefix(d) \in Seq(T)
  BY <1>1, <1>2, ConcatProperties DEF Prefix
<1> QED
  BY <1>3, CharsOfSeq

\* Under the two hypotheses, the key of every conf file is its port.
LEMMA VisitKey ==
    ASSUME PortsAreNumbers, DirSeparable, NEW d \in Dirs, NEW p \in Ports
    PROVE  Key(d, ConfFile(d, p)) = p
<1> DEFINE S == DirChars \cup FixedChars \cup {"."} \cup Digits
           P == CharsOf(Prefix(d))
<1>1. p \in Seq(Digits) /\ Len(p) >= 1 /\ p[1] # "0"
  BY DEF PortsAreNumbers
<1>2. p[1] \in Digits /\ p[Len(p)] \in Digits
  BY <1>1, ElementOfSeq
<1>3. p \in Seq(S)
  BY <1>1, SeqMonotonic
<1>4. d \in Seq(S)
  <2>1. d \in Seq(DirChars \cup {"/"}) /\ DirChars \cup {"/"} \subseteq S
    BY DirIsString DEF FixedChars
  <2> QED
    BY <2>1, SeqMonotonic
<1>5. P \subseteq DirChars \cup FixedChars
  BY PrefixChars
<1>6. "." \notin FixedChars /\ Digits \cap FixedChars = {}
  BY DEF FixedChars, Digits
<1>7. p[1] \notin {".", "0"} /\ p[Len(p)] # "."
  BY <1>1, <1>2 DEF Digits
<1>8. "." \notin P \/ (p[1] \notin P /\ p[Len(p)] \notin P)
  BY <1>2, <1>5, <1>6 DEF DirSeparable
<1>9. FixedChars \cup {"."} \subseteq S
  OBVIOUS
<1> HIDE DEF S, P
<1> QED
  BY <1>1, <1>3, <1>4, <1>7, <1>8, <1>9, KeyIsPort DEF P

\* The inductive invariant: the state's types, and the property itself.
IInv ==
    /\ dir \in Dirs
    /\ globbed \subseteq Ports
    /\ todo \subseteq globbed
    /\ ReportKeyedByPort

LEMMA InitIInv == Init => IInv
BY DEF Init, IInv, ReportKeyedByPort

LEMMA IInvStep ==
    ASSUME PortsAreNumbers, DirSeparable
    PROVE  IInv /\ [Next]_vars => IInv'
<1> SUFFICES ASSUME IInv, [Next]_vars PROVE IInv'
  OBVIOUS
<1>1. ASSUME NEW p \in todo,
             ports_pids' = {e \in ports_pids : e[1] # Key(dir, ConfFile(dir, p))}
                             \cup {<<Key(dir, ConfFile(dir, p)), p>>},
             todo' = todo \ {p},
             UNCHANGED <<dir, globbed>>
      PROVE  IInv'
  <2>1. Key(dir, ConfFile(dir, p)) = p
    BY VisitKey DEF IInv
  <2>2. ports_pids' = {e \in ports_pids : e[1] # p} \cup {<<p, p>>}
    BY <1>1, <2>1
  <2>3. ports_pids' = {<<r, r>> : r \in globbed \ todo'}
    BY <1>1, <2>2 DEF IInv, ReportKeyedByPort
  <2> QED
    BY <1>1, <2>3 DEF IInv, ReportKeyedByPort
<1>2. CASE Next
  BY <1>1, <1>2 DEF Next, Visit
<1>3. CASE UNCHANGED vars
  BY <1>3 DEF vars, IInv, ReportKeyedByPort
<1> QED
  BY <1>2, <1>3

(***************************************************************************)
(* _zdaemon_command stores every daemon's pid under its own port, and      *)
(* nothing else, whenever the ports are numbers without a leading zero and *)
(* the component path has no '.' or no digit: for every such path and set  *)
(* of ports, whatever order the glob's files are visited in.               *)
(***************************************************************************)
THEOREM KeyedByPort ==
    ASSUME PortsAreNumbers, DirSeparable
    PROVE  Spec => []ReportKeyedByPort
<1>1. IInv => ReportKeyedByPort
  BY DEF IInv
<1> QED
  BY <1>1, InitIInv, IInvStep, PTL DEF Spec
=============================================================================
