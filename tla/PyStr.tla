------------------------------- MODULE PyStr --------------------------------
(***************************************************************************)
(* The Python str methods the CLI applies to file names and config lines, *)
(* on strings modelled as sequences of one-character strings.  Written    *)
(* without recursion, so that proofs can reason about them.                *)
(***************************************************************************)
EXTENDS Naturals, Sequences

\* The line feed character '\n'.
LF == "LF"

\* The set of characters of s, as str.strip takes its argument.
CharsOf(s) == {s[i] : i \in 1..Len(s)}

\* The positions of s whose character is not in chars.
KeptAt(s, chars) == {i \in 1..Len(s) : s[i] \notin chars}

\* The index of the first character of s not in chars, or 0.
FirstKept(s, chars) ==
    IF KeptAt(s, chars) = {} THEN 0
    ELSE CHOOSE i \in KeptAt(s, chars) : \A j \in KeptAt(s, chars) : i <= j

\* The index of the last character of s not in chars, or 0.
LastKept(s, chars) ==
    IF KeptAt(s, chars) = {} THEN 0
    ELSE CHOOSE i \in KeptAt(s, chars) : \A j \in KeptAt(s, chars) : j <= i

\* s.strip(chars): drop every leading and trailing character in chars.
Strip(s, chars) ==
    IF FirstKept(s, chars) = 0 THEN <<>>
    ELSE SubSeq(s, FirstKept(s, chars), LastKept(s, chars))

\* s.lstrip(chars): drop the leading characters in chars.
LStrip(s, chars) ==
    IF FirstKept(s, chars) = 0 THEN <<>> ELSE SubSeq(s, FirstKept(s, chars), Len(s))

=============================================================================
