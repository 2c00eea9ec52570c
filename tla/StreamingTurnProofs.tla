------------------------- MODULE StreamingTurnProofs -------------------------
(***************************************************************************)
(* What holds of a streaming turn for every text, prompt and capacity.     *)
(*                                                                         *)
(* An output pipe is given up only at its end, and the end of a pipe lasts *)
(* because nobody is left who could write to it.  The decoder has turned   *)
(* out what the bytes it was given decode to, but for the first byte of a  *)
(* character, or a carriage return, that it holds back: cutting the bytes  *)
(* in two, and the characters in two, commutes with decoding.  Together a  *)
(* turn that returns has decoded all there was to decode.                  *)
(***************************************************************************)
EXTENDS StreamingTurn, SequenceTheorems, FiniteSetTheorems, TLAPS

Chars == Plain \cup {"cr"}

(* Does the cut between two texts part a line feed from the carriage       *)
(* return before it?                                                       *)
Splits(s, t) ==
  s # <<>> /\ Last(s) = "cr" /\ t # <<>> /\ t[1] = "lf"

(* The newlines of a text, place by place. *)
LEMMA NewlinesType ==
  ASSUME NEW s \in Seq(Chars)
  PROVE  /\ Newlines(s) \in Seq(Plain)
         /\ Len(Newlines(s)) = Len(s)
         /\ \A i \in 1 .. Len(s) : Newlines(s)[i] =
              IF s[i] = "cr" THEN "lf"
              ELSE IF s[i] = "lf" /\ i > 1 /\ s[i - 1] = "cr" THEN "" ELSE s[i]
<1>1. Len(s) \in Nat /\ DOMAIN s = 1 .. Len(s) /\ \A i \in 1 .. Len(s) : s[i] \in Chars
  BY LenProperties, ElementOfSeq
<1>2. DOMAIN Newlines(s) = 1 .. Len(s)
  BY <1>1 DEF Newlines
<1>3. \A i \in 1 .. Len(s) : Newlines(s)[i] =
              IF s[i] = "cr" THEN "lf"
              ELSE IF s[i] = "lf" /\ i > 1 /\ s[i - 1] = "cr" THEN "" ELSE s[i]
  BY <1>1 DEF Newlines
<1>4. Newlines(s) \in [1 .. Len(s) -> Plain]
  <2>1. \A i \in 1 .. Len(s) : Newlines(s)[i] \in Plain
    BY <1>1, <1>3 DEF Plain, Chars
  <2>2. Newlines(s) = [i \in 1 .. Len(s) |-> Newlines(s)[i]]
    BY <1>1 DEF Newlines
  <2> QED BY <2>1, <2>2
<1>5. Newlines(s) \in Seq(Plain)
  BY <1>1, <1>4
<1>6. Len(Newlines(s)) = Len(s)
  BY <1>1, <1>2, <1>5, LenProperties
<1> QED BY <1>3, <1>5, <1>6

(* A text may be cut anywhere but between CR and LF. *)
LEMMA NewlinesJoin ==
  ASSUME NEW s \in Seq(Chars), NEW t \in Seq(Chars),
         ~Splits(s, t)
  PROVE  Newlines(s \o t) = Newlines(s) \o Newlines(t)
<1>w. PICK w : w = s \o t
  OBVIOUS
<1>1. /\ w \in Seq(Chars) /\ Len(w) = Len(s) + Len(t)
      /\ \A i \in 1 .. Len(s) + Len(t) :
           w[i] = IF i <= Len(s) THEN s[i] ELSE t[i - Len(s)]
  BY <1>w
<1>2. Len(s) \in Nat /\ Len(t) \in Nat
  BY LenProperties
<1>3. /\ Newlines(s) \in Seq(Plain) /\ Newlines(t) \in Seq(Plain)
      /\ Len(Newlines(s)) = Len(s) /\ Len(Newlines(t)) = Len(t)
      /\ Newlines(w) \in Seq(Plain)
      /\ Len(Newlines(w)) = Len(s) + Len(t)
  BY <1>1, NewlinesType
<1>0. PICK p, q : p = Newlines(s) /\ q = Newlines(t)
  OBVIOUS
<1>a. PICK u : u = p \o q
  OBVIOUS
<1>4. /\ u \in Seq(Plain) /\ Len(u) = Len(s) + Len(t)
      /\ \A i \in 1 .. Len(s) + Len(t) :
           u[i] = IF i <= Len(s) THEN p[i] ELSE q[i - Len(s)]
  <2>1. p \in Seq(Plain) /\ q \in Seq(Plain)
    BY <1>0, <1>3
  <2>2. /\ u \in Seq(Plain)
        /\ Len(u) = Len(p) + Len(q)
        /\ \A i \in 1 .. Len(u) : u[i] = IF i <= Len(p) THEN p[i] ELSE q[i - Len(p)]
    BY <1>a, <2>1
  <2>3. Len(p) = Len(s) /\ Len(q) = Len(t)
    BY <1>0, <1>3
  <2> QED BY <2>2, <2>3
<1>5. ASSUME NEW i \in 1 .. Len(s) + Len(t)
      PROVE  Newlines(w)[i] = u[i]
  <2>0. Newlines(w)[i] =
          IF w[i] = "cr" THEN "lf"
          ELSE IF w[i] = "lf" /\ i > 1 /\ w[i - 1] = "cr" THEN ""
          ELSE w[i]
    BY <1>1, NewlinesType
  <2>1. CASE i <= Len(s)
    <3>1. i \in 1 .. Len(s) /\ w[i] = s[i]
          /\ (i > 1 => w[i - 1] = s[i - 1])
      BY <1>1, <1>2, <2>1
    <3>2. p[i] =
            IF s[i] = "cr" THEN "lf"
            ELSE IF s[i] = "lf" /\ i > 1 /\ s[i - 1] = "cr" THEN "" ELSE s[i]
      BY <1>0, <3>1, NewlinesType
    <3> QED BY <1>4, <2>0, <2>1, <3>1, <3>2
  <2>2. CASE i > Len(s)
    <3>1. PICK j : j = i - Len(s)
      OBVIOUS
    <3>0. j \in 1 .. Len(t) /\ i = Len(s) + j
      BY <1>2, <2>2, <3>1
    <3>2. w[i] = t[j] /\ (j > 1 => w[i - 1] = t[j - 1])
      BY <1>1, <1>2, <2>2, <3>0
    <3>3. q[j] =
            IF t[j] = "cr" THEN "lf"
            ELSE IF t[j] = "lf" /\ j > 1 /\ t[j - 1] = "cr" THEN "" ELSE t[j]
      BY <1>0, <3>0, NewlinesType
    <3>6. u[i] = q[j]
      BY <1>2, <1>4, <2>2, <3>1
    <3>4. CASE j > 1
      <4>1. i > 1
        BY <1>2, <3>0, <3>4
      <4> QED BY <2>0, <3>2, <3>3, <3>4, <3>6, <4>1
    <3>5. CASE j = 1
      <4>1. t # <<>>
        BY <1>2, <3>0, EmptySeq
      <4>2. i > 1 => s # <<>> /\ w[i - 1] = Last(s)
        BY <1>1, <1>2, <3>0, <3>5, EmptySeq DEF Last
      <4>3. ~(t[1] = "lf" /\ i > 1 /\ w[i - 1] = "cr")
        BY <4>1, <4>2 DEF Splits
      <4>4. w[i] = t[1]
        BY <3>2, <3>5
      <4>5. Newlines(w)[i] = IF t[1] = "cr" THEN "lf" ELSE t[1]
        BY <2>0, <4>3, <4>4
      <4>6. q[1] = IF t[1] = "cr" THEN "lf" ELSE t[1]
        BY <3>3, <3>5
      <4> QED BY <3>5, <3>6, <4>5, <4>6
    <3> QED BY <3>0, <3>4, <3>5
  <2> QED BY <1>2, <2>1, <2>2
<1> QED BY <1>w, <1>0, <1>a, <1>3, <1>4, <1>5, SeqEqual

(* Bytes to characters, place by place. *)
LEMMA CharactersType ==
  ASSUME NEW b \in Seq(Byte)
  PROVE  /\ Characters(b) \in Seq(Chars)
         /\ Len(Characters(b)) = Len(b) - IF Cut(b) THEN 1 ELSE 0
         /\ \A i \in 1 .. Len(Characters(b)) : Characters(b)[i] = Character[b[i]]
<1> DEFINE n == Len(b) - IF Cut(b) THEN 1 ELSE 0
<1>1. Len(b) \in Nat /\ \A i \in 1 .. Len(b) : b[i] \in Byte
  BY LenProperties, ElementOfSeq
<1>2. n \in Nat /\ n <= Len(b)
  BY <1>1, EmptySeq DEF Cut
<1>3. \A x \in Byte : Character[x] \in Chars
  BY DEF Character, Byte, Chars, Plain
<1>4. Characters(b) = [i \in 1 .. n |-> Character[b[i]]]
  BY DEF Characters
<1> HIDE DEF n
<1>5. \A i \in 1 .. n : Character[b[i]] \in Chars
  BY <1>1, <1>2, <1>3
<1>6. Characters(b) \in [1 .. n -> Chars]
  BY <1>4, <1>5
<1>7. Characters(b) \in Seq(Chars) /\ Len(Characters(b)) = n
  BY <1>2, <1>6
<1> QED BY <1>4, <1>7 DEF n

(* Bytes may be cut anywhere but inside a character. *)
LEMMA CharactersJoin ==
  ASSUME NEW b \in Seq(Byte), NEW c \in Seq(Byte), ~Cut(b)
  PROVE  /\ Characters(b \o c) = Characters(b) \o Characters(c)
         /\ Cut(b \o c) <=> Cut(c)
<1>w. PICK w : w = b \o c
  OBVIOUS
<1>1. /\ w \in Seq(Byte) /\ Len(w) = Len(b) + Len(c)
      /\ \A i \in 1 .. Len(b) + Len(c) :
           w[i] = IF i <= Len(b) THEN b[i] ELSE c[i - Len(b)]
  BY <1>w
<1>2. Len(b) \in Nat /\ Len(c) \in Nat
  BY LenProperties
<1>3. Cut(w) <=> Cut(c)
  <2>1. CASE c = <<>>
    <3>1. w = b
      BY <1>w, <2>1, ConcatEmptySeq
    <3> QED BY <2>1, <3>1 DEF Cut
  <2>2. CASE c # <<>>
    <3>1. Len(c) > 0 /\ w # <<>>
      BY <1>1, <1>2, <2>2, EmptySeq
    <3>2. Last(w) = Last(c)
      BY <1>1, <1>2, <3>1 DEF Last
    <3> QED BY <2>2, <3>1, <3>2 DEF Cut
  <2> QED BY <2>1, <2>2
<1>0. PICK p, q : p = Characters(b) /\ q = Characters(c)
  OBVIOUS
<1>a. PICK u : u = p \o q
  OBVIOUS
<1>4. /\ p \in Seq(Chars) /\ Len(p) = Len(b)
      /\ q \in Seq(Chars) /\ Len(q) = Len(c) - IF Cut(c) THEN 1 ELSE 0
      /\ Characters(w) \in Seq(Chars)
      /\ Len(Characters(w)) = Len(b) + Len(q)
      /\ Len(q) \in Nat /\ Len(q) <= Len(c)
  <2>1. p \in Seq(Chars) /\ Len(p) = Len(b)
    BY <1>0, <1>2, CharactersType
  <2>2. q \in Seq(Chars) /\ Len(q) = Len(c) - IF Cut(c) THEN 1 ELSE 0
    BY <1>0, CharactersType
  <2>3. /\ Characters(w) \in Seq(Chars)
        /\ Len(Characters(w)) = Len(b) + Len(c) - IF Cut(c) THEN 1 ELSE 0
    <3>1. w \in Seq(Byte)
      BY <1>1
    <3>2. /\ Characters(w) \in Seq(Chars)
          /\ Len(Characters(w)) = Len(w) - IF Cut(w) THEN 1 ELSE 0
      BY <3>1, CharactersType
    <3> QED BY <1>1, <1>3, <3>2
  <2>4. Len(q) \in Nat
    BY <2>2, LenProperties
  <2> QED BY <1>2, <2>1, <2>2, <2>3, <2>4
<1>5. /\ u \in Seq(Chars) /\ Len(u) = Len(b) + Len(q)
      /\ \A i \in 1 .. Len(u) :
           u[i] = IF i <= Len(b) THEN p[i]
                  ELSE q[i - Len(b)]
  <2>1. p \in Seq(Chars) /\ q \in Seq(Chars)
    BY <1>4
  <2>2. /\ u \in Seq(Chars) /\ Len(u) = Len(p) + Len(q)
        /\ \A i \in 1 .. Len(u) : u[i] = IF i <= Len(p) THEN p[i] ELSE q[i - Len(p)]
    BY <1>a, <2>1
  <2> QED BY <1>4, <2>2
<1>6. ASSUME NEW i \in 1 .. Len(u)
      PROVE  Characters(w)[i] = u[i]
  <2>1. Characters(w)[i] = Character[w[i]]
    <3>1. i \in 1 .. Len(Characters(w))
      BY <1>4, <1>5
    <3> QED BY <1>1, <3>1, CharactersType
  <2>2. CASE i <= Len(b)
    <3>1. p[i] = Character[b[i]]
      BY <1>0, <1>4, <2>2, CharactersType
    <3> QED BY <1>1, <1>2, <1>5, <2>1, <2>2, <3>1
  <2>3. CASE i > Len(b)
    <3>1. PICK j : j = i - Len(b)
      OBVIOUS
    <3>0. j \in 1 .. Len(q) /\ i = Len(b) + j
      BY <1>2, <1>4, <1>5, <2>3, <3>1
    <3>2. q[j] = Character[c[j]]
      BY <1>0, <3>0, CharactersType
    <3>3. w[i] = c[j]
      BY <1>1, <1>2, <1>4, <1>5, <2>3, <3>0
    <3> QED BY <1>2, <1>5, <2>1, <2>3, <3>0, <3>1, <3>2, <3>3
  <2> QED BY <1>2, <2>2, <2>3
<1>7. Characters(w) = u
  BY <1>4, <1>5, <1>6, SeqEqual
<1> QED BY <1>w, <1>0, <1>a, <1>3, <1>7

(* The line ends of two texts are those of the two together. *)
LEMMA LineEndsJoin ==
  ASSUME NEW s \in Seq(Plain), NEW t \in Seq(Plain)
  PROVE  /\ LineEnds(s) \in Nat
         /\ LineEnds(s \o t) = LineEnds(s) + LineEnds(t)
<1> DEFINE ends(x) == {i \in DOMAIN x : x[i] = "lf"}
           S == ends(s)
           T == ends(t)
           n == Len(s)
           U == {i + n : i \in T}
<1>1. /\ s \o t \in Seq(Plain) /\ Len(s \o t) = Len(s) + Len(t)
      /\ \A i \in 1 .. Len(s) + Len(t) :
           (s \o t)[i] = IF i <= Len(s) THEN s[i] ELSE t[i - Len(s)]
  BY ConcatProperties
<1>2. /\ Len(s) \in Nat /\ Len(t) \in Nat
      /\ DOMAIN s = 1 .. Len(s) /\ DOMAIN t = 1 .. Len(t)
      /\ DOMAIN (s \o t) = 1 .. Len(s) + Len(t)
  BY <1>1, LenProperties
<1>3. S \subseteq 1 .. Len(s) /\ T \subseteq 1 .. Len(t)
  BY <1>2
<1>4. ends(s \o t) = S \cup U
  <2>1. ASSUME NEW i \in ends(s \o t) PROVE i \in S \cup U
    <3>1. CASE i <= n
      BY <1>1, <1>2, <2>1, <3>1
    <3>2. CASE i > n
      <4>1. i - n \in T /\ i = (i - n) + n
        BY <1>1, <1>2, <2>1, <3>2
      <4> QED BY <4>1
    <3> QED BY <1>2, <2>1, <3>1, <3>2
  <2>2. ASSUME NEW i \in S PROVE i \in ends(s \o t)
    BY <1>1, <1>2, <2>2
  <2>3. ASSUME NEW j \in T PROVE j + n \in ends(s \o t)
    <3>1. j \in 1 .. Len(t) /\ t[j] = "lf"
      BY <1>2, <2>3
    <3>2. j + n \in 1 .. Len(s) + Len(t) /\ (s \o t)[j + n] = t[j]
      BY <1>1, <1>2, <3>1
    <3> QED BY <1>2, <3>1, <3>2
  <2> QED BY <2>1, <2>2, <2>3
<1>5. S \cap U = {}
  BY <1>2, <1>3
<1>6. IsFiniteSet(S) /\ IsFiniteSet(T)
  <2> HIDE DEF S, T
  <2>1. IsFiniteSet(1 .. Len(s)) /\ IsFiniteSet(1 .. Len(t))
    BY <1>2, FS_Interval
  <2> QED BY <1>3, <2>1, FS_Subset
<1>7. IsFiniteSet(U) /\ Cardinality(U) = Cardinality(T)
  <2> DEFINE f == [i \in T |-> i + n]
  <2>1. f \in Bijection(T, U)
    <3>1. f \in Surjection(T, U)
      BY DEF Surjection
    <3>2. f \in Injection(T, U)
      <4>1. f \in [T -> U]
        OBVIOUS
      <4>2. \A a, b \in T : f[a] = f[b] => a = b
        BY <1>2, <1>3
      <4> QED BY <4>1, <4>2 DEF Injection, IsInjective
    <3> QED BY <3>1, <3>2 DEF Bijection
  <2>2. ExistsBijection(T, U)
    BY <2>1 DEF ExistsBijection
  <2> HIDE DEF T, U
  <2> QED BY <1>6, <2>2, FS_Bijection
<1>8. /\ Cardinality(S) \in Nat /\ Cardinality(T) \in Nat
      /\ Cardinality(S \cup U) = Cardinality(S) + Cardinality(T)
  <2> HIDE DEF S, T, U
  <2>1. Cardinality(S) \in Nat /\ Cardinality(T) \in Nat
    BY <1>6, FS_CardinalityType
  <2>2. Cardinality(S \cap U) = 0
    BY <1>5, FS_EmptySet
  <2>3. Cardinality(S \cup U) =
          Cardinality(S) + Cardinality(U) - Cardinality(S \cap U)
    BY <1>6, <1>7, FS_Union
  <2> QED BY <1>7, <2>1, <2>2, <2>3
<1> QED BY <1>4, <1>8 DEF LineEnds

(* All but the last of a sequence, and the last. *)
LEMMA FrontAndLast ==
  ASSUME NEW S, NEW s \in Seq(S), s # <<>>
  PROVE  /\ Front(s) \in Seq(S)
         /\ s = Front(s) \o <<Last(s)>>
         /\ Len(Front(s)) = Len(s) - 1 /\ Len(s) > 0 /\ Len(s) \in Nat
         /\ \A i \in 1 .. Len(s) - 1 : Front(s)[i] = s[i]
<1>1. Len(s) \in Nat /\ Len(s) > 0
  BY EmptySeq
<1>2. /\ Front(s) \in Seq(S) /\ Len(Front(s)) = Len(s) - 1
      /\ \A i \in 1 .. Len(s) - 1 : Front(s)[i] = s[i]
  <2>1. \A i \in 1 .. Len(s) - 1 : s[i] \in S
    BY <1>1
  <2>2. PICK n \in Nat : n = Len(s) - 1
    BY <1>1
  <2>3. /\ SubSeq(s, 1, n) \in Seq(S) /\ Len(SubSeq(s, 1, n)) = n
        /\ \A i \in 1 .. n : SubSeq(s, 1, n)[i] = s[i]
    BY <2>1, <2>2, SubSeqProperties
  <2> QED BY <2>2, <2>3 DEF Front
<1>3. Front(s) = SubSeq(s, 1, Len(s) - 1) /\ s = SubSeq(s, 1, Len(s))
  BY SubSeqFull DEF Front
<1>4. SubSeq(s, 1, Len(s)) = SubSeq(s, 1, Len(s) - 1) \o <<s[Len(s)]>>
  BY <1>1, SubSeqRecursiveSecond
<1> QED BY <1>1, <1>2, <1>3, <1>4 DEF Last

(* The front of two sequences, one behind the other. *)
LEMMA CharsJoin ==
  \A s, t \in Seq(Chars) : t # <<>> =>
     s \o t # <<>> /\ Last(s \o t) = Last(t) /\ Front(s \o t) = s \o Front(t)
<1> TAKE s, t \in Seq(Chars)
<1> HAVE t # <<>>
<1>0. PICK u : u = s \o t
  OBVIOUS
<1>1. /\ u \in Seq(Chars) /\ Len(u) = Len(s) + Len(t)
      /\ \A i \in 1 .. Len(u) : u[i] = IF i <= Len(s) THEN s[i] ELSE t[i - Len(s)]
  BY <1>0, ConcatProperties
<1>2. /\ Len(s) \in Nat /\ Len(t) \in Nat /\ Len(t) > 0
      /\ Front(t) \in Seq(Chars) /\ Len(Front(t)) = Len(t) - 1
      /\ \A i \in 1 .. Len(t) - 1 : Front(t)[i] = t[i]
  BY FrontAndLast, LenProperties
<1>3. u # <<>> /\ Last(u) = Last(t)
  <2>1. Len(u) > 0 /\ Len(u) - Len(s) = Len(t) /\ ~(Len(u) <= Len(s)) /\ Len(u) \in 1 .. Len(u)
    BY <1>1, <1>2
  <2> QED BY <1>1, <2>1, EmptySeq DEF Last
<1>4. /\ Front(u) \in Seq(Chars) /\ Len(Front(u)) = Len(u) - 1
      /\ \A i \in 1 .. Len(u) - 1 : Front(u)[i] = u[i]
  BY <1>1, <1>3, FrontAndLast
<1>5. PICK v : v = s \o Front(t)
  OBVIOUS
<1>6. PICK f : f = Front(t)
  OBVIOUS
<1>7. /\ v \in Seq(Chars) /\ Len(v) = Len(s) + Len(f)
      /\ \A i \in 1 .. Len(v) : v[i] = IF i <= Len(s) THEN s[i] ELSE f[i - Len(s)]
  <2>1. v = s \o f /\ f \in Seq(Chars)
    BY <1>2, <1>5, <1>6
  <2> QED BY <2>1, ConcatProperties
<1>8. Len(Front(u)) = Len(v)
  BY <1>1, <1>2, <1>4, <1>6, <1>7
<1>9. ASSUME NEW i \in 1 .. Len(v) PROVE Front(u)[i] = v[i]
  <2>1. i \in 1 .. Len(u) - 1 /\ i \in 1 .. Len(u) /\ Front(u)[i] = u[i]
    BY <1>1, <1>2, <1>4, <1>6, <1>7
  <2>2. i > Len(s) => i - Len(s) \in 1 .. Len(t) - 1
    BY <1>1, <1>2, <2>1
  <2>3. i > Len(s) => f[i - Len(s)] = t[i - Len(s)]
    BY <1>2, <1>6, <2>2
  <2>4. u[i] = IF i <= Len(s) THEN s[i] ELSE t[i - Len(s)]
    BY <1>1, <2>1
  <2>5. v[i] = IF i <= Len(s) THEN s[i] ELSE f[i - Len(s)]
    BY <1>7
  <2>6. i \in Nat /\ Len(s) \in Nat
    BY <1>2, <2>1
  <2> QED BY <2>1, <2>3, <2>4, <2>5, <2>6
<1>10. Front(u) = v
  BY <1>4, <1>7, <1>8, <1>9, SeqEqual
<1> QED BY <1>0, <1>3, <1>5, <1>10

EndsInCr(s) == s # <<>> /\ Last(s) = "cr"

(* What the newline decoder has passed on: all but a CR it holds back. *)
Passed(s, held) == IF held THEN Front(s) ELSE s

(* The newline decoder turns out, piece by piece, what the whole would     *)
(* turn into, but for a carriage return it holds back.                     *)
LEMMA AcceptsWell ==
  ASSUME NEW s \in Seq(Chars), NEW t \in Seq(Chars), NEW final \in BOOLEAN,
         heldCr \in BOOLEAN, heldCr = EndsInCr(s),
         text = Newlines(Passed(s, heldCr)), shown = LineEnds(text),
         Accept(t, final), NEW u, u = s \o t
  PROVE  /\ heldCr' = (~final /\ EndsInCr(u))
         /\ text' = Newlines(Passed(u, heldCr'))
         /\ shown' = LineEnds(text')
<1> DEFINE back == heldCr /\ (t # <<>> \/ final)
<1>1. PICK all : all = IF back THEN <<"cr">> \o t ELSE t
  OBVIOUS
<1>2. PICK hold \in BOOLEAN : hold = (~final /\ EndsInCr(all))
  OBVIOUS
<1>3. PICK kept : kept = Passed(all, hold)
  OBVIOUS
<1>4. /\ heldCr' = (hold \/ (heldCr /\ all = <<>> /\ ~final))
      /\ text' = text \o Newlines(kept)
      /\ shown' = shown + LineEnds(Newlines(kept))
  BY <1>1, <1>2, <1>3 DEF Accept, EndsInCr, Passed
<1>5. <<"cr">> \in Seq(Chars) /\ <<>> \in Seq(Chars)
  BY DEF Chars
<1>6. all \in Seq(Chars)
  BY <1>1, <1>5, ConcatProperties
<1>7. kept \in Seq(Chars)
  BY <1>2, <1>3, <1>6, FrontAndLast DEF Passed, EndsInCr
<1>8. PICK x : x = Passed(s, heldCr)
  OBVIOUS
<1>9. x \in Seq(Chars)
  BY <1>8, FrontAndLast DEF Passed, EndsInCr
<1>12. shown' = LineEnds(text')
  <2>1. Newlines(x) \in Seq(Plain) /\ Newlines(kept) \in Seq(Plain)
    BY <1>7, <1>9, NewlinesType
  <2>2. text = Newlines(x)
    BY <1>8
  <2> QED BY <1>4, <2>1, <2>2, LineEndsJoin
<1>10. CASE heldCr /\ ~back
  <2>1. t = <<>> /\ ~final /\ all = <<>> /\ ~hold /\ kept = <<>> /\ u = s
    BY <1>1, <1>2, <1>3, <1>10, ConcatEmptySeq DEF EndsInCr, Passed
  <2>2. heldCr' = TRUE /\ EndsInCr(u)
    BY <1>4, <1>10, <2>1
  <2>3. Newlines(x \o kept) = Newlines(x) \o Newlines(kept)
    BY <1>7, <1>9, <2>1, NewlinesJoin DEF Splits
  <2>4. x \o kept = x /\ Passed(u, heldCr') = x
    BY <1>8, <1>9, <1>10, <2>1, <2>2, ConcatEmptySeq DEF Passed
  <2>5. text' = Newlines(Passed(u, heldCr'))
    BY <1>4, <1>8, <2>3, <2>4
  <2>6. heldCr' = (~final /\ EndsInCr(u))
    BY <2>1, <2>2 DEF EndsInCr
  <2> QED BY <1>12, <2>5, <2>6
<1>11. CASE back \/ ~heldCr
  <2>1. u = x \o all
    <3>1. CASE back
      <4>1. s = x \o <<"cr">>
        BY <1>8, <3>1, FrontAndLast DEF EndsInCr, Passed
      <4>2. all = <<"cr">> \o t
        BY <1>1, <3>1
      <4> QED BY <1>5, <1>9, <4>1, <4>2, ConcatAssociative
    <3>2. CASE ~heldCr
      BY <1>1, <1>8, <3>2 DEF Passed
    <3> QED BY <1>11, <3>1, <3>2
  <2>2. EndsInCr(u) <=> EndsInCr(all)
    <3>1. CASE all = <<>>
      <4>1. ~heldCr /\ u = x /\ x = s
        <5>1. ~back
          BY <1>1, <1>5, <3>1, ConcatProperties, EmptySeq
        <5> QED BY <1>8, <1>9, <1>11, <2>1, <3>1, <5>1, ConcatEmptySeq DEF Passed
      <4> QED BY <3>1, <4>1 DEF EndsInCr
    <3>2. CASE all # <<>>
      <4>1. x \o all # <<>> /\ Last(x \o all) = Last(all)
        BY <1>6, <1>9, <3>2, CharsJoin, Zenon
      <4>2. u # <<>> /\ Last(u) = Last(all)
        BY <2>1, <4>1, Zenon
      <4> QED BY <3>2, <4>2 DEF EndsInCr
    <3> QED BY <3>1, <3>2
  <2>3. heldCr' = hold
    <3>1. heldCr => all # <<>>
      BY <1>1, <1>5, <1>11, ConcatProperties, EmptySeq
    <3> QED BY <1>4, <3>1
  <2>4. Passed(u, hold) = x \o kept
    <3>1. CASE hold
      <4>1. all # <<>>
        BY <1>2, <3>1 DEF EndsInCr
      <4>2. Front(u) = x \o Front(all)
        BY <1>6, <1>9, <2>1, <4>1, CharsJoin, Zenon
      <4> QED BY <1>3, <3>1, <4>2 DEF Passed
    <3>2. CASE ~hold
      BY <1>3, <2>1, <3>2 DEF Passed
    <3> QED BY <3>1, <3>2
  <2>5. ~Splits(x, kept)
    <3>1. CASE back
      <4>1. all # <<>> /\ all[1] = "cr"
        BY <1>1, <1>5, <3>1, ConcatProperties, EmptySeq
      <4>2. kept # <<>> => kept[1] = all[1]
        <5>1. CASE hold
          <6>1. PICK f : f = Front(all)
            OBVIOUS
          <6>2. /\ kept = f /\ f \in Seq(Chars) /\ Len(f) = Len(all) - 1
                /\ \A i \in 1 .. Len(all) - 1 : f[i] = all[i]
            BY <1>3, <1>6, <4>1, <5>1, <6>1, FrontAndLast DEF Passed
          <6>3. f # <<>> => 1 \in 1 .. Len(all) - 1
            BY <6>2, EmptySeq
          <6> QED BY <6>2, <6>3
        <5>2. CASE ~hold
          BY <1>3, <5>2 DEF Passed
        <5> QED BY <5>1, <5>2
      <4> QED BY <4>1, <4>2 DEF Splits
    <3>2. CASE ~heldCr
      BY <1>8, <3>2 DEF Splits, EndsInCr, Passed
    <3> QED BY <1>11, <3>1, <3>2
  <2>6. Newlines(x \o kept) = Newlines(x) \o Newlines(kept)
    BY <1>7, <1>9, <2>5, NewlinesJoin
  <2>7. text' = Newlines(Passed(u, heldCr'))
    BY <1>4, <1>8, <2>3, <2>4, <2>6
  <2>8. heldCr' = (~final /\ EndsInCr(u))
    BY <1>2, <2>2, <2>3
  <2> QED BY <1>12, <2>7, <2>8
<1> QED BY <1>10, <1>11

(* Well-formed bytes that end with a whole character stay well-formed when *)
(* well-formed bytes follow.                                               *)
LEMMA WellFormedJoin ==
  ASSUME NEW b \in Seq(Byte), NEW c \in Seq(Byte),
         ~Malformed(b), ~Cut(b), ~Malformed(c)
  PROVE  ~Malformed(b \o c)
<1>w. PICK w : w = b \o c
  OBVIOUS
<1>1. /\ w \in Seq(Byte) /\ Len(w) = Len(b) + Len(c)
      /\ \A i \in 1 .. Len(w) : w[i] = IF i <= Len(b) THEN b[i] ELSE c[i - Len(b)]
  BY <1>w, ConcatProperties
<1>2. /\ Len(b) \in Nat /\ DOMAIN b = 1 .. Len(b)
      /\ Len(c) \in Nat /\ DOMAIN c = 1 .. Len(c) /\ DOMAIN w = 1 .. Len(w)
  BY <1>1, LenProperties
<1>b. \A i \in 1 .. Len(b) : /\ b[i] = "h1" /\ i < Len(b) => b[i + 1] = "h2"
                             /\ b[i] = "h2" => i # 1 /\ b[i - 1] = "h1"
  BY <1>2 DEF Malformed
<1>c. \A i \in 1 .. Len(c) : /\ c[i] = "h1" /\ i < Len(c) => c[i + 1] = "h2"
                             /\ c[i] = "h2" => i # 1 /\ c[i - 1] = "h1"
  BY <1>2 DEF Malformed
<1>3. Len(b) > 0 => b[Len(b)] # "h1"
  BY <1>2, EmptySeq DEF Cut, Last
<1>4. ASSUME NEW i \in 1 .. Len(w) PROVE ~(w[i] = "h1" /\ i < Len(w) /\ w[i + 1] # "h2")
  <2>1. CASE i < Len(b)
    <3>1. i \in DOMAIN b /\ w[i] = b[i] /\ w[i + 1] = b[i + 1]
      BY <1>1, <1>2, <2>1
    <3> QED BY <1>2, <1>b, <2>1, <3>1
  <2>2. CASE i = Len(b)
    <3>1. w[i] = b[i] /\ b[i] # "h1"
      BY <1>1, <1>2, <1>3, <2>2
    <3> QED BY <3>1
  <2>3. CASE i > Len(b) /\ i < Len(w)
    <3>1. PICK j : j = i - Len(b)
      OBVIOUS
    <3>2. j \in 1 .. Len(c) /\ j < Len(c) /\ i = Len(b) + j
      BY <1>1, <1>2, <2>3, <3>1
    <3>3. w[i] = c[j]
      BY <1>1, <1>2, <2>3, <3>1
    <3>4. i + 1 \in 1 .. Len(w) /\ (i + 1) - Len(b) = j + 1 /\ ~(i + 1 <= Len(b))
      BY <1>1, <1>2, <2>3, <3>1
    <3>5. w[i + 1] = c[j + 1]
      BY <1>1, <3>4
    <3>6. c[j] = "h1" => c[j + 1] = "h2"
      BY <1>c, <3>2
    <3> QED BY <3>3, <3>5, <3>6
  <2>4. CASE ~(i < Len(w))
    BY <2>4
  <2>5. i < Len(b) \/ i = Len(b) \/ (i > Len(b) /\ i < Len(w)) \/ ~(i < Len(w))
    <3>1. i \in Nat /\ Len(b) \in Nat
      BY <1>2
    <3> QED BY <3>1
  <2> QED BY <2>1, <2>2, <2>3, <2>4, <2>5, Zenon
<1>5. ASSUME NEW i \in 1 .. Len(w) PROVE ~(w[i] = "h2" /\ (i = 1 \/ w[i - 1] # "h1"))
  <2>1. CASE i <= Len(b)
    <3>1. i \in DOMAIN b /\ w[i] = b[i]
      BY <1>1, <1>2, <2>1
    <3>2. i > 1 => w[i - 1] = b[i - 1]
      BY <1>1, <1>2, <2>1
    <3> QED BY <1>2, <1>b, <3>1, <3>2
  <2>2. CASE i > Len(b)
    <3>1. PICK j : j = i - Len(b)
      OBVIOUS
    <3>2. j \in 1 .. Len(c) /\ i = Len(b) + j
      BY <1>1, <1>2, <2>2, <3>1
    <3>3. w[i] = c[j]
      BY <1>1, <1>2, <2>2, <3>1
    <3>4. j > 1 => i - 1 \in 1 .. Len(w) /\ (i - 1) - Len(b) = j - 1 /\ ~(i - 1 <= Len(b))
      BY <1>1, <1>2, <2>2, <3>2
    <3>5. j > 1 => w[i - 1] = c[j - 1]
      BY <1>1, <3>4
    <3>6. c[j] = "h2" => j > 1 /\ c[j - 1] = "h1"
      BY <1>2, <1>c, <3>2
    <3> QED BY <1>2, <3>2, <3>3, <3>5, <3>6
  <2> QED BY <1>2, <2>1, <2>2
<1>6. ~Malformed(w)
  BY <1>2, <1>4, <1>5 DEF Malformed
<1> QED BY <1>w, <1>6

(* Well-formed bytes that end inside a character are well-formed bytes     *)
(* that do not, and the first byte of one.                                 *)
LEMMA OpenEnd ==
  ASSUME NEW b \in Seq(Byte), ~Malformed(b), Cut(b)
  PROVE  \E p \in Seq(Byte) :
           /\ b = p \o <<"h1">>
           /\ ~Malformed(p) /\ ~Cut(p) /\ Characters(b) = Characters(p)
<1>1. PICK p : p = Front(b)
  OBVIOUS
<1>2. b # <<>> /\ Last(b) = "h1"
  BY DEF Cut
<1>3. /\ p \in Seq(Byte) /\ b = p \o <<"h1">>
      /\ Len(p) = Len(b) - 1 /\ Len(b) > 0 /\ Len(b) \in Nat
      /\ \A i \in 1 .. Len(b) - 1 : p[i] = b[i]
  BY <1>1, <1>2, FrontAndLast
<1>4. DOMAIN p = 1 .. Len(p) /\ DOMAIN b = 1 .. Len(b) /\ b[Len(b)] = "h1"
  BY <1>2, <1>3, LenProperties DEF Last
<1>5. ~Cut(p)
  <2>1. Len(p) > 0 => Len(p) \in DOMAIN b /\ b[Len(p)] = p[Len(p)] /\ Len(p) < Len(b) /\ Len(p) + 1 = Len(b)
    BY <1>3, <1>4
  <2>2. Len(p) > 0 => b[Len(p)] # "h1"
    BY <1>4, <2>1 DEF Malformed
  <2>3. p # <<>> => Len(p) > 0
    BY <1>3, EmptySeq
  <2> QED BY <2>1, <2>2, <2>3 DEF Cut, Last
<1>6. ~Malformed(p)
  <2>1. ASSUME NEW i \in DOMAIN p, p[i] = "h1", i < Len(p), p[i + 1] # "h2" PROVE FALSE
    <3>1. i \in DOMAIN b /\ b[i] = "h1" /\ i < Len(b) /\ b[i + 1] = p[i + 1]
      BY <1>3, <1>4, <2>1
    <3> QED BY <2>1, <3>1 DEF Malformed
  <2>2. ASSUME NEW i \in DOMAIN p, p[i] = "h2", i = 1 \/ p[i - 1] # "h1" PROVE FALSE
    <3>1. i \in DOMAIN b /\ b[i] = "h2" /\ (i # 1 => b[i - 1] = p[i - 1])
      BY <1>3, <1>4, <2>2
    <3> QED BY <2>2, <3>1 DEF Malformed
  <2> QED BY <2>1, <2>2 DEF Malformed
<1>7. Characters(b) = Characters(p)
  <2>1. Len(b) - 1 = Len(p) - 0
    BY <1>3
  <2>2. \A i \in 1 .. Len(p) : p[i] = b[i]
    BY <1>3
  <2> QED BY <1>5, <2>1, <2>2 DEF Characters
<1> QED BY <1>3, <1>5, <1>6, <1>7

(* A chunk, behind the byte the decoder kept of the one before it. *)
Pending(b, c) == IF Cut(b) THEN <<"h1">> \o c ELSE c

(* The bytes read so far and the next chunk, with the byte the decoder     *)
(* kept in front of it, decode to what all of them decode to.              *)
LEMMA Chunk ==
  \A b, c \in Seq(Byte) : ~Malformed(b) /\ ~Malformed(Pending(b, c)) =>
     /\ Pending(b, c) \in Seq(Byte) /\ ~Malformed(b \o c)
     /\ Cut(b \o c) <=> Cut(Pending(b, c))
     /\ Characters(b \o c) = Characters(b) \o Characters(Pending(b, c))
<1> TAKE b, c \in Seq(Byte)
<1> HAVE ~Malformed(b) /\ ~Malformed(Pending(b, c))
<1>0. PICK d, w : d = Pending(b, c) /\ w = b \o c
  OBVIOUS
<1>1. PICK p \in Seq(Byte) :
        /\ ~Malformed(p) /\ ~Cut(p) /\ Characters(b) = Characters(p)
        /\ b = IF Cut(b) THEN p \o <<"h1">> ELSE p
  BY OpenEnd
<1>2. <<"h1">> \in Seq(Byte)
  BY DEF Byte
<1>3. d \in Seq(Byte)
  BY <1>0, <1>2, ConcatProperties DEF Pending
<1>4. w = p \o d
  <2>1. CASE Cut(b)
    <3>1. b = p \o <<"h1">> /\ d = <<"h1">> \o c
      BY <1>0, <1>1, <2>1 DEF Pending
    <3>2. w = (p \o <<"h1">>) \o c
      BY <1>0, <3>1
    <3>3. (p \o <<"h1">>) \o c = p \o (<<"h1">> \o c)
      BY <1>2, ConcatAssociative
    <3> QED BY <3>1, <3>2, <3>3
  <2>2. CASE ~Cut(b)
    BY <1>0, <1>1, <2>2 DEF Pending
  <2> QED BY <2>1, <2>2
<1>5. /\ ~Malformed(p \o d) /\ (Cut(p \o d) <=> Cut(d))
      /\ Characters(p \o d) = Characters(p) \o Characters(d)
  <2>1. ~Malformed(p \o d)
    BY <1>0, <1>1, <1>3, WellFormedJoin
  <2>2. ~Cut(p)
    BY <1>1
  <2>3. Cut(p \o d) <=> Cut(d)
    BY <1>3, <2>2, CharactersJoin
  <2>4. Characters(p \o d) = Characters(p) \o Characters(d)
    BY <1>3, <2>2, CharactersJoin
  <2> QED BY <2>1, <2>3, <2>4
<1>6. d \in Seq(Byte) /\ ~Malformed(w) /\ (Cut(w) <=> Cut(d))
  BY <1>3, <1>4, <1>5
<1>7. Characters(w) = Characters(b) \o Characters(d)
  BY <1>1, <1>4, <1>5
<1> QED BY <1>0, <1>6, <1>7
-----------------------------------------------------------------------------
(* The child uses a pipe only while it has it. *)
ChildInv ==
  /\ child \in {"running", "silent", "exited", "reaped"}
  /\ child = "silent" => want \notin {"out", "err"}
  /\ ~Alive => want = "none"

(* What select reported is still there when it is read, and a pipe that is *)
(* no longer read has nothing in it and never will.                        *)
Drained(r) == Closed /\ IF r = "out" THEN out = <<>> ELSE ~err

ReaderInv ==
  /\ readers \subseteq {"out", "err"}
  /\ readable \subseteq readers
  /\ pc \notin {"raise", "timed_out", "raised"} =>
       \A r \in readable : Readable(r)
  /\ pc \notin {"timed_out", "raised"} =>
       \A r \in {"out", "err"} \ readers : Drained(r)
  /\ pc \in {"wait", "returned"} => readers = {} /\ ~stdin

EndInv ==
  /\ pc \in PCs
  /\ pc \in {"kill", "timed_out"} => late
  /\ pc \in Ended => child = "reaped"

ControlInv == ChildInv /\ ReaderInv /\ EndInv

(* What the child is committed to say it still has to say, and the prompt  *)
(* is open as long as some of it is left.                                  *)
SpeechInv ==
  /\ want = "out" => said < Len(script)
  /\ want = "err" => noise > 0
  /\ stdin => prompt > 0
  /\ writable => stdin

(* Has the decoder turned out what some bytes decode to, but for what it   *)
(* holds back?                                                             *)
HasDecoded(read) ==
  /\ ~Malformed(read)
  /\ half = Cut(read)
  /\ "out" \notin readers => ~half
  /\ heldCr = ("out" \in readers /\ EndsInCr(Characters(read)))
  /\ text = Newlines(Passed(Characters(read), heldCr))
  /\ shown = LineEnds(text)

DecoderInv ==
  pc \notin {"raise", "timed_out", "raised"} =>
     \E n \in 0 .. said :
        /\ Said = SubSeq(script, 1, n) \o out
        /\ HasDecoded(SubSeq(script, 1, n))

IInv == ControlInv /\ TypeOK /\ SpeechInv /\ DecoderInv

(* A turn that returns has read all that was ever written to its child's   *)
(* outputs, by the child or by what it leaves behind, and nobody is left   *)
(* to write more; and no turn is killed for its timeout before it is over. *)
NothingUnread == pc = "returned" => Drained("out") /\ Drained("err")
NoEarlyKill   == pc = "timed_out" => late
-----------------------------------------------------------------------------
(* What the child has said so far, and what it says next. *)
LEMMA SaidIsBytes ==
  ASSUME TypeOK
  PROVE  /\ script \in Seq(Byte) /\ said \in Nat /\ said <= Len(script)
         /\ \A n \in 0 .. said : SubSeq(script, 1, n) \in Seq(Byte)
         /\ said < Len(script) =>
              /\ script[said + 1] \in Byte
              /\ SubSeq(script, 1, said + 1) = Append(Said, script[said + 1])
<1>1. script \in Seq(Byte) /\ said \in Nat /\ said <= Len(script) /\ Len(script) \in Nat
  BY StreamAssumption, LenProperties DEF TypeOK
<1>2. \A i \in 1 .. Len(script) : script[i] \in Byte
  BY <1>1, ElementOfSeq
<1>3. ASSUME NEW n \in 0 .. said PROVE SubSeq(script, 1, n) \in Seq(Byte)
  <2>1. n \in Int /\ \A i \in 1 .. n : script[i] \in Byte
    BY <1>1, <1>2
  <2> QED BY <2>1, SubSeqProperties
<1>4. ASSUME said < Len(script)
      PROVE  /\ script[said + 1] \in Byte
             /\ SubSeq(script, 1, said + 1) = Append(Said, script[said + 1])
  <2>1. PICK m : m = said + 1
    OBVIOUS
  <2>2. m \in 1 .. Len(script) /\ m - 1 = said /\ 1 \in 1 .. Len(script)
    BY <1>1, <1>4, <2>1
  <2>3. SubSeq(script, 1, m) = SubSeq(script, 1, m - 1) \o <<script[m]>>
    BY <1>1, <2>2, SubSeqRecursiveSecond
  <2>4. Said \in Seq(Byte) /\ script[m] \in Byte
    BY <1>1, <1>2, <1>3, <2>2 DEF Said
  <2>5. Append(Said, script[m]) = Said \o <<script[m]>>
    BY <2>4, AppendIsConcat
  <2> QED BY <2>1, <2>2, <2>3, <2>4, <2>5 DEF Said
<1> QED BY <1>1, <1>3, <1>4

(* A step that touches neither the decoder nor what it was given. *)
LEMMA DecodedStays ==
  ASSUME NEW read, HasDecoded(read), UNCHANGED decoder,
         "out" \in readers' <=> "out" \in readers
  PROVE  HasDecoded(read)'
<1>1. half' = half /\ heldCr' = heldCr /\ text' = text /\ shown' = shown
  BY DEF decoder
<1>2. heldCr' = ("out" \in readers' /\ EndsInCr(Characters(read)))
  BY <1>1, Zenon DEF HasDecoded
<1> QED BY <1>1, <1>2 DEF HasDecoded

(* A step that reads nothing leaves the decoder in step with the pipe. *)
LEMMA DecoderKept ==
  ASSUME DecoderInv, UNCHANGED <<script, said, out, decoder>>,
         "out" \in readers' <=> "out" \in readers,
         pc' \in {"raise", "timed_out", "raised"} \/ pc' = pc
           \/ pc \notin {"raise", "timed_out", "raised"}
  PROVE  DecoderInv'
<1> SUFFICES ASSUME pc' \notin {"raise", "timed_out", "raised"}
             PROVE  \E n \in 0 .. said' :
                      /\ Said' = SubSeq(script', 1, n) \o out'
                      /\ HasDecoded(SubSeq(script, 1, n))'
  BY DEF DecoderInv
<1>1. PICK n \in 0 .. said : /\ Said = SubSeq(script, 1, n) \o out
                             /\ HasDecoded(SubSeq(script, 1, n))
  BY DEF DecoderInv
<1>2. PICK r : r = SubSeq(script, 1, n)
  OBVIOUS
<1>3. HasDecoded(r)'
  BY <1>1, <1>2, DecodedStays
<1>4. HasDecoded(SubSeq(script, 1, n))'
  BY <1>2, <1>3 DEF HasDecoded
<1> QED BY <1>1, <1>4 DEF Said

(* A byte written to the pipe comes behind those that are in it. *)
LEMMA DecoderKeptByWriteOut ==
  ASSUME TypeOK, SpeechInv, DecoderInv, WriteOut
  PROVE  DecoderInv'
<1> SUFFICES ASSUME pc \notin {"raise", "timed_out", "raised"}
             PROVE  \E n \in 0 .. said' :
                      /\ Said' = SubSeq(script', 1, n) \o out'
                      /\ HasDecoded(SubSeq(script, 1, n))'
  BY DEF DecoderInv, WriteOut
<1>1. PICK n \in 0 .. said : /\ Said = SubSeq(script, 1, n) \o out
                             /\ HasDecoded(SubSeq(script, 1, n))
  BY DEF DecoderInv
<1>2. /\ said < Len(script) /\ said' = said + 1 /\ script' = script
      /\ out' = Append(out, script[said + 1]) /\ UNCHANGED <<readers, decoder>>
  BY DEF WriteOut, SpeechInv, loopVars
<1>3. /\ said \in Nat /\ SubSeq(script, 1, n) \in Seq(Byte) /\ script[said + 1] \in Byte
      /\ SubSeq(script, 1, said + 1) = Append(Said, script[said + 1])
      /\ out \in Seq(Byte)
  BY <1>2, SaidIsBytes DEF TypeOK
<1>4. Said' = SubSeq(script, 1, n) \o out'
  <2>1. PICK r, b : r = SubSeq(script, 1, n) /\ b = script[said + 1]
    OBVIOUS
  <2>2. r \in Seq(Byte) /\ b \in Byte /\ out \in Seq(Byte)
    BY <1>3, <2>1
  <2>3. Append(r \o out, b) = r \o Append(out, b)
    BY <2>2
  <2>4. Said' = Append(r \o out, b) /\ out' = Append(out, b)
    BY <1>1, <1>2, <1>3, <2>1 DEF Said
  <2> QED BY <2>1, <2>3, <2>4
<1>5. n \in 0 .. said'
  BY <1>2, <1>3
<1>6. HasDecoded(SubSeq(script, 1, n))'
  <2>1. PICK r : r = SubSeq(script, 1, n)
    OBVIOUS
  <2>2. HasDecoded(r)'
    BY <1>1, <1>2, <2>1, DecodedStays
  <2> QED BY <1>2, <2>1, <2>2 DEF HasDecoded
<1> QED BY <1>2, <1>4, <1>5, <1>6

(* A chunk, or the end, of what the child says is decoded. *)
LEMMA DecoderKeptByReadOut ==
  ASSUME TypeOK, DecoderInv, ReadOut, readable \subseteq readers
  PROVE  /\ DecoderInv'
         /\ half' \in BOOLEAN /\ heldCr' \in BOOLEAN
         /\ text' \in Seq(Plain) /\ shown' \in Nat
<1> DEFINE bytes == IF half THEN <<"h1">> \o out ELSE out
           final == out = <<>>
           bad   == Malformed(bytes) \/ (final /\ half)
<1>1. /\ pc = "read" /\ "out" \in readers /\ UNCHANGED <<script, said>>
      /\ \/ bad /\ pc' = "raise" /\ UNCHANGED <<readers, readable, decoder>>
         \/ /\ ~bad /\ Accept(Characters(bytes), final)
            /\ half' = Cut(bytes)
            /\ readers' = IF final THEN readers \ {"out"} ELSE readers
            /\ pc' = pc
      /\ out' = <<>>
  BY DEF ReadOut, Goto, childVars
<1>2. CASE bad /\ pc' = "raise" /\ UNCHANGED <<readers, readable, decoder>>
  BY <1>2 DEF DecoderInv, TypeOK, decoder
<1>3. CASE /\ ~bad /\ Accept(Characters(bytes), final)
           /\ half' = Cut(bytes)
           /\ readers' = IF final THEN readers \ {"out"} ELSE readers
           /\ pc' = pc
  <2>1. PICK n \in 0 .. said : /\ Said = SubSeq(script, 1, n) \o out
                               /\ HasDecoded(SubSeq(script, 1, n))
    BY <1>1 DEF DecoderInv
  <2>2. PICK b : b = SubSeq(script, 1, n)
    OBVIOUS
  <2>3. PICK c : c = out
    OBVIOUS
  <2>4. PICK d : d = bytes
    OBVIOUS
  <2>5. PICK fin \in BOOLEAN : fin = final
    OBVIOUS
  <2>6. b \in Seq(Byte) /\ c \in Seq(Byte) /\ Said = b \o c
    BY <2>1, <2>2, <2>3, SaidIsBytes DEF TypeOK
  <2>7. /\ ~Malformed(b) /\ half = Cut(b) /\ heldCr = EndsInCr(Characters(b))
        /\ text = Newlines(Passed(Characters(b), heldCr)) /\ shown = LineEnds(text)
    <3>1. HasDecoded(b)
      BY <2>1, <2>2
    <3>2. heldCr = EndsInCr(Characters(b))
      BY <1>1, <3>1, Zenon DEF HasDecoded, EndsInCr
    <3> QED BY <3>1, <3>2 DEF HasDecoded
  <2>8. /\ d = Pending(b, c)
        /\ ~Malformed(d) /\ (Cut(b) => c # <<>>) /\ fin = (c = <<>>)
        /\ Accept(Characters(d), fin) /\ half' = Cut(d)
    BY <1>3, <2>3, <2>4, <2>5, <2>7 DEF Pending
  <2> HIDE DEF bytes, final, bad
  <2>9. PICK w : w = b \o c
    OBVIOUS
  <2>11. /\ w \in Seq(Byte) /\ d \in Seq(Byte) /\ ~Malformed(w) /\ (Cut(w) <=> Cut(d))
         /\ Characters(w) = Characters(b) \o Characters(d)
    <3>1. b \in Seq(Byte) /\ c \in Seq(Byte) /\ ~Malformed(b) /\ ~Malformed(Pending(b, c))
      BY <2>6, <2>7, <2>8
    <3>2. /\ Pending(b, c) \in Seq(Byte) /\ ~Malformed(b \o c)
          /\ Cut(b \o c) <=> Cut(Pending(b, c))
          /\ Characters(b \o c) = Characters(b) \o Characters(Pending(b, c))
      BY <3>1, Chunk, Zenon
    <3>3. w \in Seq(Byte)
      BY <2>9, <3>1, ConcatProperties
    <3>4. d = Pending(b, c)
      BY <2>8
    <3> QED BY <2>9, <3>2, <3>3, <3>4
  <2>12. PICK s, t, u : s = Characters(b) /\ t = Characters(d) /\ u = Characters(w)
    OBVIOUS
  <2>13. s \in Seq(Chars) /\ t \in Seq(Chars) /\ u \in Seq(Chars) /\ u = s \o t
    BY <2>6, <2>11, <2>12, CharactersType
  <2>14. heldCr \in BOOLEAN
    BY DEF TypeOK
  <2>15. /\ heldCr = EndsInCr(s) /\ text = Newlines(Passed(s, heldCr))
         /\ shown = LineEnds(text) /\ Accept(t, fin)
    BY <2>7, <2>8, <2>12
  <2>16. /\ heldCr' = (~fin /\ EndsInCr(u))
         /\ text' = Newlines(Passed(u, heldCr'))
         /\ shown' = LineEnds(text')
    BY <2>13, <2>14, <2>15, AcceptsWell
  <2>17. half' \in BOOLEAN /\ heldCr' \in BOOLEAN
    BY <2>8, <2>16 DEF Cut
  <2>18. text' \in Seq(Plain) /\ shown' \in Nat
    <3>1. Passed(u, heldCr') \in Seq(Chars)
      BY <2>13, <2>16, FrontAndLast DEF Passed, EndsInCr
    <3>2. text' \in Seq(Plain)
      BY <2>16, <3>1, NewlinesType
    <3> QED BY <2>16, <3>2, LineEndsJoin
  <2>19. "out" \in readers' <=> ~fin
    BY <1>1, <1>3, <2>5
  <2>20. HasDecoded(w)'
    <3>1. half' = Cut(w)
      BY <2>8, <2>11 DEF Cut
    <3>2. fin => ~half'
      <4>1. fin => d = <<>>
        BY <2>8 DEF Pending
      <4> QED BY <2>8, <4>1 DEF Cut
    <3>3. heldCr' = ("out" \in readers' /\ EndsInCr(Characters(w)))
      BY <2>12, <2>16, <2>19 DEF EndsInCr
    <3> QED BY <2>11, <2>12, <2>16, <2>19, <3>1, <3>2, <3>3 DEF HasDecoded
  <2>21. /\ said \in 0 .. said' /\ SubSeq(script', 1, said) = w
         /\ Said' = w \o out'
    <3>1. Said' = w /\ SubSeq(script', 1, said) = w /\ said \in Nat /\ said' = said
      BY <1>1, <2>6, <2>9, SaidIsBytes DEF Said
    <3>2. w \o out' = w
      BY <1>1, <2>11, ConcatEmptySeq
    <3> QED BY <3>1, <3>2
  <2>22. DecoderInv'
    BY <2>20, <2>21 DEF DecoderInv
  <2> QED BY <2>17, <2>18, <2>22
<1> QED BY <1>1, <1>2, <1>3
-----------------------------------------------------------------------------
USE DEF vars, childVars, pipeVars, loopVars, decoder, Goto, Ended, Alive,
        Closed

(* A turn begins with both outputs open and the child running. *)
LEMMA InitControl == Init => ControlInv
BY DEF Init, ControlInv, ChildInv, ReaderInv, EndInv, PCs

(* Every step of the child, its descendants, the clock and the select loop *)
(* keeps the invariant.                                                    *)
LEMMA ControlPreserved == ControlInv /\ [Next]_vars => ControlInv'
<1> SUFFICES ASSUME ControlInv, [Next]_vars PROVE ControlInv'
  OBVIOUS
<1> USE DEF ControlInv, ChildInv, ReaderInv, EndInv, PCs, Drained, Readable
<1>1. CASE Choose
  BY <1>1 DEF Choose
<1>2. CASE WriteOut
  <2>1. child = "running"
    BY <1>2 DEF WriteOut
  <2>2. "out" \in readers \/ pc \in {"timed_out", "raised"}
    BY <2>1
  <2>3. out' # <<>>
    BY <1>2 DEF WriteOut
  <2> QED
    BY <1>2, <2>1, <2>2, <2>3 DEF WriteOut
<1>3. CASE WriteErr
  <2>1. child = "running"
    BY <1>3 DEF WriteErr
  <2> QED
    BY <1>3, <2>1 DEF WriteErr
<1>4. CASE ReadIn
  BY <1>4 DEF ReadIn
<1>5. CASE CloseIn
  BY <1>5 DEF CloseIn
<1>6. CASE CloseOutputs
  BY <1>6 DEF CloseOutputs
<1>7. CASE Gone
  BY <1>7 DEF Gone
<1>8. CASE HolderEnds
  BY <1>8 DEF HolderEnds
<1>9. CASE Tick
  BY <1>9 DEF Tick
<1>10. CASE Select
  BY <1>10 DEF Select, ReadyToRead
<1>11. CASE ReadOut
  <2>1. /\ pc = "read" /\ "out" \in readable /\ out' = <<>>
        /\ UNCHANGED <<child, holder, want, err, stdin, late>>
    BY <1>11 DEF ReadOut
  <2>2. Closed \/ out # <<>>
    BY <2>1
  <2>3. CASE pc' = "raise" /\ UNCHANGED <<readers, readable>>
    BY <2>1, <2>3
  <2>4. CASE /\ pc' = pc
             /\ readers' = IF out = <<>> THEN readers \ {"out"} ELSE readers
             /\ readable' = readable \ {"out"}
    BY <2>1, <2>2, <2>4
  <2> QED
    BY <1>11, <2>3, <2>4 DEF ReadOut
<1>12. CASE ReadErr
  BY <1>12 DEF ReadErr
<1>13. CASE Write
  BY <1>13 DEF Write
<1>14. CASE Wait
  BY <1>14 DEF Wait
<1>15. CASE KillAndReap
  BY <1>15 DEF KillAndReap, CleanUp
<1>16. CASE UNCHANGED vars
  BY <1>16
<1> QED
  BY <1>1, <1>2, <1>3, <1>4, <1>5, <1>6, <1>7, <1>8, <1>9, <1>10, <1>11,
     <1>12, <1>13, <1>14, <1>15, <1>16
  DEF Next, Loop, Child, Exit, Die, Done

(* A turn begins with nothing said and nothing decoded. *)
LEMMA InitText == Init => TypeOK /\ SpeechInv /\ DecoderInv
<1> SUFFICES ASSUME Init PROVE TypeOK /\ SpeechInv /\ DecoderInv
  OBVIOUS
<1> USE DEF Init
<1>1. script \in Seq(Byte) /\ Len(script) \in Nat
  BY StreamAssumption, LenProperties
<1>2. TypeOK
  <2>1. <<>> \in Seq(Byte) /\ <<>> \in Seq(Plain) /\ Len(<<>>) = 0
    BY EmptySeq
  <2>2. Len(out) <= Capacity /\ said \in 0 .. Len(script)
    BY <1>1, <2>1, StreamAssumption
  <2>3. noise \in Nat /\ prompt \in Nat /\ stdin \in BOOLEAN
    BY StreamAssumption
  <2> QED BY <2>1, <2>2, <2>3 DEF TypeOK, PCs
<1>3. SpeechInv
  BY DEF SpeechInv
<1>4. DecoderInv
  <2>1. SubSeq(script, 1, 0) = <<>>
    BY SubSeqEmpty
  <2>2. ~Malformed(<<>>) /\ ~Cut(<<>>) /\ Characters(<<>>) = <<>> /\ Newlines(<<>>) = <<>>
    BY DEF Malformed, Cut, Characters, Newlines
  <2>3. LineEnds(<<>>) = 0
    <3>1. {i \in DOMAIN <<>> : <<>>[i] = "lf"} = {}
      OBVIOUS
    <3> QED BY <3>1, FS_EmptySet DEF LineEnds
  <2>0. PICK e : e = SubSeq(script, 1, 0)
    OBVIOUS
  <2>4. HasDecoded(e)
    <3>1. "out" \in readers /\ heldCr = FALSE /\ half = FALSE /\ text = <<>> /\ shown = 0
      OBVIOUS
    <3>2. ~EndsInCr(Characters(<<>>)) /\ Passed(Characters(<<>>), heldCr) = <<>>
      BY <2>2, <3>1 DEF EndsInCr, Passed
    <3>3. heldCr = ("out" \in readers /\ EndsInCr(Characters(<<>>)))
      BY <3>1, <3>2
    <3>4. half = Cut(<<>>)
      BY <2>2, <3>1 DEF Cut
    <3>5. e = <<>>
      BY <2>0, <2>1
    <3> QED BY <2>2, <2>3, <3>1, <3>2, <3>3, <3>4, <3>5 DEF HasDecoded
  <2>5. Said = SubSeq(script, 1, 0) \o out
    BY <2>1 DEF Said
  <2>6. 0 \in 0 .. said /\ HasDecoded(SubSeq(script, 1, 0))
    BY <2>0, <2>4
  <2> QED BY <2>5, <2>6 DEF DecoderInv
<1> QED BY <1>2, <1>3, <1>4

(* No step but a read of stdout, and the child's writing to it, touches    *)
(* what has been said or decoded, unless it ends the turn.                 *)
LEMMA TextPreserved ==
  ControlInv /\ TypeOK /\ SpeechInv /\ DecoderInv /\ [Next]_vars =>
    TypeOK' /\ SpeechInv' /\ DecoderInv'
<1> SUFFICES ASSUME ControlInv, TypeOK, SpeechInv, DecoderInv, [Next]_vars
             PROVE  TypeOK' /\ SpeechInv' /\ DecoderInv'
  OBVIOUS
<1>0. /\ readers \subseteq {"out", "err"} /\ readable \subseteq readers
      /\ Capacity \in Nat
  BY StreamAssumption DEF ControlInv, ReaderInv
<1> DEFINE Same == /\ UNCHANGED <<script, said, out, decoder>>
                   /\ "out" \in readers' <=> "out" \in readers
                   /\ \/ pc' \in {"raise", "timed_out", "raised"} \/ pc' = pc
                      \/ pc \notin {"raise", "timed_out", "raised"}
<1>s. Same => DecoderInv'
  BY DecoderKept
<1>1. CASE Choose
  <2>1. TypeOK' /\ SpeechInv'
    BY <1>1 DEF Choose, TypeOK, SpeechInv
  <2>2. Same
    BY <1>1 DEF Choose
  <2> QED BY <1>s, <2>1, <2>2
<1>2. CASE WriteOut
  <2>1. /\ said < Len(script) /\ said \in Nat /\ Len(script) \in Nat
        /\ script[said + 1] \in Byte /\ out \in Seq(Byte) /\ Len(out) < Capacity
    BY <1>2, SaidIsBytes, LenProperties DEF WriteOut, SpeechInv, TypeOK
  <2>2. Append(out, script[said + 1]) \in Seq(Byte)
        /\ Len(Append(out, script[said + 1])) = Len(out) + 1
    BY <2>1, AppendProperties
  <2>3. Len(out) + 1 <= Capacity /\ said + 1 \in 0 .. Len(script)
    BY <1>0, <2>1, LenProperties
  <2>4. TypeOK'
    BY <1>2, <2>2, <2>3 DEF WriteOut, TypeOK
  <2>5. SpeechInv'
    BY <1>2 DEF WriteOut, SpeechInv
  <2> QED BY <1>2, <2>4, <2>5, DecoderKeptByWriteOut
<1>3. CASE WriteErr
  <2>1. TypeOK' /\ SpeechInv'
    BY <1>3 DEF WriteErr, TypeOK, SpeechInv, ControlInv, ChildInv
  <2>2. Same
    BY <1>3 DEF WriteErr
  <2> QED BY <1>s, <2>1, <2>2
<1>4. CASE ReadIn
  <2>1. TypeOK' /\ SpeechInv'
    BY <1>4 DEF ReadIn, TypeOK, SpeechInv
  <2>2. Same
    BY <1>4 DEF ReadIn
  <2> QED BY <1>s, <2>1, <2>2
<1>5. CASE CloseIn
  <2>1. TypeOK' /\ SpeechInv'
    BY <1>5 DEF CloseIn, TypeOK, SpeechInv
  <2>2. Same
    BY <1>5 DEF CloseIn
  <2> QED BY <1>s, <2>1, <2>2
<1>6. CASE CloseOutputs
  <2>1. TypeOK' /\ SpeechInv'
    BY <1>6 DEF CloseOutputs, TypeOK, SpeechInv
  <2>2. Same
    BY <1>6 DEF CloseOutputs
  <2> QED BY <1>s, <2>1, <2>2
<1>7. CASE Gone
  <2>1. TypeOK' /\ SpeechInv'
    BY <1>7 DEF Gone, TypeOK, SpeechInv
  <2>2. Same
    BY <1>7 DEF Gone
  <2> QED BY <1>s, <2>1, <2>2
<1>8. CASE HolderEnds
  <2>1. TypeOK' /\ SpeechInv'
    <3>1. deaf' \in BOOLEAN
      BY <1>8 DEF HolderEnds
    <3>2. /\ holder' = FALSE
          /\ UNCHANGED <<child, want, script, said, noise, out, err, inp, pc, late,
                         loopVars, decoder>>
      BY <1>8 DEF HolderEnds
    <3>3. TypeOK'
      BY <3>1, <3>2 DEF TypeOK
    <3>4. SpeechInv'
      BY <3>2 DEF SpeechInv
    <3> QED BY <3>3, <3>4
  <2>2. Same
    BY <1>8 DEF HolderEnds
  <2> QED BY <1>s, <2>1, <2>2
<1>9. CASE Tick
  <2>1. TypeOK' /\ SpeechInv'
    BY <1>9 DEF Tick, TypeOK, SpeechInv
  <2>2. Same
    BY <1>9 DEF Tick
  <2> QED BY <1>s, <2>1, <2>2
<1>10. CASE Select
  <2>1. TypeOK' /\ SpeechInv'
    <3>1. ReadyToWrite \in BOOLEAN /\ (ReadyToWrite => stdin)
      BY DEF ReadyToWrite
    <3>2. ReadyToRead \subseteq readers
      BY DEF ReadyToRead
    <3>3. /\ pc' \in PCs
          /\ UNCHANGED <<childVars, pipeVars, late, readers, stdin, prompt, decoder>>
          /\ \/ UNCHANGED <<readable, writable>>
             \/ readable' = ReadyToRead /\ writable' = ReadyToWrite
      BY <1>10 DEF Select, PCs
    <3>4. writable' \in BOOLEAN /\ readable' \subseteq readers
      BY <3>1, <3>2, <3>3 DEF TypeOK
    <3>5. TypeOK'
      BY <3>3, <3>4 DEF TypeOK
    <3>6. SpeechInv'
      BY <3>1, <3>3 DEF SpeechInv
    <3> QED BY <3>5, <3>6
  <2>2. Same
    BY <1>10 DEF Select
  <2> QED BY <1>s, <2>1, <2>2
<1>11. CASE ReadOut
  <2>1. /\ DecoderInv' /\ half' \in BOOLEAN /\ heldCr' \in BOOLEAN
        /\ text' \in Seq(Plain) /\ shown' \in Nat
    BY <1>0, <1>11, DecoderKeptByReadOut
  <2>2. /\ readers' \subseteq {"out", "err"} /\ readable' \subseteq readers'
        /\ pc' \in PCs /\ out' = <<>>
        /\ UNCHANGED <<childVars, err, inp, deaf, late, stdin, prompt, writable>>
    BY <1>0, <1>11 DEF ReadOut, PCs
  <2>3. out' \in Seq(Byte) /\ Len(out') <= Capacity
    BY <1>0, <2>2, EmptySeq
  <2>4. TypeOK'
    BY <2>1, <2>2, <2>3 DEF TypeOK
  <2>5. SpeechInv'
    BY <2>2 DEF SpeechInv
  <2> QED BY <2>1, <2>4, <2>5
<1>12. CASE ReadErr
  <2>1. TypeOK' /\ SpeechInv'
    <3>1. /\ err' = FALSE /\ readable' = {} /\ readers' \subseteq readers
          /\ UNCHANGED <<childVars, out, inp, deaf, pc, late, stdin, prompt,
                         writable, decoder>>
      BY <1>12 DEF ReadErr
    <3>2. readers' \subseteq {"out", "err"} /\ readable' \subseteq readers' /\ err' \in BOOLEAN
      BY <1>0, <3>1
    <3>3. TypeOK'
      BY <3>1, <3>2 DEF TypeOK
    <3>4. SpeechInv'
      BY <3>1 DEF SpeechInv
    <3> QED BY <3>3, <3>4
  <2>2. Same
    BY <1>12 DEF ReadErr
  <2> QED BY <1>s, <2>1, <2>2
<1>13. CASE Write
  <2>1. TypeOK'
    <3>1. stdin' \in BOOLEAN /\ writable' = FALSE /\ pc' = "select"
      BY <1>13 DEF Write
    <3>2. inp' \in BOOLEAN /\ prompt' \in Nat
      <4>1. CASE writable /\ ~deaf
        <5>1. inp' = TRUE /\ prompt' = prompt - 1
          BY <1>13, <4>1 DEF Write
        <5>2. prompt > 0 /\ prompt \in Nat
          BY <4>1 DEF TypeOK, SpeechInv
        <5> QED BY <5>1, <5>2
      <4>2. CASE ~(writable /\ ~deaf)
        BY <1>13, <4>2 DEF Write, TypeOK
      <4> QED BY <4>1, <4>2
    <3>3. UNCHANGED <<childVars, out, err, deaf, late, readers, readable, decoder>>
      BY <1>13 DEF Write
    <3> QED BY <3>1, <3>2, <3>3 DEF TypeOK, SpeechInv, PCs
  <2>2. SpeechInv'
    BY <1>13 DEF Write, TypeOK, SpeechInv
  <2>3. Same
    BY <1>13 DEF Write
  <2> QED BY <1>s, <2>1, <2>2, <2>3
<1>14. CASE Wait
  <2>1. TypeOK' /\ SpeechInv'
    BY <1>14 DEF Wait, TypeOK, SpeechInv, PCs
  <2>2. Same
    BY <1>14 DEF Wait
  <2> QED BY <1>s, <2>1, <2>2
<1>15. CASE KillAndReap
  <2>1. TypeOK' /\ SpeechInv'
    BY <1>15 DEF KillAndReap, CleanUp, TypeOK, SpeechInv, PCs
  <2>2. DecoderInv'
    BY <1>15 DEF KillAndReap, CleanUp, DecoderInv
  <2> QED BY <2>1, <2>2
<1>16. CASE UNCHANGED vars
  <2>1. TypeOK' /\ SpeechInv'
    BY <1>16 DEF TypeOK, SpeechInv
  <2>2. Same
    BY <1>16
  <2> QED BY <1>s, <2>1, <2>2
<1> QED
  BY <1>1, <1>2, <1>3, <1>4, <1>5, <1>6, <1>7, <1>8, <1>9, <1>10, <1>11,
     <1>12, <1>13, <1>14, <1>15, <1>16
  DEF Next, Loop, Child, Exit, Die, Done

(* The initial states satisfy the invariant. *)
LEMMA InitEstablishes == Init => IInv
BY InitControl, InitText DEF IInv

(* Every step keeps it. *)
LEMMA NextPreserves == IInv /\ [Next]_vars => IInv'
BY ControlPreserved, TextPreserved DEF IInv

-----------------------------------------------------------------------------
(* At every point of the loop: which pipes are at their end, whether the   *)
(* child is still there, and what has been decoded.                        *)
THEOREM Invariant == Spec => []IInv
BY InitEstablishes, NextPreserves, PTL DEF Spec

(* Every way out of a turn has reaped the child                            *)
(* (base.py: _run_streaming_cli_turn, its two excepts and its finally).    *)
THEOREM Reaped == Spec => []ChildIsReaped
<1>1. IInv => ChildIsReaped
  BY DEF IInv, ControlInv, EndInv, ChildIsReaped
<1> QED
  BY <1>1, Invariant, PTL

(* A turn that returns has left nothing in a pipe                          *)
(* (base.py: _read_ready_pipes).                                           *)
THEOREM AllIsRead == Spec => []NothingUnread
<1>1. IInv => NothingUnread
  BY DEF IInv, ControlInv, ReaderInv, NothingUnread
<1> QED
  BY <1>1, Invariant, PTL

(* TimeoutExpired is raised only when the deadline has passed              *)
(* (base.py: _wait_for_streams, process.wait).                             *)
THEOREM NotBeforeDeadline == Spec => []NoEarlyKill
<1>1. IInv => NoEarlyKill
  BY DEF IInv, ControlInv, EndInv, NoEarlyKill
<1> QED
  BY <1>1, Invariant, PTL

(* Every variable keeps its type: what is in the pipe fits in it, and what *)
(* is decoded is text (base.py: _StreamingReader, _run_streaming_cli_turn).*)
THEOREM TypeCorrect == Spec => []TypeOK
<1>1. IInv => TypeOK
  BY DEF IInv
<1> QED
  BY <1>1, Invariant, PTL

(* A turn that returns has the whole of what its child said, decoded as    *)
(* one piece whatever the reads were, and has shown every line of it       *)
(* (base.py: _StreamingReader.read, _StreamingReader._decode).              *)
THEOREM ResultWhole == Spec => []ResultIsWhole
<1>1. IInv => ResultIsWhole
  <2> SUFFICES ASSUME IInv, pc = "returned"
               PROVE  /\ ~Undecodable(Said) /\ text = Decoded(Said)
                      /\ shown = LineEnds(text)
    BY DEF ResultIsWhole
  <2>1. "out" \notin readers /\ out = <<>>
    BY DEF IInv, ControlInv, ReaderInv, Drained
  <2>2. PICK n \in 0 .. said : /\ Said = SubSeq(script, 1, n) \o out
                               /\ HasDecoded(SubSeq(script, 1, n))
    BY DEF IInv, DecoderInv
  <2>3. PICK r : r = SubSeq(script, 1, n)
    OBVIOUS
  <2>4. r \in Seq(Byte)
    BY <2>3, SaidIsBytes DEF IInv
  <2>5. Said = r /\ HasDecoded(r)
    BY <2>1, <2>2, <2>3, <2>4, ConcatEmptySeq
  <2>6. ~half /\ ~heldCr
    BY <2>1, <2>5, Zenon DEF HasDecoded
  <2>7. ~Undecodable(r) /\ text = Decoded(r) /\ shown = LineEnds(text)
    BY <2>5, <2>6 DEF HasDecoded, Undecodable, Decoded, Passed
  <2> QED BY <2>5, <2>7
<1> QED
  BY <1>1, Invariant, PTL
=============================================================================
