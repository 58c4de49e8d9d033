---------------------------- MODULE Router_proofs ----------------------------
(* Theorems about Router, for all lines, hosts and widths. *)
EXTENDS Router, WellFoundedInduction, TLAPS

-----------------------------------------------------------------------------
(* Least and greatest elements, and induction by them: the well-founded      *)
(* relation of the library taken on sets, since its theorems about operators *)
(* cannot be applied.                                                        *)

LEMMA Least ==
  ASSUME NEW S, S \subseteq Nat, S # {}
  PROVE  \E x \in S : \A y \in S : x <= y
<1> DEFINE R == {ss \in Nat \X Nat : ss[1] < ss[2]}
<1>1. IsWellFoundedOn(R, Nat)
  BY NatLessThanWellFounded DEF OpToRel
<1>2. \A x, y \in Nat : y < x => <<y, x>> \in R
  OBVIOUS
<1> HIDE DEF R
<1>3. PICK x \in S : \A y \in S : ~(<<y, x>> \in R)
  BY <1>1, WFMin
<1>4. \A y \in S : ~(y < x)
  BY <1>2, <1>3
<1>5. \A y \in S : x <= y
  BY <1>4
<1> QED
  BY <1>5

LEMMA Induction ==
  ASSUME NEW S, 0 \in S, \A n \in Nat : n \in S => n + 1 \in S
  PROVE  \A n \in Nat : n \in S
<1> SUFFICES ASSUME Nat \ S # {} PROVE FALSE
  OBVIOUS
<1>1. PICK x \in Nat \ S : \A y \in Nat \ S : x <= y
  BY Least
<1>2. x # 0 /\ x - 1 \in Nat /\ x - 1 \in S
  BY <1>1
<1> QED
  BY <1>1, <1>2

LEMMA MinOK ==
  ASSUME NEW S, S \subseteq Nat, S # {}
  PROVE  Min(S) \in S /\ \A y \in S : Min(S) <= y
BY Least DEF Min

LEMMA MaxOK ==
  ASSUME NEW n \in Nat, NEW S, S \subseteq 0..n, S # {}
  PROVE  Max(S) \in S /\ \A y \in S : y <= Max(S)
<1> DEFINE D == {d \in 0..n : n - d \in S}
<1>1. D \subseteq Nat
  OBVIOUS
<1>2. \A x \in S : x \in 0..n /\ n - x \in 0..n /\ n - (n - x) = x
  OBVIOUS
<1>3. \A x \in S : n - x \in D
  BY <1>2
<1>4. D # {}
  BY <1>3
<1>5. PICK d \in D : \A e \in D : d <= e
  <2> HIDE DEF D
  <2> QED
    BY <1>1, <1>4, Least
<1>6. d \in 0..n /\ n - d \in S
  OBVIOUS
<1>7. \A y \in S : y <= n - d
  <2> SUFFICES ASSUME NEW y \in S PROVE y <= n - d
    OBVIOUS
  <2>1. d <= n - y
    BY <1>3, <1>5
  <2> QED
    BY <1>2, <1>6, <2>1
<1> QED
  BY <1>6, <1>7 DEF Max

-----------------------------------------------------------------------------
(* Text. *)

Texts == Seq(STRING)

LEMMA Single ==
  ASSUME NEW T, NEW w \in T
  PROVE  <<w>> \in Seq(T) /\ Len(<<w>>) = 1 /\ <<w>>[1] = w
OBVIOUS

LEMMA Appended ==
  ASSUME NEW T, NEW a \in Seq(T), NEW b \in Seq(T)
  PROVE  /\ a \o b \in Seq(T) /\ Len(a \o b) = Len(a) + Len(b)
         /\ \A i \in 1..Len(a) : (a \o b)[i] = a[i]
         /\ \A i \in 1..Len(b) : (a \o b)[Len(a) + i] = b[i]
         /\ Len(a) \in Nat /\ Len(b) \in Nat
OBVIOUS

LEMMA Same ==
  ASSUME NEW T, NEW a \in Seq(T), NEW b \in Seq(T), Len(a) = Len(b),
         \A i \in 1..Len(a) : a[i] = b[i]
  PROVE  a = b
OBVIOUS

LEMMA Pair ==
  ASSUME NEW T, NEW x \in T, NEW y \in T, NEW z \in T
  PROVE  <<x>> \o <<y>> = <<x, y>> /\ <<x, y>> \o <<z>> = <<x, y, z>>
<1> DEFINE a == <<x>>
           b == <<y>>
           c == <<z>>
           ab == <<x, y>>
           abc == <<x, y, z>>
<1>1. a \in Seq(T) /\ Len(a) = 1 /\ a[1] = x /\ b \in Seq(T) /\ Len(b) = 1 /\ b[1] = y
      /\ c \in Seq(T) /\ Len(c) = 1 /\ c[1] = z
  OBVIOUS
<1>2. ab \in Seq(T) /\ Len(ab) = 2 /\ ab[1] = x /\ ab[2] = y
  OBVIOUS
<1>3. abc \in Seq(T) /\ Len(abc) = 3 /\ abc[1] = x /\ abc[2] = y /\ abc[3] = z
  OBVIOUS
<1> HIDE DEF a, b, c, ab, abc
<1>4. a \o b = ab
  <2>1. a \o b \in Seq(T) /\ Len(a \o b) = 2 /\ (a \o b)[1] = x /\ (a \o b)[2] = y
    <3>1. a \o b \in Seq(T) /\ Len(a \o b) = 1 + 1
          /\ (\A i \in 1..1 : (a \o b)[i] = a[i]) /\ (\A i \in 1..1 : (a \o b)[1 + i] = b[i])
      <4>0. a \in Seq(T) /\ b \in Seq(T)
        BY <1>1
      <4>1. /\ a \o b \in Seq(T) /\ Len(a \o b) = Len(a) + Len(b)
            /\ \A i \in 1..Len(a) : (a \o b)[i] = a[i]
            /\ \A i \in 1..Len(b) : (a \o b)[Len(a) + i] = b[i]
        BY <4>0, Appended
      <4> QED
        BY <1>1, <4>1
    <3>2. (a \o b)[1] = a[1] /\ (a \o b)[1 + 1] = b[1]
      BY <3>1
    <3> QED
      BY <1>1, <3>1, <3>2
  <2>2. \A i \in 1..2 : (a \o b)[i] = ab[i]
    BY <1>2, <2>1
  <2> QED
    BY <1>2, <2>1, <2>2, Same
<1>5. ab \o c = abc
  <2>1. ab \o c \in Seq(T) /\ Len(ab \o c) = 3 /\ (ab \o c)[1] = x /\ (ab \o c)[2] = y
        /\ (ab \o c)[3] = z
    <3>1. ab \o c \in Seq(T) /\ Len(ab \o c) = 2 + 1
          /\ (\A i \in 1..2 : (ab \o c)[i] = ab[i]) /\ (\A i \in 1..1 : (ab \o c)[2 + i] = c[i])
      BY <1>1, <1>2, Appended
    <3>2. (ab \o c)[1] = ab[1] /\ (ab \o c)[2] = ab[2] /\ (ab \o c)[2 + 1] = c[1]
      BY <3>1
    <3> QED
      BY <1>1, <1>2, <3>1, <3>2
  <2>2. \A i \in 1..3 : (ab \o c)[i] = abc[i]
    BY <1>3, <2>1
  <2> QED
    BY <1>3, <2>1, <2>2, Same
<1> QED
  BY <1>4, <1>5 DEF a, b, c, ab, abc

LEMMA SubSeqOK ==
  ASSUME NEW s \in Texts, NEW a \in 1..Len(s), NEW b \in 1..Len(s)
  PROVE  SubSeq(s, a, b) \in Texts
BY DEF Texts

LEMMA TrimOK ==
  ASSUME NEW s \in Texts
  PROVE  Trim(s) \in Texts
<1> DEFINE inked == {i \in DOMAIN s : s[i] # Blank}
<1>1. inked \subseteq 1..Len(s) /\ inked \subseteq Nat /\ inked \subseteq 0..Len(s)
  BY DEF Texts
<1>2. CASE inked = {}
  <2>1. Trim(s) = <<>>
    BY <1>2 DEF Trim
  <2>2. <<>> \in Texts
    BY DEF Texts
  <2> QED
    BY <2>1, <2>2
<1>3. CASE inked # {}
  <2> DEFINE a == Min(inked)
             b == Max(inked)
  <2>1. Trim(s) = SubSeq(s, a, b)
    BY <1>3 DEF Trim
  <2>2. Len(s) \in Nat
    BY DEF Texts
  <2>3. a \in 1..Len(s) /\ b \in 1..Len(s)
    <3> HIDE DEF inked
    <3>1. a \in inked
      BY <1>1, <1>3, MinOK
    <3>2. b \in inked
      BY <1>1, <1>3, <2>2, MaxOK
    <3> QED
      BY <1>1, <3>1, <3>2
  <2> HIDE DEF a, b
  <2> QED
    BY <2>1, <2>3, SubSeqOK
<1> QED
  BY <1>2, <1>3

\* A field of one symbol stays as it is.
LEMMA TrimWord ==
  ASSUME NEW w \in STRING, w # Blank
  PROVE  Trim(<<w>>) = <<w>> /\ <<w>> # <<>>
<1> DEFINE s == <<w>>
           inked == {i \in DOMAIN s : s[i] # Blank}
<1>1. DOMAIN s = {1} /\ s[1] = w /\ s \in Seq(STRING) /\ Len(s) = 1
  <2>1. s \in Seq(STRING) /\ Len(s) = 1 /\ s[1] = w
    BY Single
  <2>2. 1..1 = {1}
    OBVIOUS
  <2> HIDE DEF s
  <2>3. DOMAIN s = 1..Len(s)
    BY <2>1
  <2> QED
    BY <2>1, <2>2, <2>3
<1> HIDE DEF s
<1>2. inked = {1}
  BY <1>1
<1>3. Min({1}) \in {1}
  BY MinOK
<1>4. Max({1}) \in {1}
  <2>1. {1} \subseteq 0..1 /\ {1} # {} /\ 1 \in Nat
    OBVIOUS
  <2> QED
    BY <2>1, MaxOK
<1>5. Trim(s) = SubSeq(s, 1, 1)
  BY <1>2, <1>3, <1>4 DEF Trim
<1>6. SubSeq(s, 1, 1) = s
  BY <1>1
<1> QED
  BY <1>5, <1>6 DEF s

LEMMA LowerOK ==
  ASSUME NEW s \in Texts
  PROVE  Lower(s) \in Texts /\ Len(Lower(s)) = Len(s)
<1>1. \A i \in DOMAIN s : (IF s[i] \in DOMAIN LowerOf THEN LowerOf[s[i]] ELSE s[i]) \in STRING
  BY RouterAssumption DEF Texts
<1>2. DOMAIN s = 1..Len(s) /\ Len(s) \in Nat
  BY DEF Texts
<1>3. Lower(s) \in [1..Len(s) -> STRING]
  BY <1>1, <1>2 DEF Lower
<1> QED
  BY <1>2, <1>3 DEF Texts

\* The upper case of a word of the rules is the word.
Keywords == Types \cup Actions \cup {"MATCH", "BLOCK"}

LEMMA UpperWord ==
  ASSUME NEW w \in Keywords
  PROVE  Upper(<<w>>) = <<w>>
<1>1. \A u \in DOMAIN LowerOf : LowerOf[u] # w
  BY RouterAssumption DEF Keywords
<1>2. UpperOf(w) = w
  BY <1>1 DEF UpperOf
<1> QED
  BY <1>2 DEF Upper

-----------------------------------------------------------------------------
(* The fields of a line. *)

Ink(f) == IF Trim(f) = <<>> THEN <<>> ELSE <<Trim(f)>>

\* The recursion that Pushed is defined by.
LEMMA PushedDef ==
  ASSUME NEW line \in Seq(Texts)
  PROVE  Pushed(line) = [i \in 0..Len(line) |->
                            IF i = 0 THEN <<>> ELSE Pushed(line)[i - 1] \o Ink(line[i])]
<1> DEFINE Next1(f, i) == IF i = 0 THEN <<>> ELSE f[i - 1] \o Ink(line[i])
           S == {n \in Nat : \E f : f = [i \in 0..n |-> Next1(f, i)]}
<1>1. 0 \in S
  <2> DEFINE f == [i \in 0..0 |-> <<>>]
  <2>1. f = [i \in 0..0 |-> Next1(f, i)]
    OBVIOUS
  <2> QED
    BY <2>1
<1>2. ASSUME NEW n \in Nat, n \in S PROVE n + 1 \in S
  <2>1. PICK f : f = [i \in 0..n |-> Next1(f, i)]
    BY <1>2
  <2> DEFINE g == [i \in 0..(n + 1) |-> IF i = n + 1 THEN f[n] \o Ink(line[n + 1]) ELSE f[i]]
  <2>2. \A i \in 0..(n + 1) : g[i] = Next1(g, i)
    <3> SUFFICES ASSUME NEW i \in 0..(n + 1) PROVE g[i] = Next1(g, i)
      OBVIOUS
    <3>1. CASE i = n + 1
      <4>1. i # 0 /\ i - 1 = n /\ g[n] = f[n]
        BY <3>1
      <4> QED
        BY <3>1, <4>1
    <3>2. CASE i \in 0..n
      <4>1. g[i] = f[i] /\ (i # 0 => g[i - 1] = f[i - 1])
        BY <3>2
      <4>2. f[i] = Next1(f, i)
        BY <2>1, <3>2
      <4> QED
        BY <4>1, <4>2
    <3> QED
      BY <3>1, <3>2
  <2>3. g = [i \in 0..(n + 1) |-> Next1(g, i)]
    BY <2>2
  <2> HIDE DEF g
  <2> QED
    BY <2>3
<1> HIDE DEF S
<1>3. Len(line) \in S
  BY <1>1, <1>2, Induction
<1>4. \E f : f = [i \in 0..Len(line) |-> Next1(f, i)]
  BY <1>3 DEF S
<1>5. \A f : [i \in 0..Len(line) |-> Next1(f, i)] =
             [i \in 0..Len(line) |-> IF i = 0 THEN <<>>
                ELSE f[i - 1] \o (IF Trim(line[i]) = <<>> THEN <<>> ELSE <<Trim(line[i])>>)]
  BY DEF Ink
<1>6. Pushed(line) = CHOOSE f : f = [i \in 0..Len(line) |-> Next1(f, i)]
  BY <1>5 DEF Pushed
<1> HIDE DEF Next1
<1>7. Pushed(line) = [i \in 0..Len(line) |-> Next1(Pushed(line), i)]
  BY <1>4, <1>6
<1> QED
  BY <1>7 DEF Next1

LEMMA PushedSteps ==
  ASSUME NEW line \in Seq(Texts)
  PROVE  /\ Len(line) \in Nat
         /\ Pushed(line)[0] = <<>>
         /\ \A n \in 1..Len(line) : Pushed(line)[n] = Pushed(line)[n - 1] \o Ink(line[n])
<1> DEFINE P == Pushed(line)
<1>1. P = [i \in 0..Len(line) |-> IF i = 0 THEN <<>> ELSE P[i - 1] \o Ink(line[i])]
  BY PushedDef
<1>2. Len(line) \in Nat
  OBVIOUS
<1> HIDE DEF P
<1>3. P[0] = <<>> /\ \A n \in 1..Len(line) : P[n] = P[n - 1] \o Ink(line[n])
  BY <1>1, <1>2
<1> QED
  BY <1>2, <1>3 DEF P

Inked == Texts \ {<<>>}

LEMMA InkOK ==
  ASSUME NEW f \in Texts
  PROVE  Ink(f) \in Seq(Inked)
<1>1. CASE Trim(f) = <<>>
  BY <1>1 DEF Ink
<1>2. CASE Trim(f) # <<>>
  <2>1. Trim(f) \in Inked
    BY <1>2, TrimOK DEF Inked
  <2> HIDE DEF Inked
  <2>2. <<Trim(f)>> \in Seq(Inked)
    BY <2>1
  <2> QED
    BY <1>2, <2>2 DEF Ink
<1> QED
  BY <1>1, <1>2

LEMMA PushedOK ==
  ASSUME NEW line \in Seq(Texts)
  PROVE  \A n \in 0..Len(line) : Pushed(line)[n] \in Seq(Inked)
<1> DEFINE P == Pushed(line)
           S == {n \in Nat : n <= Len(line) => P[n] \in Seq(Inked)}
<1>1. Len(line) \in Nat /\ P[0] = <<>>
      /\ \A n \in 1..Len(line) : P[n] = P[n - 1] \o Ink(line[n])
  BY PushedSteps
<1> HIDE DEF P
<1>2. 0 \in S
  <2>1. <<>> \in Seq(Inked)
    OBVIOUS
  <2> QED
    BY <1>1, <2>1
<1>3. ASSUME NEW n \in Nat, n \in S PROVE n + 1 \in S
  <2> SUFFICES ASSUME n + 1 <= Len(line) PROVE P[n + 1] \in Seq(Inked)
    OBVIOUS
  <2>1. P[n] \in Seq(Inked)
    BY <1>1, <1>3
  <2>2. n + 1 \in 1..Len(line) /\ (n + 1) - 1 = n
    BY <1>1
  <2>3. P[n + 1] = P[n] \o Ink(line[n + 1])
    BY <1>1, <2>2
  <2>4. Ink(line[n + 1]) \in Seq(Inked)
    BY <2>2, InkOK
  <2> HIDE DEF Inked
  <2> QED
    BY <2>1, <2>3, <2>4
<1> HIDE DEF S
<1>4. \A n \in Nat : n \in S
  BY <1>2, <1>3, Induction
<1>5. \A n \in 0..Len(line) : P[n] \in Seq(Inked)
  BY <1>1, <1>4 DEF S
<1> QED
  BY <1>5 DEF P

LEMMA TokensOK ==
  ASSUME NEW line \in Seq(Texts)
  PROVE  Tokens(line) \in Seq(Inked)
<1>1. Len(line) \in 0..Len(line)
  OBVIOUS
<1> QED
  BY <1>1, PushedOK DEF Tokens

\* What has been pushed stays in its place.
LEMMA PushedStays ==
  ASSUME NEW line \in Seq(Texts), NEW m \in 0..Len(line)
  PROVE  /\ Len(Tokens(line)) >= Len(Pushed(line)[m])
         /\ \A i \in 1..Len(Pushed(line)[m]) : Tokens(line)[i] = Pushed(line)[m][i]
<1> DEFINE P == Pushed(line)
           Stays(n) == /\ Len(P[n]) >= Len(P[m])
                       /\ \A i \in 1..Len(P[m]) : P[n][i] = P[m][i]
           S == {n \in Nat : m + n <= Len(line) => Stays(m + n)}
<1>1. Len(line) \in Nat /\ \A n \in 1..Len(line) : P[n] = P[n - 1] \o Ink(line[n])
  BY PushedSteps
<1>2. \A n \in 0..Len(line) : P[n] \in Seq(Inked) /\ Len(P[n]) \in Nat
  BY PushedOK
<1> HIDE DEF P
<1>3. 0 \in S
  <2>1. m + 0 = m /\ Len(P[m]) \in Nat
    BY <1>1, <1>2
  <2> QED
    BY <2>1
<1>4. ASSUME NEW n \in Nat, n \in S PROVE n + 1 \in S
  <2> SUFFICES ASSUME m + (n + 1) <= Len(line) PROVE Stays(m + (n + 1))
    OBVIOUS
  <2> DEFINE k == m + n
  <2>1. k \in 0..Len(line) /\ k + 1 \in 1..Len(line) /\ (k + 1) - 1 = k /\ m + (n + 1) = k + 1
    BY <1>1
  <2>2. Stays(k)
    BY <1>1, <1>4, <2>1
  <2>3. P[k + 1] = P[k] \o Ink(line[k + 1])
    BY <1>1, <2>1
  <2>4. Ink(line[k + 1]) \in Seq(Inked) /\ P[k] \in Seq(Inked)
    BY <1>2, <2>1, InkOK
  <2> HIDE DEF k
  <2>5. Len(P[k + 1]) >= Len(P[k]) /\ \A i \in 1..Len(P[k]) : P[k + 1][i] = P[k][i]
    <3> DEFINE a == P[k]
               b == Ink(line[k + 1])
    <3>1. P[k + 1] = a \o b /\ a \in Seq(Inked) /\ b \in Seq(Inked)
      BY <2>3, <2>4
    <3> HIDE DEF a, b
    <3>2. Len(a) \in Nat /\ Len(b) \in Nat /\ Len(P[k + 1]) = Len(a) + Len(b)
          /\ \A i \in 1..Len(a) : P[k + 1][i] = a[i]
      BY <3>1, Appended
    <3>3. Len(P[k + 1]) >= Len(a)
      BY <3>2
    <3> QED
      BY <3>2, <3>3 DEF a
  <2>6. Len(P[m]) \in Nat /\ Len(P[k]) \in Nat /\ Len(P[k + 1]) \in Nat
    BY <1>2, <2>1
  <2>7. \A i \in 1..Len(P[m]) : i \in 1..Len(P[k])
    BY <2>2, <2>6
  <2> QED
    BY <2>1, <2>2, <2>5, <2>6, <2>7
<1> HIDE DEF S
<1>5. \A n \in Nat : n \in S
  BY <1>3, <1>4, Induction
<1>6. Len(line) - m \in Nat /\ m + (Len(line) - m) = Len(line)
  BY <1>1
<1>7. Stays(Len(line))
  <2> DEFINE d == Len(line) - m
  <2>1. d \in S
    BY <1>5, <1>6
  <2>2. m + d <= Len(line) => Stays(m + d)
    BY <2>1 DEF S
  <2> HIDE DEF Stays
  <2> QED
    BY <1>1, <1>6, <2>2
<1> QED
  BY <1>7 DEF P, Tokens

-----------------------------------------------------------------------------
(* The fields of a line that doctor passes. *)

\* Strings that the solver cannot tell apart, since it cannot spell them.
LEMMA Spelt ==
  ASSUME NEW w \in Keywords
  PROVE  w # Blank /\ w \notin CommentMarks
BY Zenon DEF Keywords, Types, Actions, Blank, CommentMarks

LEMMA WordOK ==
  ASSUME NEW f \in Texts, NEW w \in Keywords, f = <<w>>
  PROVE  Trim(f) = f /\ f # <<>> /\ Ink(f) = <<f>>
<1>1. w \in STRING
  <2>1. Len(<<w>>) = 1 /\ <<w>>[1] = w
    OBVIOUS
  <2> QED
    BY <2>1 DEF Texts
<1>2. w # Blank
  BY Spelt
<1> QED
  BY <1>1, <1>2, TrimWord DEF Ink

\* The first three tokens of a sound line are its first three fields.
LEMMA SoundTokens ==
  ASSUME NEW line \in Seq(Texts), Sound(line)
  PROVE  /\ ~Comment(line)
         /\ Len(Tokens(line)) >= 2 /\ Tokens(line)[1] = line[1]
         /\ \E t \in Types : line[1] = <<t>>
         /\ \E a \in Actions : Written(line) = <<a>>
         /\ line[1] = <<"FINAL">> => Tokens(line)[2] = Written(line)
         /\ line[1] # <<"FINAL">> =>
               /\ Len(Tokens(line)) >= 3 /\ Trim(line[2]) \in Inked
               /\ Tokens(line)[2] = Trim(line[2]) /\ Tokens(line)[3] = Written(line)
<1> DEFINE P == Pushed(line)
<1>1. Len(line) \in Nat /\ P[0] = <<>> /\ \A n \in 1..Len(line) : P[n] = P[n - 1] \o Ink(line[n])
  BY PushedSteps
<1>2. DoctorValid(line) /\ (line[1] # <<"FINAL">> => Trim(line[2]) # <<>>)
  BY DEF Sound
<1>3. Len(line) >= 2 /\ Field(line, 1) = line[1] /\ Field(line, 2) = line[2]
  BY <1>1, <1>2 DEF DoctorValid, Field, Named
<1>4. PICK t \in Types : line[1] = <<t>>
  BY <1>2, <1>3 DEF DoctorValid, Types
<1>5. line[1] \in Texts /\ line[2] \in Texts /\ (Len(line) >= 3 => line[3] \in Texts)
  BY <1>1, <1>3
<1>6. Ink(line[1]) = <<line[1]>> /\ ~Comment(line)
  <2>1. t \in Keywords
    BY DEF Keywords
  <2>2. line[1][1] = t
    BY <1>4
  <2> QED
    BY <1>4, <1>5, <2>1, <2>2, WordOK, Spelt DEF Comment
<1>7. P[1] = <<line[1]>>
  <2>1. 1 \in 1..Len(line) /\ 1 - 1 = 0
    BY <1>1, <1>3
  <2>2. P[1] = P[0] \o Ink(line[1])
    BY <1>1, <2>1
  <2> HIDE DEF P
  <2> QED
    BY <1>1, <1>6, <2>2
<1>8. P[2] = P[1] \o Ink(line[2])
  <2>1. 2 \in 1..Len(line) /\ 2 - 1 = 1
    BY <1>1, <1>3
  <2> QED
    BY <1>1, <2>1
<1>9. 2 \in 0..Len(line) /\ (Len(line) >= 3 => 3 \in 0..Len(line))
  BY <1>1, <1>3
<1>10. Len(Tokens(line)) \in Nat
  BY TokensOK
<1>11. CASE line[1] = <<"FINAL">>
  <2>1. PICK a \in Actions : line[2] = <<a>>
    BY <1>2, <1>3, <1>11 DEF DoctorValid, Named
  <2>2. Ink(line[2]) = <<line[2]>>
    <3>1. a \in Keywords
      BY DEF Keywords
    <3> QED
      BY <1>5, <2>1, <3>1, WordOK
  <2>3. P[2] = <<line[1], line[2]>>
    <3> HIDE DEF P
    <3> QED
      BY <1>5, <1>7, <1>8, <2>2, Pair
  <2>4. Len(P[2]) = 2 /\ P[2][1] = line[1] /\ P[2][2] = line[2]
    BY <2>3
  <2>5. Len(Tokens(line)) >= 2 /\ Tokens(line)[1] = line[1] /\ Tokens(line)[2] = line[2]
    <3> HIDE DEF P
    <3>1. Len(Tokens(line)) >= Len(P[2]) /\ \A i \in 1..Len(P[2]) : Tokens(line)[i] = P[2][i]
      BY <1>9, PushedStays DEF P
    <3> QED
      BY <2>4, <3>1
  <2>6. Written(line) = line[2]
    BY <1>11 DEF Written
  <2> QED
    BY <1>4, <1>6, <1>11, <2>1, <2>5, <2>6
<1>12. CASE line[1] # <<"FINAL">>
  <2>1. Len(line) >= 3 /\ Field(line, 3) = line[3] /\ Field(line, 3) \in Named
    BY <1>1, <1>2, <1>3, <1>12 DEF DoctorValid, Field, Named
  <2>2. PICK a \in Actions : line[3] = <<a>>
    BY <2>1 DEF Named
  <2>3. Ink(line[3]) = <<line[3]>>
    <3>1. a \in Keywords
      BY DEF Keywords
    <3> QED
      BY <1>5, <2>1, <2>2, <3>1, WordOK
  <2>4. Trim(line[2]) \in Inked /\ Ink(line[2]) = <<Trim(line[2])>>
    BY <1>2, <1>5, <1>12, TrimOK DEF Ink, Inked
  <2>5. P[3] = P[2] \o Ink(line[3])
    <3>1. 3 \in 1..Len(line) /\ 3 - 1 = 2
      BY <1>1, <2>1
    <3> QED
      BY <1>1, <3>1
  <2>6. P[3] = <<line[1], Trim(line[2]), line[3]>>
    <3> DEFINE m == Trim(line[2])
    <3>1. m \in Texts /\ Ink(line[2]) = <<m>>
      BY <2>4 DEF Inked
    <3> HIDE DEF P, m
    <3>2. P[3] = (<<line[1]>> \o <<m>>) \o <<line[3]>>
      BY <1>7, <1>8, <2>3, <2>5, <3>1
    <3>3. line[3] \in Texts
      BY <1>5, <2>1
    <3>4. <<line[1]>> \o <<m>> = <<line[1], m>> /\ <<line[1], m>> \o <<line[3]>> = <<line[1], m, line[3]>>
      BY <1>5, <3>1, <3>3, Pair
    <3> QED
      BY <3>2, <3>4 DEF m
  <2>7. Len(P[3]) = 3 /\ P[3][1] = line[1] /\ P[3][2] = Trim(line[2]) /\ P[3][3] = line[3]
    BY <2>6
  <2>8. Len(Tokens(line)) >= 3 /\ Tokens(line)[1] = line[1]
        /\ Tokens(line)[2] = Trim(line[2]) /\ Tokens(line)[3] = line[3]
    <3> HIDE DEF P
    <3>1. Len(Tokens(line)) >= Len(P[3]) /\ \A i \in 1..Len(P[3]) : Tokens(line)[i] = P[3][i]
      BY <1>9, <2>1, PushedStays DEF P
    <3> QED
      BY <2>7, <3>1
  <2>9. Written(line) = line[3]
    BY <1>12 DEF Written
  <2> QED
    BY <1>4, <1>6, <1>10, <1>12, <2>2, <2>4, <2>8, <2>9
<1> QED
  BY <1>11, <1>12
-----------------------------------------------------------------------------
(* The rule of a line. *)

RuleTyped(r) ==
    /\ r.type \in Types /\ r.action \in Actions /\ r.pattern # <<>>
    /\ \E k \in 0..Width : r.mask = k..(Width - 1)
    /\ r.base \subseteq r.mask

LEMMA MaskOK ==
  ASSUME NEW n \in 0..Width
  PROVE  Mask(n) = (Width - n)..(Width - 1) /\ Width - n \in 0..Width
<1>1. Width \in Nat \ {0}
  BY RouterAssumption
<1>2. CASE n = 0
  <2>1. Width..(Width - 1) = {}
    BY <1>1
  <2> QED
    BY <1>1, <1>2, <2>1 DEF Mask
<1>3. CASE n # 0
  <2> DEFINE d == Width - n
  <2>1. d \in 0..(Width - 1)
    BY <1>1, <1>3
  <2>2. Mask(n) = {b + d : b \in Bits} \cap Bits
    BY <1>3 DEF Mask
  <2> HIDE DEF d
  <2>3. \A x \in Mask(n) : x \in d..(Width - 1)
    BY <1>1, <2>1, <2>2 DEF Bits
  <2>4. ASSUME NEW x \in d..(Width - 1) PROVE x \in Mask(n)
    <3>1. x - d \in Bits /\ (x - d) + d = x /\ x \in Bits
      BY <1>1, <2>1 DEF Bits
    <3> QED
      BY <2>2, <3>1
  <2>5. Mask(n) = d..(Width - 1)
    BY <2>3, <2>4
  <2> QED
    BY <1>1, <2>5 DEF d
<1> QED
  BY <1>2, <1>3

\* The leading bits a block names, as Documented reads them.
Leading(s) ==
    LET slash == SelectInSeq(s, LAMBDA c : c = "/")
    IN  IF slash = 0 THEN Width ELSE NumberOf[s[slash + 1]]

LEMMA ParseCidrOK ==
  ASSUME NEW s \in Inked
  PROVE  \/ ParseCidr(s) = [is |-> "invalid"]
         \/ ParseCidr(s) = [is |-> "exception"]
         \/ /\ Leading(s) \in 0..Width
            /\ ParseCidr(s) = Block(AddressOf[s[1]], Leading(s))
<1> DEFINE slash == {i \in DOMAIN s : s[i] = "/"}
           ip == IF slash = {} THEN s ELSE SubSeq(s, 1, Min(slash) - 1)
           prefix == SubSeq(s, Min(slash) + 1, Len(s))
           a == AddressOf[ip[1]]
           n == NumberOf[prefix[1]]
<1>1. ParseCidr(s) =
         CASE ~IsIPv4(ip) -> [is |-> "invalid"]
           [] IsIPv4(ip) /\ slash = {} -> Block(a, Width)
           [] OTHER ->
                 IF prefix = <<>> \/ prefix[1] \notin DOMAIN NumberOf
                 THEN [is |-> "exception"]
                 ELSE IF n \in 0..Width THEN Block(a, n) ELSE [is |-> "invalid"]
  BY DEF ParseCidr
<1>2. Width \in Nat \ {0} /\ s \in Texts /\ Len(s) \in Nat /\ DOMAIN s = 1..Len(s)
  BY RouterAssumption DEF Inked, Texts
<1>3. SelectInSeq(s, LAMBDA c : c = "/") = IF slash = {} THEN 0 ELSE Min(slash)
  BY <1>2 DEF SelectInSeq
<1>4. slash # {} => Min(slash) \in 1..Len(s)
  <2>1. slash \subseteq Nat /\ slash \subseteq 1..Len(s)
    BY <1>2
  <2> HIDE DEF slash
  <2> QED
    BY <2>1, MinOK
<1>5. CASE ~IsIPv4(ip)
  BY <1>1, <1>5
<1>6. CASE IsIPv4(ip) /\ slash = {}
  <2>1. Leading(s) = Width /\ Width \in 0..Width
    BY <1>2, <1>3, <1>6 DEF Leading
  <2>2. ip = s
    BY <1>6
  <2>3. ParseCidr(s) = Block(a, Width)
    BY <1>1, <1>6
  <2> HIDE DEF ip
  <2> QED
    BY <2>1, <2>2, <2>3
<1>7. CASE IsIPv4(ip) /\ slash # {}
  <2> DEFINE m == Min(slash)
  <2>1. ParseCidr(s) = IF prefix = <<>> \/ prefix[1] \notin DOMAIN NumberOf
                       THEN [is |-> "exception"]
                       ELSE IF n \in 0..Width THEN Block(a, n) ELSE [is |-> "invalid"]
    BY <1>1, <1>7
  <2>2. m \in 1..Len(s) /\ ip = SubSeq(s, 1, m - 1) /\ prefix = SubSeq(s, m + 1, Len(s))
    BY <1>4, <1>7
  <2>3. Len(ip) = 1
    BY <1>7 DEF IsIPv4
  <2>4. Leading(s) = NumberOf[s[m + 1]]
    BY <1>3, <1>4, <1>7 DEF Leading
  <2> HIDE DEF m, ip, prefix, slash
  <2>5. ip[1] = s[1]
    BY <1>2, <2>2, <2>3 DEF Texts
  <2>6. prefix # <<>> => prefix[1] = s[m + 1]
    BY <1>2, <2>2 DEF Texts
  <2> QED
    BY <2>1, <2>4, <2>5, <2>6
<1> QED
  BY <1>5, <1>6, <1>7
LEMMA BlockTyped ==
  ASSUME NEW a, NEW n \in 0..Width
  PROVE  /\ Block(a, n).is = "block" /\ Block(a, n).base \subseteq Block(a, n).mask
         /\ \E k \in 0..Width : Block(a, n).mask = k..(Width - 1)
<1>1. Block(a, n).is = "block" /\ Block(a, n).base = a \cap Mask(n) /\ Block(a, n).mask = Mask(n)
  BY DEF Block
<1> QED
  BY <1>1, MaskOK

LEMMA ActionOK ==
  ASSUME NEW s
  PROVE  StringToAction(s) \in Actions
BY DEF StringToAction, Actions

LEMMA RuleOfTyped ==
  ASSUME NEW type \in Types, NEW pattern, pattern # <<>>, NEW action, NEW cidr,
         cidr.base \subseteq cidr.mask, \E k \in 0..Width : cidr.mask = k..(Width - 1)
  PROVE  RuleTyped(RuleOf(type, pattern, action, cidr))
BY ActionOK DEF RuleOf, RuleTyped

\* A line gives no rule or one, and none when it throws.
LEMMA OneRuleOK ==
  ASSUME NEW type \in Types, NEW pattern, pattern # <<>>, NEW action
  PROVE  /\ OneRule(type, pattern, action).throws = FALSE
         /\ OneRule(type, pattern, action).rules =
               <<RuleOf(type, pattern, action, [base |-> {}, mask |-> {}])>>
         /\ RuleTyped(RuleOf(type, pattern, action, [base |-> {}, mask |-> {}]))
<1> DEFINE c == [base |-> {}, mask |-> {}]
<1>1. c.base \subseteq c.mask /\ c.mask = {}
  OBVIOUS
<1>2. Width \in 0..Width /\ Width..(Width - 1) = {}
  BY RouterAssumption
<1> HIDE DEF c
<1>3. RuleTyped(RuleOf(type, pattern, action, c))
  BY <1>1, <1>2, RuleOfTyped
<1>4. OneRule(type, pattern, action) =
         [rules |-> <<RuleOf(type, pattern, action, c)>>, throws |-> FALSE]
  BY DEF OneRule, c
<1> QED
  BY <1>3, <1>4 DEF c

LEMMA CidrRuleOK ==
  ASSUME NEW pattern \in Inked, NEW action
  PROVE  LET g == CidrRule(pattern, action)
             n == Leading(pattern)
             r == RuleOf("IP-CIDR", pattern, action, Block(AddressOf[pattern[1]], n))
         IN  /\ g.throws \in BOOLEAN
             /\ \/ g.rules = <<>>
                \/ g.throws = FALSE /\ g.rules = <<r>> /\ n \in 0..Width /\ RuleTyped(r)
             /\ ParseCidr(pattern).is = "block" => g.rules # <<>>
<1> DEFINE c == ParseCidr(pattern)
           n == Leading(pattern)
           b == Block(AddressOf[pattern[1]], n)
           r == RuleOf("IP-CIDR", pattern, action, b)
<1>1. CidrRule(pattern, action) =
         CASE c.is = "block" -> [rules |-> <<RuleOf("IP-CIDR", pattern, action, c)>>, throws |-> FALSE]
           [] c.is = "invalid" -> NoRule
           [] c.is = "exception" -> [rules |-> <<>>, throws |-> TRUE]
  BY DEF CidrRule
<1>2. CASE c.is \in {"invalid", "exception"}
  <2> HIDE DEF c, b, n
  <2>1. \/ CidrRule(pattern, action) = [rules |-> <<>>, throws |-> FALSE]
        \/ CidrRule(pattern, action) = [rules |-> <<>>, throws |-> TRUE]
    BY <1>1, <1>2 DEF NoRule
  <2> DEFINE g == CidrRule(pattern, action)
  <2>2. g.rules = <<>> /\ g.throws \in BOOLEAN
    <3>1. CASE g = [rules |-> <<>>, throws |-> FALSE]
      <4>1. g.rules = <<>> /\ g.throws = FALSE
        BY <3>1
      <4> QED
        BY <4>1
    <3>2. CASE g = [rules |-> <<>>, throws |-> TRUE]
      <4>1. g.rules = <<>> /\ g.throws = TRUE
        BY <3>2
      <4> QED
        BY <4>1
    <3> QED
      BY <2>1, <3>1, <3>2
  <2>3. c.is # "block"
    BY <1>2
  <2> QED
    BY <2>2, <2>3 DEF c
<1>4. CASE c.is \notin {"invalid", "exception"}
  <2>1. n \in 0..Width /\ c = b
    BY <1>4, ParseCidrOK
  <2>2. b.is = "block" /\ b.base \subseteq b.mask /\ \E k \in 0..Width : b.mask = k..(Width - 1)
    BY <2>1, BlockTyped
  <2>3. "IP-CIDR" \in Types /\ pattern # <<>>
    BY DEF Types, Inked
  <2> HIDE DEF b, c, n
  <2>4. RuleTyped(r)
    BY <2>2, <2>3, RuleOfTyped
  <2> HIDE DEF r
  <2>5. CidrRule(pattern, action) = [rules |-> <<r>>, throws |-> FALSE]
    BY <1>1, <2>1, <2>2 DEF r
  <2>6. CidrRule(pattern, action).rules = <<r>> /\ CidrRule(pattern, action).throws = FALSE
        /\ <<r>> # <<>>
    BY <2>5
  <2> QED
    BY <2>1, <2>4, <2>6 DEF b, n, r
<1> QED
  BY <1>2, <1>4
LEMMA LineOK ==
  ASSUME NEW line \in Lines
  PROVE  line \in Seq(Texts)
BY RouterAssumption DEF Texts

LEMMA RulesOfOK ==
  ASSUME NEW line \in Lines
  PROVE  /\ RulesOf(line).throws \in BOOLEAN
         /\ \/ RulesOf(line).rules = <<>>
            \/ /\ RulesOf(line).throws = FALSE
               /\ \E r : RuleTyped(r) /\ RulesOf(line).rules = <<r>>
<1> DEFINE t == Tokens(line)
           type == Upper(t[1])[1]
           full == Len(t) >= 3
           g == RulesOf(line)
<1>1. t \in Seq(Inked) /\ Len(t) \in Nat
  BY LineOK, TokensOK
<1>2. g = IF Comment(line) \/ Len(t) < 2 THEN NoRule
          ELSE CASE type \in {"DOMAIN-SUFFIX", "DOMAIN-KEYWORD", "DOMAIN"} /\ full ->
                       OneRule(type, Lower(t[2]), t[3])
                 [] type = "IP-CIDR" /\ full -> CidrRule(t[2], t[3])
                 [] type \in {"FINAL", "MATCH"} -> OneRule("FINAL", <<"MATCH">>, t[2])
                 [] OTHER -> NoRule
  BY DEF RulesOf
<1> HIDE DEF t, type, g
<1>3. CASE g = NoRule
  <2>1. g.rules = <<>> /\ g.throws = FALSE
    BY <1>3 DEF NoRule
  <2> QED
    BY <2>1 DEF g
<1>4. CASE Len(t) >= 2 /\ type \in {"DOMAIN-SUFFIX", "DOMAIN-KEYWORD", "DOMAIN"}
           /\ g = OneRule(type, Lower(t[2]), t[3])
  <2>1. t[2] \in Inked
    BY <1>1, <1>4
  <2>2. Lower(t[2]) # <<>>
    <3>1. t[2] \in Texts /\ t[2] # <<>>
      BY <2>1 DEF Inked
    <3>2. Len(t[2]) # 0
      BY <3>1 DEF Texts
    <3>3. Len(Lower(t[2])) # 0
      BY <3>1, <3>2, LowerOK
    <3> QED
      BY <3>3
  <2>3. type \in Types
    BY <1>4 DEF Types
  <2> DEFINE p == Lower(t[2])
             a == t[3]
             r == RuleOf(type, p, a, [base |-> {}, mask |-> {}])
  <2>4. g.throws = FALSE /\ g.rules = <<r>> /\ RuleTyped(r)
    <3>1. p # <<>> /\ g = OneRule(type, p, a)
      BY <1>4, <2>2
    <3> HIDE DEF p, a
    <3> QED
      BY <2>3, <3>1, OneRuleOK
  <2> HIDE DEF r
  <2> QED
    BY <2>4 DEF g
<1>5. CASE Len(t) >= 2 /\ g = CidrRule(t[2], t[3])
  <2>1. t[2] \in Inked
    BY <1>1, <1>5
  <2> DEFINE n == Leading(t[2])
             r == RuleOf("IP-CIDR", t[2], t[3], Block(AddressOf[t[2][1]], n))
  <2>2. g.throws \in BOOLEAN
        /\ (g.rules = <<>> \/ (g.throws = FALSE /\ g.rules = <<r>> /\ RuleTyped(r)))
    BY <1>5, <2>1, CidrRuleOK
  <2> HIDE DEF r
  <2> QED
    BY <2>2 DEF g
<1>6. CASE g = OneRule("FINAL", <<"MATCH">>, t[2])
  <2>1. "FINAL" \in Types /\ <<"MATCH">> # <<>>
    BY DEF Types
  <2> DEFINE r == RuleOf("FINAL", <<"MATCH">>, t[2], [base |-> {}, mask |-> {}])
  <2>2. g.throws = FALSE /\ g.rules = <<r>> /\ RuleTyped(r)
    BY <1>6, <2>1, OneRuleOK
  <2> HIDE DEF r
  <2> QED
    BY <2>2 DEF g
<1>7. g = NoRule \/ Len(t) >= 2
  BY <1>1, <1>2
<1> QED
  BY <1>2, <1>3, <1>4, <1>5, <1>6, <1>7

\* The one rule of a sound line.
RuleFor(line) ==
    IF line[1] = <<"FINAL">>
    THEN RuleOf("FINAL", <<"MATCH">>, Written(line), [base |-> {}, mask |-> {}])
    ELSE IF line[1] = <<"IP-CIDR">>
    THEN LET s == Trim(line[2])
         IN  RuleOf("IP-CIDR", s, Written(line), Block(AddressOf[s[1]], Leading(s)))
    ELSE RuleOf(line[1][1], Lower(Trim(line[2])), Written(line), [base |-> {}, mask |-> {}])

LEMMA RulesOfSound ==
  ASSUME NEW line \in Lines, Sound(line)
  PROVE  /\ RulesOf(line).throws = FALSE /\ RulesOf(line).rules = <<RuleFor(line)>>
         /\ line[1] = <<RuleFor(line).type>> /\ Written(line) = <<RuleFor(line).action>>
         /\ line[1] = <<"IP-CIDR">> => Leading(Trim(line[2])) \in 0..Width
<1> DEFINE t == Tokens(line)
           type == Upper(t[1])[1]
           full == Len(t) >= 3
           g == RulesOf(line)
           s == Trim(line[2])
<1>1. /\ ~Comment(line) /\ Len(t) >= 2 /\ t[1] = line[1]
      /\ line[1] = <<"FINAL">> => t[2] = Written(line)
      /\ line[1] # <<"FINAL">> => full /\ s \in Inked /\ t[2] = s /\ t[3] = Written(line)
  BY LineOK, SoundTokens
<1>2. PICK w \in Types : line[1] = <<w>>
  BY LineOK, SoundTokens
<1>3. PICK a \in Actions : Written(line) = <<a>>
  BY LineOK, SoundTokens
<1>4. Len(t) \in Nat
  BY LineOK, TokensOK
<1>5. g = IF Comment(line) \/ Len(t) < 2 THEN NoRule
          ELSE CASE type \in {"DOMAIN-SUFFIX", "DOMAIN-KEYWORD", "DOMAIN"} /\ full ->
                       OneRule(type, Lower(t[2]), t[3])
                 [] type = "IP-CIDR" /\ full -> CidrRule(t[2], t[3])
                 [] type \in {"FINAL", "MATCH"} -> OneRule("FINAL", <<"MATCH">>, t[2])
                 [] OTHER -> NoRule
  BY DEF RulesOf
<1>6. type = w /\ line[1][1] = w
  <2>1. w \in Keywords
    BY DEF Keywords
  <2>2. Upper(<<w>>) = <<w>>
    BY <2>1, UpperWord
  <2> QED
    BY <1>1, <1>2, <2>2
<1>7. StringToAction(Written(line)) = a
  <2>1. a \in Keywords
    BY DEF Keywords
  <2>2. Upper(Written(line)) = <<a>>
    BY <1>3, <2>1, UpperWord
  <2> QED
    BY <2>2 DEF StringToAction, Actions
<1>8. \A ty, p, c : RuleOf(ty, p, Written(line), c).type = ty /\ RuleOf(ty, p, Written(line), c).action = a
  BY <1>7 DEF RuleOf
<1> HIDE DEF t, type, g, s
<1>9. CASE w = "FINAL"
  <2>1. g = OneRule("FINAL", <<"MATCH">>, Written(line))
    BY <1>1, <1>2, <1>4, <1>5, <1>6, <1>9
  <2>2. g.throws = FALSE /\ g.rules = <<RuleFor(line)>>
    <3>1. "FINAL" \in Types /\ <<"MATCH">> # <<>>
      BY DEF Types
    <3> QED
      BY <1>2, <1>9, <2>1, <3>1, OneRuleOK DEF RuleFor
  <2>3. RuleFor(line).type = w /\ RuleFor(line).action = a
    BY <1>2, <1>8, <1>9 DEF RuleFor
  <2> QED
    BY <1>2, <1>3, <1>9, <2>2, <2>3 DEF g
<1>10. CASE w = "IP-CIDR"
  <2>1. g = CidrRule(s, Written(line)) /\ s \in Inked
    BY <1>1, <1>2, <1>4, <1>5, <1>6, <1>10
  <2>2. ParseCidr(s).is = "block"
    BY <1>2, <1>10 DEF Sound, BlockOf, s
  <2>3. RuleFor(line) = RuleOf("IP-CIDR", s, Written(line), Block(AddressOf[s[1]], Leading(s)))
    BY <1>2, <1>10 DEF RuleFor, s
  <2>4. g.throws = FALSE /\ g.rules = <<RuleFor(line)>> /\ Leading(s) \in 0..Width
    BY <2>1, <2>2, <2>3, CidrRuleOK
  <2>5. RuleFor(line).type = w /\ RuleFor(line).action = a
    BY <1>8, <1>10, <2>3
  <2> QED
    BY <1>2, <1>3, <2>4, <2>5 DEF g, s
<1>11. CASE w \notin {"FINAL", "IP-CIDR"}
  <2>1. w \in {"DOMAIN-SUFFIX", "DOMAIN-KEYWORD", "DOMAIN"} /\ line[1] # <<"FINAL">> /\ line[1] # <<"IP-CIDR">>
    BY <1>2, <1>11 DEF Types
  <2>2. g = OneRule(w, Lower(s), Written(line)) /\ s \in Inked
    BY <1>1, <1>4, <1>5, <1>6, <2>1
  <2>3. RuleFor(line) = RuleOf(w, Lower(s), Written(line), [base |-> {}, mask |-> {}])
    BY <1>6, <2>1 DEF RuleFor, s
  <2>4. g.throws = FALSE /\ g.rules = <<RuleFor(line)>>
    <3>1. Lower(s) # <<>>
      <4>1. s \in Texts /\ s # <<>>
        BY <2>2 DEF Inked
      <4>2. Len(s) # 0
        BY <4>1 DEF Texts
      <4>3. Len(Lower(s)) # 0
        BY <4>1, <4>2, LowerOK
      <4> QED
        BY <4>3
    <3> QED
      BY <2>2, <2>3, <3>1, OneRuleOK
  <2>5. RuleFor(line).type = w /\ RuleFor(line).action = a
    BY <1>8, <2>3
  <2> QED
    BY <1>2, <1>3, <2>1, <2>4, <2>5 DEF g
<1> QED
  BY <1>9, <1>10, <1>11
-----------------------------------------------------------------------------
(* A rule answers as its line is documented. *)

LEMMA OccursAt ==
  ASSUME NEW h \in Texts, NEW p \in Texts, p # <<>>
  PROVE  /\ Occurs(h, p) # {} <=> \E i, j \in DOMAIN h : SubSeq(h, i, j) = p
         /\ \A i \in DOMAIN h : SubSeq(h, i + 1, Len(h)) = p => i + Len(p) = Len(h)
<1>1. Len(h) \in Nat /\ DOMAIN h = 1..Len(h) /\ Len(p) \in Nat \ {0}
  BY DEF Texts
<1>2. \A i, j \in DOMAIN h : SubSeq(h, i, j) = p => j = i + Len(p) - 1
  <2> SUFFICES ASSUME NEW i \in DOMAIN h, NEW j \in DOMAIN h, SubSeq(h, i, j) = p
               PROVE  j = i + Len(p) - 1
    OBVIOUS
  <2>1. Len(SubSeq(h, i, j)) = IF i <= j THEN j - i + 1 ELSE 0
    BY <1>1 DEF Texts
  <2> QED
    BY <1>1, <2>1
<1>3. ASSUME NEW i \in Occurs(h, p) PROVE \E k, j \in DOMAIN h : SubSeq(h, k, j) = p
  <2>1. i \in DOMAIN h /\ i + Len(p) - 1 \in DOMAIN h /\ SubSeq(h, i, i + Len(p) - 1) = p
    BY <1>1, <1>3 DEF Occurs
  <2> QED
    BY <2>1
<1>4. ASSUME NEW i \in DOMAIN h, NEW j \in DOMAIN h, SubSeq(h, i, j) = p PROVE i \in Occurs(h, p)
  <2>1. j = i + Len(p) - 1
    BY <1>2, <1>4
  <2>2. i \in 1..(Len(h) - Len(p) + 1)
    BY <1>1, <2>1
  <2> QED
    BY <1>4, <2>1, <2>2 DEF Occurs
<1>5. \A i \in DOMAIN h : SubSeq(h, i + 1, Len(h)) = p => i + Len(p) = Len(h)
  BY <1>1 DEF Texts
<1> QED
  BY <1>3, <1>4, <1>5

\* rfind of "." and the suffix is at the one place where a suffix can start.
LEMMA SuffixOK ==
  ASSUME NEW h \in Texts, NEW p \in Texts, p # <<>>
  PROVE  HasSuffix(h, p) <=>
            \/ h = p
            \/ \E i \in DOMAIN h : h[i] = "." /\ SubSeq(h, i + 1, Len(h)) = p
<1> DEFINE T == STRING \cup {"."}
           q == <<".">> \o p
           at == Occurs(h, q)
           k == Len(h) - Len(p)
<1>1. Len(h) \in Nat /\ DOMAIN h = 1..Len(h) /\ Len(p) \in Nat \ {0} /\ h \in Seq(T) /\ p \in Seq(T)
  BY DEF Texts
<1>2. q \in Seq(T) /\ Len(q) = 1 + Len(p) /\ q[1] = "." /\ \A i \in 1..Len(p) : q[1 + i] = p[i]
  <2> DEFINE d == <<".">>
  <2>1. d \in Seq(T) /\ Len(d) = 1 /\ d[1] = "."
    OBVIOUS
  <2> HIDE DEF d, T
  <2>2. /\ d \o p \in Seq(T) /\ Len(d \o p) = Len(d) + Len(p)
        /\ \A i \in 1..Len(d) : (d \o p)[i] = d[i]
        /\ \A i \in 1..Len(p) : (d \o p)[Len(d) + i] = p[i]
    <3>1. d \in Seq(T) /\ p \in Seq(T)
      BY <1>1, <2>1
    <3> QED
      BY <3>1, Appended
  <2> QED
    BY <2>1, <2>2 DEF d
<1> HIDE DEF q, T
<1>3. ASSUME k >= 1
      PROVE  SubSeq(h, k, Len(h)) = q <=> h[k] = "." /\ SubSeq(h, k + 1, Len(h)) = p
  <2> DEFINE a == SubSeq(h, k, Len(h))
             b == SubSeq(h, k + 1, Len(h))
  <2>1. k \in 1..Len(h) /\ k + 1 \in 1..Len(h)
    BY <1>1, <1>3
  <2>2. a \in Seq(T) /\ Len(a) = Len(p) + 1 /\ \A i \in 1..(Len(p) + 1) : a[i] = h[k + i - 1]
    BY <1>1, <2>1
  <2>3. b \in Seq(T) /\ Len(b) = Len(p) /\ \A i \in 1..Len(p) : b[i] = h[k + i]
    BY <1>1, <2>1
  <2> HIDE DEF a, b, k
  <2>4. a[1] = h[k] /\ \A i \in 1..Len(p) : a[1 + i] = b[i]
    <3>1. 1 \in 1..(Len(p) + 1) /\ k + 1 - 1 = k
      BY <1>1, <2>1
    <3>2. \A i \in 1..Len(p) : 1 + i \in 1..(Len(p) + 1) /\ k + (1 + i) - 1 = k + i
      BY <1>1, <2>1
    <3> QED
      BY <2>2, <2>3, <3>1, <3>2
  <2>5. ASSUME a = q PROVE h[k] = "." /\ b = p
    <3>1. \A i \in 1..Len(p) : b[i] = p[i]
      BY <1>2, <2>4, <2>5
    <3> QED
      BY <1>1, <1>2, <2>3, <2>4, <2>5, <3>1, Same
  <2>6. ASSUME h[k] = ".", b = p PROVE a = q
    <3>1. \A i \in 1..(Len(p) + 1) : a[i] = q[i]
      <4> SUFFICES ASSUME NEW i \in 1..(Len(p) + 1) PROVE a[i] = q[i]
        OBVIOUS
      <4>1. CASE i = 1
        BY <1>2, <2>4, <2>6, <4>1
      <4>2. CASE i # 1
        <5>1. i - 1 \in 1..Len(p) /\ 1 + (i - 1) = i
          BY <1>1, <4>2
        <5> QED
          BY <1>2, <2>4, <2>6, <5>1
      <4> QED
        BY <4>1, <4>2
    <3>2. Len(a) = Len(q) /\ Len(a) = Len(p) + 1
      BY <1>1, <1>2, <2>2
    <3> QED
      BY <1>2, <2>2, <3>1, <3>2, Same
  <2> QED
    BY <2>5, <2>6 DEF a, b
<1>4. k \in Int /\ at = {i \in 1..k : SubSeq(h, i, i + Len(p)) = q} /\ k + Len(p) = Len(h)
  <2>1. Len(h) - Len(q) + 1 = k /\ \A i \in Int : i + Len(q) - 1 = i + Len(p)
    BY <1>1, <1>2
  <2>2. \A i \in 1..k : i \in Int
    OBVIOUS
  <2> HIDE DEF k
  <2> QED
    BY <1>1, <2>1, <2>2 DEF Occurs, k
<1> HIDE DEF at
<1>5. (Len(h) > Len(p) /\ at # {} /\ Max(at) = k) <=> (k >= 1 /\ SubSeq(h, k, Len(h)) = q)
  <2>1. ASSUME at # {} PROVE Max(at) \in at /\ \A y \in at : y <= Max(at)
    <3>1. at \subseteq 0..Len(h)
      BY <1>1, <1>4
    <3> QED
      BY <1>1, <2>1, <3>1, MaxOK
  <2>2. ASSUME at # {}, Max(at) = k PROVE k >= 1 /\ SubSeq(h, k, Len(h)) = q
    <3>1. k \in at
      BY <2>1, <2>2
    <3> HIDE DEF k
    <3> QED
      BY <1>4, <3>1
  <2>3. ASSUME k >= 1, SubSeq(h, k, Len(h)) = q PROVE Len(h) > Len(p) /\ at # {} /\ Max(at) = k
    <3>1. k \in at
      BY <1>4, <2>3
    <3>2. Max(at) \in 1..k /\ k <= Max(at)
      BY <1>4, <2>1, <3>1
    <3>3. k \in Int /\ k + Len(p) = Len(h)
      BY <1>4
    <3> HIDE DEF k
    <3>4. Max(at) = k
      BY <3>2, <3>3
    <3> QED
      BY <1>1, <2>3, <3>1, <3>3, <3>4
  <2> QED
    BY <2>2, <2>3
<1>6. (\E i \in DOMAIN h : h[i] = "." /\ SubSeq(h, i + 1, Len(h)) = p)
      <=> (k >= 1 /\ h[k] = "." /\ SubSeq(h, k + 1, Len(h)) = p)
  <2>1. \A i \in DOMAIN h : SubSeq(h, i + 1, Len(h)) = p => i = k
    <3>1. \A i \in DOMAIN h : SubSeq(h, i + 1, Len(h)) = p => i + Len(p) = Len(h)
      BY OccursAt
    <3> QED
      BY <1>1, <3>1
  <2>2. k >= 1 => k \in DOMAIN h
    BY <1>1
  <2>3. \A i \in DOMAIN h : i >= 1
    BY <1>1
  <2> HIDE DEF k
  <2> QED
    BY <2>1, <2>2, <2>3
<1> QED
  BY <1>3, <1>5, <1>6 DEF HasSuffix, at, q
\* The addresses of a block are those with its leading bits.
LEMMA BlockOK ==
  ASSUME NEW a, NEW b, NEW n \in 0..Width
  PROVE  a \cap Mask(n) = b \cap Mask(n) <=>
            \A x \in Bits : x >= Width - n => (x \in a <=> x \in b)
<1>1. Width \in Nat \ {0}
  BY RouterAssumption
<1>2. \A x : x \in Mask(n) <=> x \in Bits /\ x >= Width - n
  <2>1. Mask(n) = (Width - n)..(Width - 1) /\ Width - n \in 0..Width
    BY MaskOK
  <2> QED
    BY <1>1, <2>1 DEF Bits
<1> QED
  BY <1>2

LEMMA MatchesOK ==
  ASSUME NEW line \in Lines, Sound(line), NEW host \in Hosts
  PROVE  Matches(RuleFor(line), host) <=> Documented(line, host)
<1> DEFINE h == Lower(host)
           s == Trim(line[2])
           p == Lower(s)
           r == RuleFor(line)
<1>1. PICK w \in Types : line[1] = <<w>>
  BY LineOK, SoundTokens
<1>2. h \in Texts /\ host \in Texts
  BY RouterAssumption, LowerOK DEF Texts
<1>3. line[1] # <<"FINAL">> => s \in Texts /\ s # <<>> /\ p \in Texts /\ p # <<>>
  <2> SUFFICES ASSUME line[1] # <<"FINAL">> PROVE s \in Texts /\ s # <<>> /\ p \in Texts /\ p # <<>>
    OBVIOUS
  <2>1. s \in Inked
    BY LineOK, SoundTokens
  <2>2. s \in Texts /\ s # <<>>
    BY <2>1 DEF Inked
  <2>3. Len(s) # 0
    BY <2>2 DEF Texts
  <2>4. p \in Texts /\ Len(p) # 0
    BY <2>2, <2>3, LowerOK
  <2>5. p # <<>>
    BY <2>4
  <2> QED
    BY <2>2, <2>4, <2>5
<1>4. r.type = w
  <2>1. line[1] = <<r.type>>
    BY RulesOfSound
  <2> QED
    BY <1>1, <2>1
<1>5. Matches(r, host) =
         CASE r.type = "DOMAIN-SUFFIX"  -> HasSuffix(h, r.pattern)
           [] r.type = "DOMAIN-KEYWORD" -> Occurs(h, r.pattern) # {}
           [] r.type = "DOMAIN"         -> h = r.pattern
           [] r.type = "IP-CIDR" -> IsIPv4(host) /\ IpInCidr(AddressOf[host[1]], r)
           [] r.type = "FINAL"          -> TRUE
  BY DEF Matches
<1>6. Documented(line, host) =
         CASE line[1] = <<"DOMAIN-SUFFIX">> ->
                 \/ h = p
                 \/ \E i \in DOMAIN h : h[i] = "." /\ SubSeq(h, i + 1, Len(h)) = p
           [] line[1] = <<"DOMAIN-KEYWORD">> ->
                 \E i, j \in DOMAIN h : SubSeq(h, i, j) = p
           [] line[1] = <<"DOMAIN">> -> h = p
           [] line[1] = <<"IP-CIDR">> ->
                 /\ IsIPv4(host)
                 /\ \A b \in Bits : b >= Width - Leading(s) =>
                       (b \in AddressOf[host[1]] <=> b \in AddressOf[s[1]])
           [] line[1] = <<"FINAL">> -> TRUE
  BY DEF Documented, Leading
<1>7. w \in {"DOMAIN-SUFFIX", "DOMAIN-KEYWORD", "DOMAIN"} => r.pattern = p
  BY <1>1 DEF RuleFor, RuleOf
<1> HIDE DEF h, p
<1>8. CASE w = "DOMAIN-SUFFIX"
  <2>1. Matches(r, host) <=> HasSuffix(h, p)
    <3> HIDE DEF r
    <3> QED
      BY <1>4, <1>5, <1>7, <1>8
  <2>2. Documented(line, host) <=>
           \/ h = p
           \/ \E i \in DOMAIN h : h[i] = "." /\ SubSeq(h, i + 1, Len(h)) = p
    BY <1>1, <1>6, <1>8
  <2>3. p \in Texts /\ p # <<>>
    BY <1>1, <1>3, <1>8
  <2> QED
    BY <1>2, <2>1, <2>2, <2>3, SuffixOK
<1>9. CASE w = "DOMAIN-KEYWORD"
  <2>1. Matches(r, host) <=> Occurs(h, p) # {}
    <3> HIDE DEF r
    <3> QED
      BY <1>4, <1>5, <1>7, <1>9
  <2>2. Documented(line, host) <=> \E i, j \in DOMAIN h : SubSeq(h, i, j) = p
    BY <1>1, <1>6, <1>9
  <2>3. p \in Texts /\ p # <<>>
    BY <1>1, <1>3, <1>9
  <2> QED
    BY <1>2, <2>1, <2>2, <2>3, OccursAt
<1>10. CASE w = "DOMAIN"
  <2>1. Matches(r, host) <=> h = p
    <3> HIDE DEF r
    <3> QED
      BY <1>4, <1>5, <1>7, <1>10
  <2>2. Documented(line, host) <=> h = p
    <3>1. line[1] = <<"DOMAIN">> /\ line[1] # <<"DOMAIN-SUFFIX">> /\ line[1] # <<"DOMAIN-KEYWORD">>
          /\ line[1] # <<"IP-CIDR">> /\ line[1] # <<"FINAL">>
      BY <1>1, <1>10
    <3> QED
      BY <1>6, <3>1
  <2> QED
    BY <2>1, <2>2
<1>11. CASE w = "IP-CIDR"
  <2> DEFINE n == Leading(s)
             a == AddressOf[host[1]]
             c == AddressOf[s[1]]
  <2>1. Matches(r, host) <=> IsIPv4(host) /\ a \cap r.mask = r.base
    <3> HIDE DEF r
    <3> QED
      BY <1>4, <1>5, <1>11 DEF IpInCidr
  <2>2. Documented(line, host) <=>
           IsIPv4(host) /\ \A b \in Bits : b >= Width - n => (b \in a <=> b \in c)
    BY <1>1, <1>6, <1>11
  <2>3. n \in 0..Width
    BY <1>1, <1>11, RulesOfSound
  <2>4. r.base = c \cap Mask(n) /\ r.mask = Mask(n)
    <3>1. r = RuleOf("IP-CIDR", s, Written(line), Block(c, n))
      BY <1>1, <1>11 DEF RuleFor
    <3>2. Block(c, n).base = c \cap Mask(n) /\ Block(c, n).mask = Mask(n)
      BY DEF Block
    <3> QED
      BY <3>1, <3>2 DEF RuleOf
  <2> HIDE DEF n, a, c
  <2>5. a \cap Mask(n) = c \cap Mask(n) <=>
           \A b \in Bits : b >= Width - n => (b \in a <=> b \in c)
    BY <2>3, BlockOK
  <2> HIDE DEF r
  <2>6. Matches(r, host) <=> IsIPv4(host) /\ a \cap Mask(n) = c \cap Mask(n)
    BY <2>1, <2>4
  <2>7. Matches(r, host) <=> Documented(line, host)
    BY <2>2, <2>5, <2>6
  <2> QED
    BY <2>7 DEF r
<1>12. CASE w = "FINAL"
  <2>1. Matches(r, host) <=> TRUE
    <3> HIDE DEF r
    <3> QED
      BY <1>4, <1>5, <1>12
  <2>2. Documented(line, host) <=> TRUE
    BY <1>1, <1>6, <1>12
  <2> QED
    BY <2>1, <2>2
<1> QED
  BY <1>8, <1>9, <1>10, <1>11, <1>12 DEF Types
-----------------------------------------------------------------------------
(* The invariant. *)

Gives(line) == RulesOf(line).rules # <<>>
RuleIn(line) == RulesOf(line).rules[1]
Made == {RuleIn(line) : line \in {l \in Lines : Gives(l)}}

\* What match answers with these rules.
FirstAnswer(rs, host, default) ==
    LET i == SelectInSeq(rs, LAMBDA r : Matches(r, host)) IN
    IF i = 0 THEN default ELSE rs[i].action

RouterData ==
    /\ lines \in Seq(Lines) /\ Len(lines) <= MaxLines /\ next \in 1..(Len(lines) + 1)
    /\ rules \in Seq(Made) /\ policy \in Actions /\ crashed \in BOOLEAN

\* at[i] is where the rule of the i-th line is.
Placed(at, n) ==
    LET giving == {i \in 1..(n - 1) : Gives(lines[i])} IN
    /\ at \in [giving -> DOMAIN rules]
    /\ \A i, j \in giving : i < j => at[i] < at[j]
    /\ \A k \in DOMAIN rules : \E i \in giving : at[i] = k
    /\ \A i \in giving : rules[at[i]] = RuleIn(lines[i])
RulesPlaced == \E at : Placed(at, next)

\* While every line is sound, a rule has the number of its line.
SoundSoFar ==
    (\A i \in 1..(next - 1) : Sound(lines[i])) =>
       Len(rules) = next - 1 /\ \A i \in 1..(next - 1) : rules[i] = RuleFor(lines[i])

AnsweredByRules ==
    asked = NotAsked \/ /\ Loaded /\ asked.host \in Hosts
                        /\ asked.answer = FirstAnswer(rules, asked.host, policy)

RouterInv == RouterData /\ RulesPlaced /\ SoundSoFar /\ AnsweredByRules

LEMMA MadeTyped ==
  ASSUME NEW r \in Made
  PROVE  RuleTyped(r)
<1>1. PICK line \in Lines : Gives(line) /\ r = RuleIn(line)
  BY DEF Made
<1>2. PICK q : RuleTyped(q) /\ RulesOf(line).rules = <<q>>
  BY <1>1, RulesOfOK DEF Gives
<1>3. r = q
  BY <1>1, <1>2 DEF RuleIn
<1> QED
  BY <1>2, <1>3

LEMMA FirstAnswerOK ==
  ASSUME NEW rs \in Seq(Made), NEW host, NEW default \in Actions
  PROVE  FirstAnswer(rs, host, default) \in Actions
<1> DEFINE I == {i \in 1..Len(rs) : Matches(rs[i], host)}
           k == SelectInSeq(rs, LAMBDA r : Matches(r, host))
<1>1. k = IF I # {} THEN Min(I) ELSE 0
  BY DEF SelectInSeq
<1>2. I \subseteq Nat /\ I \subseteq 1..Len(rs)
  OBVIOUS
<1>3. FirstAnswer(rs, host, default) = IF k = 0 THEN default ELSE rs[k].action
  BY DEF FirstAnswer
<1> HIDE DEF I, k
<1>4. k = 0 \/ k \in 1..Len(rs)
  BY <1>1, <1>2, MinOK
<1>5. k \in 1..Len(rs) => rs[k].action \in Actions
  <2>1. k \in 1..Len(rs) => rs[k] \in Made
    OBVIOUS
  <2> QED
    BY <2>1, MadeTyped DEF RuleTyped
<1> QED
  BY <1>3, <1>4, <1>5

-----------------------------------------------------------------------------
(* The steps. *)

LEMMA RouterInitial ==
  ASSUME RouterInit
  PROVE  RouterInv
<1> USE DEF RouterInit
<1>1. lines = <<>> /\ Len(lines) = 0 /\ next = 1 /\ rules = <<>> /\ Len(rules) = 0 /\ DOMAIN rules = {}
  OBVIOUS
<1>2. RouterData
  <2>1. lines \in Seq(Lines) /\ rules \in Seq(Made) /\ MaxLines \in Nat
    BY <1>1, RouterAssumption
  <2>2. Len(lines) <= MaxLines /\ next \in 1..(Len(lines) + 1)
    BY <1>1, <2>1
  <2>3. policy \in Actions /\ crashed \in BOOLEAN
    BY DEF Actions
  <2> QED
    BY <2>1, <2>2, <2>3 DEF RouterData
<1>3. Placed(<<>>, next)
  <2>1. {i \in 1..(next - 1) : Gives(lines[i])} = {}
    BY <1>1
  <2>2. <<>> \in [{} -> {}]
    OBVIOUS
  <2> QED
    BY <1>1, <2>1, <2>2 DEF Placed
<1>4. SoundSoFar
  BY <1>1 DEF SoundSoFar
<1> QED
  BY <1>2, <1>3, <1>4 DEF RouterInv, RulesPlaced, AnsweredByRules

LEMMA LoadBeginKeeps ==
  ASSUME RouterInv, NEW n \in 0..MaxLines, NEW ls \in [1..n -> Lines],
         NEW d \in {"DIRECT", "PROXY"}, LoadBegin(ls, d)
  PROVE  RouterInv'
<1>1. /\ lines' = ls /\ next' = 1 /\ rules' = <<>> /\ policy' = d /\ asked' = NotAsked
      /\ crashed' = crashed /\ crashed \in BOOLEAN
  BY DEF LoadBegin, RouterInv, RouterData
<1>2. ls \in Seq(Lines) /\ Len(ls) = n /\ n \in Nat /\ n <= MaxLines
  BY RouterAssumption
<1>3. Len(rules') = 0 /\ DOMAIN rules' = {}
  BY <1>1
<1>4. RouterData'
  <2>1. rules' \in Seq(Made)
    BY <1>1
  <2>2. next' \in 1..(Len(lines') + 1) /\ policy' \in Actions
    BY <1>1, <1>2 DEF Actions
  <2> QED
    BY <1>1, <1>2, <2>1, <2>2 DEF RouterData
<1>5. Placed(<<>>, next)'
  <2>1. {i \in 1..(next' - 1) : Gives(lines'[i])} = {}
    BY <1>1
  <2>2. <<>> \in [{} -> {}]
    OBVIOUS
  <2> QED
    BY <1>3, <2>1, <2>2 DEF Placed
<1>6. SoundSoFar'
  BY <1>1, <1>3 DEF SoundSoFar
<1>7. RulesPlaced'
  BY <1>5 DEF RulesPlaced
<1>8. AnsweredByRules'
  BY <1>1 DEF AnsweredByRules
<1> QED
  BY <1>4, <1>6, <1>7, <1>8 DEF RouterInv

LEMMA LoadLineKeeps ==
  ASSUME RouterInv, LoadLine
  PROVE  RouterInv'
<1> DEFINE line == lines[next]
           g == RulesOf(line)
<1>1. /\ lines \in Seq(Lines) /\ Len(lines) \in Nat /\ Len(lines) <= MaxLines
      /\ next \in 1..(Len(lines) + 1) /\ rules \in Seq(Made) /\ Len(rules) \in Nat
      /\ policy \in Actions
  BY DEF RouterInv, RouterData
<1>2. /\ ~Loaded /\ ~crashed /\ next' = next + 1 /\ lines' = lines /\ policy' = policy
      /\ asked' = asked /\ rules' = rules \o g.rules /\ crashed' = g.throws
  BY DEF LoadLine
<1>3. next \in 1..Len(lines) /\ line \in Lines
  BY <1>1, <1>2 DEF Loaded
<1>4. asked' = NotAsked
  BY <1>2 DEF RouterInv, AnsweredByRules
<1>5. g.throws \in BOOLEAN /\ (g.rules = <<>> \/ \E r : g.rules = <<r>>)
  BY <1>3, RulesOfOK
<1>6. Gives(line) => g.rules = <<RuleIn(line)>> /\ RuleIn(line) \in Made
  <2> SUFFICES ASSUME Gives(line) PROVE g.rules = <<RuleIn(line)>> /\ RuleIn(line) \in Made
    OBVIOUS
  <2>1. PICK r : g.rules = <<r>>
    BY <1>5 DEF Gives
  <2>2. RuleIn(line) = r
    BY <2>1 DEF RuleIn
  <2> QED
    BY <1>3, <2>1, <2>2 DEF Made
<1> DEFINE r == RuleIn(line)
<1>7. Gives(line) => /\ rules' \in Seq(Made) /\ Len(rules') = Len(rules) + 1
                     /\ rules'[Len(rules) + 1] = r /\ \A k \in 1..Len(rules) : rules'[k] = rules[k]
  <2> SUFFICES ASSUME Gives(line)
               PROVE  /\ rules' \in Seq(Made) /\ Len(rules') = Len(rules) + 1
                      /\ rules'[Len(rules) + 1] = r /\ \A k \in 1..Len(rules) : rules'[k] = rules[k]
    OBVIOUS
  <2>1. rules' = rules \o <<r>> /\ r \in Made
    BY <1>2, <1>6
  <2> HIDE DEF r
  <2>2. rules \in Seq(Made) /\ <<r>> \in Seq(Made) /\ Len(<<r>>) = 1 /\ <<r>>[1] = r
    BY <1>1, <2>1
  <2> DEFINE b == <<r>>
  <2>3. rules \in Seq(Made) /\ b \in Seq(Made)
    BY <2>2
  <2> HIDE DEF b
  <2>4. /\ rules \o b \in Seq(Made) /\ Len(rules \o b) = Len(rules) + Len(b)
        /\ \A i \in 1..Len(rules) : (rules \o b)[i] = rules[i]
        /\ \A i \in 1..Len(b) : (rules \o b)[Len(rules) + i] = b[i]
    BY <2>3, Appended
  <2> QED
    BY <2>1, <2>2, <2>4 DEF b
<1>8. ~Gives(line) => rules' = rules
  BY <1>1, <1>2 DEF Gives
<1> HIDE DEF line, g, r
<1>9. RouterData'
  <2>1. rules' \in Seq(Made)
    BY <1>1, <1>7, <1>8
  <2>2. next + 1 \in 1..(Len(lines) + 1)
    BY <1>1, <1>3
  <2> QED
    BY <1>1, <1>2, <1>5, <2>1, <2>2 DEF RouterData
<1>10. RulesPlaced'
  <2> DEFINE giving == {i \in 1..(next - 1) : Gives(lines[i])}
             giving2 == {i \in 1..(next' - 1) : Gives(lines'[i])}
             m == Len(rules)
  <2>1. PICK at : Placed(at, next)
    BY DEF RouterInv, RulesPlaced
  <2>2. /\ at \in [giving -> DOMAIN rules]
        /\ \A i, j \in giving : i < j => at[i] < at[j]
        /\ \A k \in DOMAIN rules : \E i \in giving : at[i] = k
        /\ \A i \in giving : rules[at[i]] = RuleIn(lines[i])
    BY <2>1 DEF Placed
  <2>3. giving2 = IF Gives(line) THEN giving \cup {next} ELSE giving
    <3>1. 1..(next' - 1) = 1..(next - 1) \cup {next}
      BY <1>1, <1>2
    <3> QED
      BY <1>2, <3>1 DEF line
  <2>4. \A i \in giving : i < next /\ i # next /\ i \in Int
    BY <1>1
  <2>5. DOMAIN rules = 1..m /\ m \in Nat
    BY <1>1
  <2> HIDE DEF giving, giving2
  <2>6. CASE ~Gives(line)
    <3>1. rules' = rules /\ giving2 = giving
      BY <1>8, <2>3, <2>6
    <3>2. Placed(at, next)'
      BY <1>2, <2>2, <3>1 DEF Placed, giving2
    <3> QED
      BY <3>2 DEF RulesPlaced
  <2>7. CASE Gives(line)
    <3> DEFINE new == [i \in giving2 |-> IF i = next THEN m + 1 ELSE at[i]]
    <3>1. giving2 = giving \cup {next}
      BY <2>3, <2>7
    <3>2. new[next] = m + 1 /\ \A i \in giving : new[i] = at[i] /\ at[i] \in 1..m
      BY <2>2, <2>4, <2>5, <3>1
    <3>3. DOMAIN rules' = 1..(m + 1)
      BY <1>7, <2>5, <2>7
    <3>4. new \in [giving2 -> DOMAIN rules']
      BY <2>2, <2>4, <2>5, <3>1, <3>3
    <3> HIDE DEF new
    <3>5. ASSUME NEW i \in giving2, NEW j \in giving2, i < j PROVE new[i] < new[j]
      <4>1. i \in giving
        BY <1>1, <2>4, <3>1, <3>5
      <4>2. CASE j = next
        BY <2>5, <3>2, <4>1, <4>2
      <4>3. CASE j \in giving
        BY <2>2, <3>2, <3>5, <4>1, <4>3
      <4> QED
        BY <3>1, <4>2, <4>3
    <3>6. ASSUME NEW k \in DOMAIN rules' PROVE \E i \in giving2 : new[i] = k
      <4>1. CASE k = m + 1
        BY <3>1, <3>2, <4>1
      <4>2. CASE k \in 1..m
        <5>1. PICK i \in giving : at[i] = k
          BY <2>2, <2>5, <4>2
        <5> QED
          BY <3>1, <3>2, <5>1
      <4> QED
        BY <2>5, <3>3, <4>1, <4>2
    <3>7. ASSUME NEW i \in giving2 PROVE rules'[new[i]] = RuleIn(lines'[i])
      <4>1. CASE i = next
        BY <1>2, <1>7, <2>7, <3>2, <4>1 DEF line, r
      <4>2. CASE i \in giving
        BY <1>2, <1>7, <2>2, <2>7, <3>2, <4>2
      <4> QED
        BY <3>1, <4>1, <4>2
    <3>8. PICK f : /\ f \in [giving2 -> DOMAIN rules']
                   /\ \A i, j \in giving2 : i < j => f[i] < f[j]
                   /\ \A k \in DOMAIN rules' : \E i \in giving2 : f[i] = k
                   /\ \A i \in giving2 : rules'[f[i]] = RuleIn(lines'[i])
      BY <3>4, <3>5, <3>6, <3>7
    <3>9. Placed(f, next)'
      BY <3>8 DEF Placed, giving2
    <3> QED
      BY <3>9 DEF RulesPlaced
  <2> QED
    BY <2>6, <2>7
<1>11. SoundSoFar'
  <2> SUFFICES ASSUME \A i \in 1..next : Sound(lines[i])
               PROVE  Len(rules') = next /\ \A i \in 1..next : rules'[i] = RuleFor(lines[i])
    BY <1>1, <1>2 DEF SoundSoFar
  <2>1. \A i \in 1..(next - 1) : i \in 1..next
    BY <1>1
  <2>2. Len(rules) = next - 1 /\ \A i \in 1..(next - 1) : rules[i] = RuleFor(lines[i])
    BY <2>1 DEF RouterInv, SoundSoFar
  <2>3. next \in 1..next /\ Sound(line)
    BY <1>1 DEF line
  <2>4. g.rules = <<RuleFor(line)>>
    BY <1>3, <2>3, RulesOfSound DEF g
  <2>5. Gives(line) /\ r = RuleFor(line)
    BY <2>4 DEF Gives, RuleIn, g, r
  <2>6. Len(rules') = next
    BY <1>1, <1>7, <2>2, <2>5
  <2>7. ASSUME NEW i \in 1..next PROVE rules'[i] = RuleFor(lines[i])
    <3>1. CASE i = next
      BY <1>1, <1>7, <2>2, <2>5, <3>1 DEF line
    <3>2. CASE i \in 1..(next - 1)
      BY <1>7, <2>2, <2>5, <3>2
    <3> QED
      BY <1>1, <3>1, <3>2
  <2> QED
    BY <2>6, <2>7
<1>12. AnsweredByRules'
  BY <1>4 DEF AnsweredByRules
<1> QED
  BY <1>9, <1>10, <1>11, <1>12 DEF RouterInv

LEMMA MatchKeeps ==
  ASSUME RouterInv, NEW h \in Hosts, Match(h)
  PROVE  RouterInv'
<1>1. Loaded /\ UNCHANGED <<lines, next, rules, policy, crashed>>
      /\ asked' = [host |-> h, answer |-> FirstAnswer(rules, h, policy)]
  BY DEF Match, FirstAnswer
<1>2. RouterData' /\ RulesPlaced' /\ SoundSoFar'
  BY <1>1 DEF RouterInv, RouterData, RulesPlaced, Placed, SoundSoFar
<1>3. asked'.host = h /\ asked'.answer = FirstAnswer(rules', asked'.host, policy')
  BY <1>1
<1>4. AnsweredByRules'
  BY <1>1, <1>3 DEF AnsweredByRules, Loaded
<1> QED
  BY <1>2, <1>4 DEF RouterInv

\* The invariant holds in every reachable state.
THEOREM RouterInvariant == RouterSpec => []RouterInv
<1>1. RouterInit => RouterInv
  BY RouterInitial
<1>2. RouterInv /\ [RouterNext]_routerVars => RouterInv'
  <2> SUFFICES ASSUME RouterInv, [RouterNext]_routerVars PROVE RouterInv'
    OBVIOUS
  <2>1. CASE LoadLine
    BY <2>1, LoadLineKeeps
  <2>2. ASSUME NEW h \in Hosts, Match(h) PROVE RouterInv'
    BY <2>2, MatchKeeps
  <2>3. ASSUME NEW n \in 0..MaxLines, NEW ls \in [1..n -> Lines], NEW d \in {"DIRECT", "PROXY"},
               LoadBegin(ls, d)
        PROVE  RouterInv'
    BY <2>3, LoadBeginKeeps
  <2>4. CASE UNCHANGED routerVars
    BY <2>4 DEF routerVars, RouterInv, RouterData, RulesPlaced, Placed, SoundSoFar,
                AnsweredByRules, Loaded
  <2> QED
    BY <2>1, <2>2, <2>3, <2>4 DEF RouterNext
<1> QED
  BY <1>1, <1>2, PTL DEF RouterSpec
\* Every rule that has been loaded is well formed, whatever the lines are: its
\* pattern is not blank and its block's base is within its mask (router.cpp).
THEOREM RouterTypeCorrect == RouterSpec => []RouterTypeOK
<1>1. RouterInv => RouterTypeOK
  <2> SUFFICES ASSUME RouterInv PROVE RouterTypeOK
    OBVIOUS
  <2>1. RouterData /\ AnsweredByRules
    BY DEF RouterInv
  <2>2. asked.answer \in Actions \cup {"none"}
    BY <2>1, FirstAnswerOK DEF AnsweredByRules, RouterData, NotAsked
  <2>3. \A i \in DOMAIN rules : RuleTyped(rules[i])
    <3>1. \A i \in DOMAIN rules : rules[i] \in Made
      BY <2>1 DEF RouterData
    <3> QED
      BY <3>1, MadeTyped
  <2> QED
    BY <2>1, <2>2, <2>3 DEF RouterTypeOK, RouterData, RuleTyped
<1> QED
  BY <1>1, RouterInvariant, PTL

\* With a configuration of sound lines, match answers by the first line whose
\* documented meaning fits the host: rfind's suffix, the masks of IpInCidr and
\* the order of the rules do what src/src/cli.cpp:119-123 says they do.
THEOREM AnswerAsDocumentedCorrect == RouterSpec => []AnswerAsDocumented
<1>1. RouterInv => AnswerAsDocumented
  <2> SUFFICES ASSUME RouterInv, asked # NotAsked, \A i \in DOMAIN lines : Sound(lines[i])
               PROVE  LET i == SelectInSeq(lines, LAMBDA l : Documented(l, asked.host)) IN
                      <<asked.answer>> = IF i = 0 THEN <<policy>> ELSE Written(lines[i])
    BY DEF AnswerAsDocumented
  <2> DEFINE host == asked.host
             I == {i \in 1..Len(lines) : Documented(lines[i], host)}
             k == SelectInSeq(lines, LAMBDA l : Documented(l, asked.host))
  <2>1. /\ Loaded /\ host \in Hosts /\ asked.answer = FirstAnswer(rules, host, policy)
        /\ lines \in Seq(Lines) /\ Len(lines) \in Nat /\ next \in 1..(Len(lines) + 1)
    BY DEF RouterInv, AnsweredByRules, RouterData
  <2>2. next = Len(lines) + 1 /\ DOMAIN lines = 1..Len(lines)
    BY <2>1 DEF Loaded
  <2>3. Len(rules) = Len(lines) /\ \A i \in 1..Len(lines) : rules[i] = RuleFor(lines[i])
    <3>1. next - 1 = Len(lines)
      BY <2>1, <2>2
    <3> QED
      BY <2>2, <3>1 DEF RouterInv, SoundSoFar
  <2>4. \A i \in 1..Len(lines) : lines[i] \in Lines /\ Sound(lines[i])
    BY <2>1, <2>2
  <2> HIDE DEF host
  <2>5. \A i \in 1..Len(lines) : Matches(rules[i], host) <=> Documented(lines[i], host)
    BY <2>1, <2>3, <2>4, MatchesOK
  <2>6. SelectInSeq(rules, LAMBDA r : Matches(r, host)) = k
    <3> DEFINE J == {i \in 1..Len(rules) : Matches(rules[i], host)}
    <3>1. I = J
      BY <2>3, <2>5
    <3>2. SelectInSeq(rules, LAMBDA r : Matches(r, host)) = IF J # {} THEN Min(J) ELSE 0
      BY DEF SelectInSeq
    <3>3. k = IF I # {} THEN Min(I) ELSE 0
      BY DEF SelectInSeq, host
    <3> HIDE DEF I, J, k
    <3> QED
      BY <3>1, <3>2, <3>3
  <2>7. asked.answer = IF k = 0 THEN policy ELSE rules[k].action
    BY <2>1, <2>6 DEF FirstAnswer
  <2>8. k = 0 \/ k \in 1..Len(lines)
    <3>1. k = IF I # {} THEN Min(I) ELSE 0
      BY DEF SelectInSeq, host
    <3>2. I \subseteq Nat /\ I \subseteq 1..Len(lines)
      OBVIOUS
    <3> HIDE DEF I, k
    <3> QED
      BY <3>1, <3>2, MinOK
  <2>9. k \in 1..Len(lines) => Written(lines[k]) = <<rules[k].action>>
    <3> HIDE DEF k
    <3> QED
      BY <2>3, <2>4, RulesOfSound
  <2>10. <<asked.answer>> = IF k = 0 THEN <<policy>> ELSE Written(lines[k])
    <3>1. k \in 1..Len(lines) => k # 0
      OBVIOUS
    <3> HIDE DEF k
    <3> QED
      BY <2>7, <2>8, <2>9, <3>1
  <2> QED
    BY <2>10
<1> QED
  BY <1>1, RouterInvariant, PTL

\* Once load_rules has returned, every sound line is one of the rules, in the
\* order of the lines, whatever else the configuration holds.
THEOREM SoundLinesLoadCorrect == RouterSpec => []SoundLinesLoad
<1>1. RouterInv => SoundLinesLoad
  <2> SUFFICES ASSUME RouterInv, Loaded PROVE SoundLinesLoad
    BY DEF SoundLinesLoad
  <2> DEFINE giving == {i \in DOMAIN lines : RulesOf(lines[i]).rules # <<>>}
  <2>1. lines \in Seq(Lines) /\ Len(lines) \in Nat /\ next \in 1..(Len(lines) + 1)
    BY DEF RouterInv, RouterData
  <2>2. DOMAIN lines = 1..(next - 1) /\ DOMAIN lines = 1..Len(lines)
    BY <2>1 DEF Loaded
  <2>3. PICK at : Placed(at, next)
    BY DEF RouterInv, RulesPlaced
  <2>4. giving = {i \in 1..(next - 1) : Gives(lines[i])}
    BY <2>2 DEF Gives
  <2> HIDE DEF giving
  <2>5. /\ at \in [giving -> DOMAIN rules]
        /\ \A i, j \in giving : i < j => at[i] < at[j]
        /\ \A k \in DOMAIN rules : \E i \in giving : at[i] = k
        /\ \A i \in giving : rules[at[i]] = RuleIn(lines[i])
    BY <2>3, <2>4 DEF Placed
  <2>6. ASSUME NEW i \in DOMAIN lines, Sound(lines[i])
        PROVE  /\ i \in giving
               /\ lines[i][1] = <<rules[at[i]].type>>
               /\ Written(lines[i]) = <<rules[at[i]].action>>
    <3> DEFINE line == lines[i]
               q == RuleFor(line)
    <3>1. line \in Lines
      BY <2>1
    <3>2. RulesOf(line).rules = <<q>> /\ line[1] = <<q.type>> /\ Written(line) = <<q.action>>
      BY <2>6, <3>1, RulesOfSound
    <3> HIDE DEF q
    <3>3. Gives(line) /\ RuleIn(line) = q
      BY <3>2 DEF Gives, RuleIn
    <3>4. i \in giving
      BY <2>2, <2>4, <2>6, <3>3
    <3> QED
      BY <2>5, <3>2, <3>3, <3>4
  <2> QED
    BY <2>5, <2>6 DEF SoundLinesLoad, giving
<1> QED
  BY <1>1, RouterInvariant, PTL
=============================================================================
