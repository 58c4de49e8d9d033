--------------------------- MODULE ConfigFile_proofs ---------------------------
(* Theorems about ConfigFile, whatever the texts of configurations are, as *)
(* long as a text gives its configuration back and what is cut off at its  *)
(* end does not make it another's.                                         *)
EXTENDS ConfigFile, TLAPS, SequenceTheorems

-----------------------------------------------------------------------------
(* The inductive invariant.                                                *)

\* The provers do not know that what Put leaves between two blocks is a string.
Chars == STRING \cup {"zero"}

LEMMA TextType == Seq(STRING) \subseteq Seq(Chars)
BY DEF Chars

Points == {"idle", "down", "reading", "create", "creating", "edit", "save", "saving"}

TypesOK ==
    /\ at \in [Actors -> Points] /\ DOMAIN cfg = Actors
    /\ text \in [Actors -> Seq(Chars)] /\ pos \in [Actors -> Nat]
    /\ file \in Seq(Chars) /\ quiet \in BOOLEAN

\* What a process is about to write is the default or its user's edition.
HeldOK(a) ==
    /\ at[a] \in {"create", "creating"} => cfg[a] = Default
    /\ at[a] \in {"save", "saving"} => cfg[a] \in Configs

\* The one that writes, if it was the last to empty the file, has put the
\* beginning of its text into it.
WriterOK(a) ==
    at[a] \in Writing =>
       /\ text[a] = TextOf(cfg[a]) /\ pos[a] < Len(text[a]) /\ ~quiet
       /\ owner = a => file = SubSeq(text[a], 1, pos[a])

\* One that reads has read the beginning of the file.
ReaderOK(a) ==
    at[a] = "reading" /\ a \notin torn /\ owner # "several" =>
       pos[a] <= Len(file) /\ text[a] = SubSeq(file, 1, pos[a])

\* A file that one process has written is what somebody saved, or as good as
\* nothing.
ContentOK ==
    /\ file # Missing /\ owner # "several" => ConfigOf(file) \in saves \cup {Default}
    /\ quiet => owner # "several" /\ ConfigOf(file) = last

FileInv ==
    /\ TypesOK /\ ContentOK
    /\ \A a \in Actors : HeldOK(a) /\ WriterOK(a) /\ ReaderOK(a)

-----------------------------------------------------------------------------
(* Texts.                                                                  *)

\* What TextsAreWhole says of each configuration.
LEMMA EachWhole ==
  ASSUME TextsAreWhole, NEW c \in Configs
  PROVE  Whole(c)
<1> DEFINE Part(d) == IF Whole(d) THEN {d} ELSE {}
<1>1. PICK d \in Configs : c \in Part(d)
  BY DEF TextsAreWhole, WholeConfigs
<1> QED
  BY <1>1

\* The next block put at the end of a beginning makes a longer beginning.
LEMMA PutNext ==
  ASSUME NEW t \in Seq(Chars), NEW p \in Nat, NEW q \in Nat, p <= q, q <= Len(t)
  PROVE  Put(SubSeq(t, 1, p), p, SubSeq(t, p + 1, q)) = SubSeq(t, 1, q)
<1> DEFINE f == SubSeq(t, 1, p)
           block == SubSeq(t, p + 1, q)
<1>1. f = [i \in 1..p |-> t[i]] /\ Len(f) = p
  OBVIOUS
<1>2. block = [i \in 1..(q - p) |-> t[p + i]] /\ Len(block) = q - p
  OBVIOUS
<1>3. SubSeq(t, 1, q) = [i \in 1..q |-> t[i]]
  OBVIOUS
<1> HIDE DEF f, block
<1>4. Put(f, p, block) = [i \in 1..q |-> IF i > p /\ i <= q THEN block[i - p]
                                        ELSE IF i <= p THEN f[i] ELSE "zero"]
  <2>1. p + Len(block) = q
    BY <1>2
  <2>2. (IF p + Len(block) > Len(f) THEN p + Len(block) ELSE Len(f)) = q
    BY <1>1, <2>1
  <2> QED
    BY <1>1, <2>1, <2>2 DEF Put
<1>5. \A i \in 1..q : (IF i > p /\ i <= q THEN block[i - p]
                       ELSE IF i <= p THEN f[i] ELSE "zero") = t[i]
  <2> SUFFICES ASSUME NEW i \in 1..q
               PROVE (IF i > p /\ i <= q THEN block[i - p]
                      ELSE IF i <= p THEN f[i] ELSE "zero") = t[i]
    OBVIOUS
  <2>1. CASE i <= p
    BY <1>1, <2>1
  <2>2. CASE i > p
    <3>1. i - p \in 1..(q - p) /\ p + (i - p) = i
      BY <2>2
    <3> QED
      BY <1>2, <2>2, <3>1
  <2> QED
    BY <2>1, <2>2
<1>6. Put(f, p, block) = SubSeq(t, 1, q)
  BY <1>3, <1>4, <1>5
<1> QED
  BY <1>6 DEF f, block

\* A block put anywhere leaves a text.
LEMMA PutType ==
  ASSUME NEW f \in Seq(Chars), NEW p \in Nat, NEW block \in Seq(Chars)
  PROVE  Put(f, p, block) \in Seq(Chars)
<1> DEFINE n == IF p + Len(block) > Len(f) THEN p + Len(block) ELSE Len(f)
           At(i) == IF i > p /\ i <= p + Len(block) THEN block[i - p]
                    ELSE IF i <= Len(f) THEN f[i] ELSE "zero"
<1>1. n \in Nat
  OBVIOUS
<1>2. ASSUME NEW i \in 1..n
      PROVE  At(i) \in Chars
  <2>1. CASE i > p /\ i <= p + Len(block)
    <3>1. i - p \in 1..Len(block)
      BY <2>1
    <3>2. block[i - p] \in Chars
      BY <3>1
    <3> QED
      BY <2>1, <3>2
  <2>2. CASE ~(i > p /\ i <= p + Len(block)) /\ i <= Len(f)
    <3>1. f[i] \in Chars
      BY <1>1, <2>2
    <3> QED
      BY <2>2, <3>1
  <2>3. CASE ~(i > p /\ i <= p + Len(block)) /\ ~(i <= Len(f))
    BY <2>3 DEF Chars
  <2> QED
    BY <2>1, <2>2, <2>3
<1> HIDE DEF n, At
<1>3. [i \in 1..n |-> At(i)] \in Seq(Chars)
  BY <1>1, <1>2
<1>4. Put(f, p, block) = [i \in 1..n |-> At(i)]
  BY DEF Put, n, At
<1> QED
  BY <1>3, <1>4

\* What the blocks read so far and the next one make.
LEMMA ReadNext ==
  ASSUME NEW f \in Seq(Chars), NEW p \in Nat, NEW q \in Nat, p <= q, q <= Len(f)
  PROVE  /\ SubSeq(f, 1, p) \o SubSeq(f, p + 1, q) = SubSeq(f, 1, q)
         /\ SubSeq(f, 1, q) \in Seq(Chars)
<1>1. 1 \in 1..(Len(f) + 1) /\ p \in (1 - 1)..Len(f) /\ q \in p..Len(f)
  OBVIOUS
<1>2. SubSeq(f, 1, p) \o SubSeq(f, p + 1, q) = SubSeq(f, 1, q)
  BY <1>1, ConcatAdjacentSubSeq
<1> QED
  BY <1>2

LEMMA BlockIsText ==
  ASSUME NEW t \in Seq(Chars), NEW p \in Nat, NEW q \in Nat, q <= Len(t)
  PROVE  SubSeq(t, p + 1, q) \in Seq(Chars)
OBVIOUS

\* A block of the file put behind what a reader has.
LEMMA ReadMore ==
  ASSUME NEW f \in Seq(Chars), NEW h \in Seq(Chars), NEW p \in Nat, NEW q \in Nat, q <= Len(f)
  PROVE  /\ h \o SubSeq(f, p + 1, q) \in Seq(Chars)
         /\ p <= q /\ h = SubSeq(f, 1, p) => h \o SubSeq(f, p + 1, q) = SubSeq(f, 1, q)
<1>1. SubSeq(f, p + 1, q) \in Seq(Chars)
  BY BlockIsText
<1>2. h \o SubSeq(f, p + 1, q) \in Seq(Chars)
  BY <1>1, ConcatProperties
<1>3. ASSUME p <= q, h = SubSeq(f, 1, p)
      PROVE  h \o SubSeq(f, p + 1, q) = SubSeq(f, 1, q)
  BY <1>3, ReadNext
<1> QED
  BY <1>2, <1>3

\* A beginning of a beginning.
LEMMA Beginnings ==
  ASSUME NEW t \in Seq(Chars), NEW p \in Nat, NEW q \in Nat, p <= q, q <= Len(t)
  PROVE  /\ SubSeq(SubSeq(t, 1, q), 1, p) = SubSeq(t, 1, p)
         /\ Len(SubSeq(t, 1, q)) = q
OBVIOUS

LEMMA EmptyText == <<>> \in Seq(Chars) /\ Len(<<>>) = 0
OBVIOUS

LEMMA WholeIsItself ==
  ASSUME NEW t \in Seq(Chars)
  PROVE  /\ SubSeq(t, 1, Len(t)) = t /\ SubSeq(t, 1, 0) = <<>>
OBVIOUS

-----------------------------------------------------------------------------
(* Each action keeps the invariant.                                        *)

LEMMA FileInvInit ==
  ASSUME ConfigInit
  PROVE  FileInv
BY ConfigFileAssumption, TextType, EmptyText
   DEF ConfigInit, FileInv, TypesOK, HeldOK, WriterOK, ReaderOK, ContentOK, Points, Writing,
       Actors

LEMMA OpensKeeps ==
  ASSUME FileInv, NEW a \in Actors, Opens(a)
  PROVE  FileInv'
<1>1. /\ text' = [text EXCEPT ![a] = <<>>] /\ pos' = [pos EXCEPT ![a] = 0]
      /\ UNCHANGED <<file, saves, last, owner, torn, quiet>>
  BY DEF Opens
<1>2. \/ at' = [at EXCEPT ![a] = "reading"] /\ UNCHANGED cfg
      \/ at' = [at EXCEPT ![a] = "create"] /\ cfg' = [cfg EXCEPT ![a] = Default]
  BY DEF Opens, Goes
<1>3. TypesOK'
  BY <1>1, <1>2, EmptyText DEF FileInv, TypesOK, Points
<1>4. ContentOK'
  BY <1>1 DEF FileInv, ContentOK
<1>5. SubSeq(file, 1, 0) = <<>> /\ 0 <= Len(file)
  BY WholeIsItself DEF FileInv, TypesOK
<1>6. ASSUME NEW b \in Actors
      PROVE  (HeldOK(b) /\ WriterOK(b) /\ ReaderOK(b))'
  BY <1>1, <1>2, <1>5 DEF FileInv, TypesOK, HeldOK, WriterOK, ReaderOK, Writing
<1> QED
  BY <1>3, <1>4, <1>6 DEF FileInv

\* What a block or the rest of the file gives.
LEMMA ReadsEffect ==
  ASSUME FileInv, NEW a \in Actors, Reads(a)
  PROVE  /\ at[a] = "reading" /\ file # Missing
         /\ UNCHANGED <<file, saves, last, owner, quiet>>
         /\ \/ /\ UNCHANGED <<at, cfg, torn>>
               /\ \E t \in Seq(Chars) : text' = [text EXCEPT ![a] = t]
               /\ pos' = [pos EXCEPT ![a] = @ + ReadBlock]
               /\ a \notin torn /\ owner # "several" =>
                     pos'[a] <= Len(file) /\ text'[a] = SubSeq(file, 1, pos'[a])
            \/ /\ \E c : /\ cfg' = [cfg EXCEPT ![a] = c]
                         /\ a \notin torn /\ owner # "several" => c = ConfigOf(file)
               /\ text' = [text EXCEPT ![a] = <<>>] /\ pos' = [pos EXCEPT ![a] = 0]
               /\ Goes(a, Loaded(a)) /\ torn' = torn \ {a}
<1>1. /\ at[a] = "reading" /\ file # Missing
      /\ UNCHANGED <<file, saves, last, owner, quiet>>
  BY DEF Reads
<1>2. /\ text[a] \in Seq(Chars) /\ pos[a] \in Nat /\ file \in Seq(Chars)
      /\ a \notin torn /\ owner # "several" =>
            pos[a] <= Len(file) /\ text[a] = SubSeq(file, 1, pos[a])
  BY <1>1 DEF FileInv, TypesOK, ReaderOK
<1>3. PICK f \in Seq(Chars), h \in Seq(Chars), p \in Nat, q \in Nat :
           f = file /\ h = text[a] /\ p = pos[a] /\ q = pos[a] + ReadBlock
  BY <1>2, ConfigFileAssumption
<1>4. p <= q /\ (a \notin torn /\ owner # "several" => p <= Len(f) /\ h = SubSeq(f, 1, p))
  BY <1>2, <1>3, ConfigFileAssumption
<1>5. CASE q < Len(f)
  <2> DEFINE more == h \o SubSeq(f, p + 1, q)
  <2>1. /\ text' = [text EXCEPT ![a] = more] /\ pos' = [pos EXCEPT ![a] = q]
        /\ UNCHANGED <<at, cfg, torn>>
    BY <1>3, <1>5 DEF Reads
  <2>2. more \in Seq(Chars) /\ (a \notin torn /\ owner # "several" => more = SubSeq(f, 1, q))
    <3>1. more \in Seq(Chars)
      BY <1>5, ReadMore
    <3>2. p <= q /\ h = SubSeq(f, 1, p) => more = SubSeq(f, 1, q)
      BY <1>5, ReadMore
    <3> QED
      BY <1>4, <3>1, <3>2
  <2> HIDE DEF more
  <2>3. text'[a] = more /\ pos'[a] = q
    BY <2>1 DEF FileInv, TypesOK
  <2>4. a \notin torn /\ owner # "several" =>
           pos'[a] <= Len(file) /\ text'[a] = SubSeq(file, 1, pos'[a])
    BY <1>3, <1>5, <2>2, <2>3
  <2>5. pos' = [pos EXCEPT ![a] = @ + ReadBlock]
    BY <1>3, <2>1
  <2>6. \E t \in Seq(Chars) : text' = [text EXCEPT ![a] = t]
    BY <2>1, <2>2
  <2> QED
    BY <1>1, <2>1, <2>4, <2>5, <2>6
<1>6. CASE ~(q < Len(f))
  <2> DEFINE whole == h \o SubSeq(f, p + 1, Len(f))
  <2>1. /\ cfg' = [cfg EXCEPT ![a] = ConfigOf(whole)]
        /\ text' = [text EXCEPT ![a] = <<>>] /\ pos' = [pos EXCEPT ![a] = 0]
        /\ Goes(a, Loaded(a)) /\ torn' = torn \ {a}
    BY <1>3, <1>6 DEF Reads
  <2>2. Len(f) \in Nat /\ Len(f) <= Len(f) /\ SubSeq(f, 1, Len(f)) = f
    BY WholeIsItself
  <2>3. a \notin torn /\ owner # "several" => whole = f
    BY <1>4, <2>2, ReadMore
  <2> HIDE DEF whole
  <2>4. a \notin torn /\ owner # "several" => ConfigOf(whole) = ConfigOf(file)
    BY <1>3, <2>3
  <2> QED
    BY <1>1, <2>1, <2>4
<1> QED
  BY <1>5, <1>6

LEMMA ReadsKeeps ==
  ASSUME FileInv, NEW a \in Actors, Reads(a)
  PROVE  FileInv'
<1>1. /\ at[a] = "reading" /\ UNCHANGED <<file, saves, last, owner, quiet>>
  BY ReadsEffect
<1>2. ContentOK'
  BY <1>1 DEF FileInv, ContentOK
<1>3. CASE /\ UNCHANGED <<at, cfg, torn>>
           /\ \E t \in Seq(Chars) : text' = [text EXCEPT ![a] = t]
           /\ pos' = [pos EXCEPT ![a] = @ + ReadBlock]
           /\ a \notin torn /\ owner # "several" =>
                 pos'[a] <= Len(file) /\ text'[a] = SubSeq(file, 1, pos'[a])
  <2>1. TypesOK'
    BY <1>1, <1>3, ConfigFileAssumption DEF FileInv, TypesOK
  <2>2. ASSUME NEW b \in Actors
        PROVE  (HeldOK(b) /\ WriterOK(b) /\ ReaderOK(b))'
    BY <1>1, <1>3 DEF FileInv, TypesOK, HeldOK, WriterOK, ReaderOK, Writing
  <2> QED
    BY <1>2, <2>1, <2>2 DEF FileInv
<1>4. CASE /\ \E c : cfg' = [cfg EXCEPT ![a] = c]
           /\ text' = [text EXCEPT ![a] = <<>>] /\ pos' = [pos EXCEPT ![a] = 0]
           /\ Goes(a, Loaded(a)) /\ torn' = torn \ {a}
  <2>1. TypesOK'
    BY <1>1, <1>4, EmptyText DEF FileInv, TypesOK, Goes, Loaded, Points
  <2>2. ASSUME NEW b \in Actors
        PROVE  (HeldOK(b) /\ WriterOK(b) /\ ReaderOK(b))'
    BY <1>1, <1>4 DEF FileInv, TypesOK, HeldOK, WriterOK, ReaderOK, Writing, Goes, Loaded
  <2> QED
    BY <1>2, <2>1, <2>2 DEF FileInv
<1> QED
  BY <1>3, <1>4, ReadsEffect

LEMMA EditsKeeps ==
  ASSUME FileInv, NEW a \in Tools, Edits(a) \/ GivesUp(a)
  PROVE  FileInv'
<1>1. a \in Actors
  BY DEF Actors
<1>2. \/ \E c \in Configs : at' = [at EXCEPT ![a] = "save"] /\ cfg' = [cfg EXCEPT ![a] = c]
      \/ at' = [at EXCEPT ![a] = "idle"] /\ UNCHANGED cfg
  BY DEF Edits, GivesUp, Goes
<1>3. UNCHANGED <<file, text, pos, saves, last, owner, torn, quiet>> /\ at[a] \in {"edit", "save"}
  BY DEF Edits, GivesUp
<1>4. TypesOK'
  BY <1>1, <1>2, <1>3 DEF FileInv, TypesOK, Points
<1>5. ContentOK'
  BY <1>3 DEF FileInv, ContentOK
<1>6. ASSUME NEW b \in Actors
      PROVE  (HeldOK(b) /\ WriterOK(b) /\ ReaderOK(b))'
  BY <1>1, <1>2, <1>3 DEF FileInv, TypesOK, HeldOK, WriterOK, ReaderOK, Writing
<1> QED
  BY <1>4, <1>5, <1>6 DEF FileInv

LEMMA TruncatesKeeps ==
  ASSUME TextsAreWhole, FileInv, NEW a \in Actors, Truncates(a)
  PROVE  FileInv'
<1>1. cfg[a] \in Configs
  BY ConfigFileAssumption DEF FileInv, HeldOK, Truncates
<1>2. PICK t \in Seq(Chars) : t = TextOf(cfg[a]) /\ t # <<>>
  BY <1>1, EachWhole, TextType DEF Whole
<1>3. 0 < Len(t) /\ SubSeq(t, 1, 0) = <<>>
  BY <1>2, WholeIsItself
<1>4. ConfigOf(<<>>) = Default
  <2>1. 0 \in 0..(Len(t) - 1)
    BY <1>3
  <2> QED
    BY <1>1, <1>2, <1>3, <2>1, EachWhole DEF Whole
<1>5. /\ \/ at[a] = "create" /\ at' = [at EXCEPT ![a] = "creating"]
         \/ at[a] = "save" /\ at' = [at EXCEPT ![a] = "saving"]
      /\ file' = <<>> /\ quiet' = FALSE /\ owner' = a
      /\ torn' = {b \in Actors : at[b] = "reading"}
      /\ text' = [text EXCEPT ![a] = t] /\ pos' = [pos EXCEPT ![a] = 0]
      /\ UNCHANGED <<cfg, saves, last>>
  BY <1>2 DEF Truncates, Goes
<1>6. TypesOK'
  BY <1>5, EmptyText DEF FileInv, TypesOK, Points
<1>7. ContentOK'
  BY <1>4, <1>5 DEF ContentOK
<1>8. ASSUME NEW b \in Actors
      PROVE  (HeldOK(b) /\ WriterOK(b) /\ ReaderOK(b))'
  BY <1>2, <1>3, <1>5 DEF FileInv, TypesOK, HeldOK, WriterOK, ReaderOK, Writing
<1> QED
  BY <1>6, <1>7, <1>8 DEF FileInv

LEMMA TruncateFailsKeeps ==
  ASSUME FileInv, NEW a \in Actors, TruncateFails(a)
  PROVE  FileInv'
BY DEF FileInv, TypesOK, HeldOK, WriterOK, ReaderOK, ContentOK, Points, Writing, TruncateFails,
       Goes, Loaded

LEMMA CrashKeeps ==
  ASSUME FileInv, NEW a \in Actors, Crash(a)
  PROVE  FileInv'
BY EmptyText
   DEF FileInv, TypesOK, HeldOK, WriterOK, ReaderOK, ContentOK, Points, Writing, Crash, Goes

\* A block of a process that is not the last to have emptied the file.
LEMMA WritesAcross ==
  ASSUME TextsAreWhole, FileInv, NEW a \in Actors, Writes(a), owner # a
  PROVE  FileInv'
<1> DEFINE more == pos[a] + WriteBlock < Len(text[a])
           q == IF more THEN pos[a] + WriteBlock ELSE Len(text[a])
<1>1. /\ at[a] \in Writing /\ ~quiet /\ text[a] \in Seq(Chars) /\ pos[a] \in Nat
      /\ file \in Seq(Chars) /\ owner' = "several" /\ torn' = torn /\ cfg' = cfg
      /\ file' = Put(file, pos[a], SubSeq(text[a], pos[a] + 1, q))
  BY DEF Writes, FileInv, TypesOK, WriterOK
<1>2. q \in Nat /\ q <= Len(text[a])
  BY <1>1, ConfigFileAssumption
<1>3. file' \in Seq(Chars)
  <2> HIDE DEF q
  <2>1. SubSeq(text[a], pos[a] + 1, q) \in Seq(Chars)
    BY <1>1, <1>2, BlockIsText
  <2> QED
    BY <1>1, <2>1, PutType
<1>4. \/ /\ more /\ pos' = [pos EXCEPT ![a] = pos[a] + WriteBlock]
         /\ UNCHANGED <<at, text, quiet>>
      \/ /\ text' = [text EXCEPT ![a] = <<>>] /\ pos' = [pos EXCEPT ![a] = 0]
         /\ at' = [at EXCEPT ![a] = IF at[a] = "creating" THEN Loaded(a) ELSE "idle"]
         /\ quiet' = FALSE
  BY <1>1 DEF Writes, Goes
<1>5. ContentOK'
  BY <1>1, <1>4 DEF ContentOK
<1>6. CASE /\ more /\ pos' = [pos EXCEPT ![a] = pos[a] + WriteBlock]
           /\ UNCHANGED <<at, text, quiet>>
  <2>1. pos[a] + WriteBlock \in Nat
    BY <1>1, ConfigFileAssumption
  <2>2. TypesOK'
    BY <1>1, <1>3, <1>6, <2>1 DEF FileInv, TypesOK
  <2>3. ASSUME NEW b \in Actors
        PROVE  (HeldOK(b) /\ WriterOK(b) /\ ReaderOK(b))'
    <3>1. owner' # b
      BY <1>1, ConfigFileAssumption
    <3>2. HeldOK(b)' /\ ReaderOK(b)'
      BY <1>1, <1>6 DEF FileInv, HeldOK, ReaderOK
    <3>3. WriterOK(b)'
      BY <1>1, <1>6, <2>1, <3>1 DEF FileInv, TypesOK, WriterOK
    <3> QED
      BY <3>2, <3>3
  <2> QED
    BY <1>5, <2>2, <2>3 DEF FileInv
<1>7. CASE /\ text' = [text EXCEPT ![a] = <<>>] /\ pos' = [pos EXCEPT ![a] = 0]
           /\ at' = [at EXCEPT ![a] = IF at[a] = "creating" THEN Loaded(a) ELSE "idle"]
           /\ quiet' = FALSE
  <2>1. TypesOK'
    <3>1. at' \in [Actors -> Points]
      BY <1>7 DEF FileInv, TypesOK, Points, Loaded
    <3> QED
      BY <1>1, <1>3, <1>7, <3>1, EmptyText DEF FileInv, TypesOK
  <2>2. ASSUME NEW b \in Actors
        PROVE  (HeldOK(b) /\ WriterOK(b) /\ ReaderOK(b))'
    <3>1. owner' # b
      BY <1>1, ConfigFileAssumption
    <3>2. b # a => UNCHANGED <<at[b], text[b], pos[b]>>
      BY <1>7 DEF FileInv, TypesOK
    <3>3. at'[a] \in {"idle", "edit"}
      BY <1>7 DEF FileInv, TypesOK, Loaded
    <3> QED
      BY <1>1, <1>7, <3>1, <3>2, <3>3 DEF FileInv, HeldOK, WriterOK, ReaderOK, Writing
  <2> QED
    BY <1>5, <2>1, <2>2 DEF FileInv
<1> QED
  BY <1>4, <1>6, <1>7

\* A block of the last to have emptied the file.
LEMMA WritesOwn ==
  ASSUME TextsAreWhole, FileInv, NEW a \in Actors, Writes(a), owner = a
  PROVE  FileInv'
<1> DEFINE more == pos[a] + WriteBlock < Len(text[a])
           q == IF more THEN pos[a] + WriteBlock ELSE Len(text[a])
<1>1. /\ at[a] \in Writing /\ text[a] = TextOf(cfg[a]) /\ pos[a] < Len(text[a]) /\ ~quiet
      /\ file = SubSeq(text[a], 1, pos[a]) /\ text[a] \in Seq(Chars) /\ pos[a] \in Nat
      /\ owner' = a /\ torn' = torn /\ cfg' = cfg
  BY DEF Writes, FileInv, WriterOK, TypesOK
<1>2. cfg[a] \in Configs /\ a # "several"
  BY <1>1, ConfigFileAssumption DEF FileInv, HeldOK, Writing
<1>3. PICK t \in Seq(Chars) : t = text[a]
  BY <1>1
<1>4. q \in Nat /\ pos[a] <= q /\ q <= Len(t)
  BY <1>1, <1>3, ConfigFileAssumption
<1>5. file' = SubSeq(t, 1, q)
  <2>1. file' = Put(SubSeq(t, 1, pos[a]), pos[a], SubSeq(t, pos[a] + 1, q))
    BY <1>1, <1>3 DEF Writes
  <2> HIDE DEF q
  <2> QED
    BY <1>1, <1>4, <2>1, PutNext
<1>6. file' \in Seq(Chars)
  <2> HIDE DEF q
  <2> QED
    BY <1>4, <1>5, ReadNext
<1>7. ASSUME NEW b \in Actors, at[b] = "reading", b \notin torn
      PROVE  pos[b] <= Len(file') /\ text[b] = SubSeq(file', 1, pos[b])
  <2> HIDE DEF q
  <2>1. pos[b] <= Len(file) /\ text[b] = SubSeq(file, 1, pos[b]) /\ pos[b] \in Nat
    BY <1>2, <1>7 DEF FileInv, TypesOK, ReaderOK
  <2>2. Len(file) = pos[a] /\ Len(file') = q
    BY <1>1, <1>3, <1>4, <1>5, Beginnings
  <2>3. SubSeq(file, 1, pos[b]) = SubSeq(t, 1, pos[b])
    BY <1>1, <1>3, <2>1, <2>2, Beginnings
  <2>4. SubSeq(file', 1, pos[b]) = SubSeq(t, 1, pos[b])
    BY <1>1, <1>4, <1>5, <2>1, <2>2, Beginnings
  <2> QED
    BY <1>1, <1>4, <2>1, <2>2, <2>3, <2>4
<1>8. CASE more
  <2>1. /\ pos' = [pos EXCEPT ![a] = pos[a] + WriteBlock]
        /\ UNCHANGED <<at, text, saves, last, quiet>> /\ q = pos[a] + WriteBlock
    BY <1>8 DEF Writes
  <2>2. ConfigOf(file') = Default
    <3>1. q \in 0..(Len(t) - 1)
      BY <1>3, <1>4, <1>8
    <3> HIDE DEF q
    <3> QED
      BY <1>1, <1>2, <1>3, <1>5, <3>1, EachWhole DEF Whole
  <2>3. TypesOK'
    BY <1>1, <1>4, <1>6, <2>1 DEF FileInv, TypesOK
  <2>4. ContentOK'
    BY <1>1, <2>1, <2>2 DEF ContentOK
  <2>5. pos'[a] = q /\ q < Len(t)
    BY <1>3, <1>8, <2>1 DEF FileInv, TypesOK
  <2> HIDE DEF q
  <2>6. ASSUME NEW b \in Actors
        PROVE  (HeldOK(b) /\ WriterOK(b) /\ ReaderOK(b))'
    BY <1>1, <1>3, <1>5, <1>7, <2>1, <2>5
       DEF FileInv, TypesOK, HeldOK, WriterOK, ReaderOK, Writing
  <2> QED
    BY <2>3, <2>4, <2>6 DEF FileInv
<1>9. CASE ~more
  <2>1. /\ text' = [text EXCEPT ![a] = <<>>] /\ pos' = [pos EXCEPT ![a] = 0]
        /\ at' = [at EXCEPT ![a] = IF at[a] = "creating" THEN Loaded(a) ELSE "idle"]
        /\ saves' = saves \cup {cfg[a]} /\ last' = cfg[a] /\ q = Len(t)
        /\ quiet' = (\A b \in Actors \ {a} : at[b] \notin Writing)
    BY <1>3, <1>9 DEF Writes, Goes
  <2>2. file' = t
    BY <1>5, <2>1, WholeIsItself
  <2>3. ConfigOf(file') = cfg[a]
    BY <1>1, <1>2, <1>3, <2>2, EachWhole DEF Whole
  <2> HIDE DEF q
  <2>4. TypesOK'
    <3>1. at' \in [Actors -> Points]
      BY <2>1 DEF FileInv, TypesOK, Points, Loaded
    <3> QED
      BY <1>1, <1>6, <2>1, <3>1, EmptyText DEF FileInv, TypesOK
  <2>5. ContentOK'
    BY <1>1, <1>2, <2>1, <2>3 DEF ContentOK
  <2>6. ASSUME NEW b \in Actors
        PROVE  (HeldOK(b) /\ WriterOK(b) /\ ReaderOK(b))'
    BY <1>1, <1>7, <2>1 DEF FileInv, TypesOK, HeldOK, WriterOK, ReaderOK, Writing, Loaded
  <2> QED
    BY <2>4, <2>5, <2>6 DEF FileInv
<1> QED
  BY <1>8, <1>9

LEMMA FileInvStep ==
  ASSUME TextsAreWhole, FileInv, [ConfigNext]_vars
  PROVE  FileInv'
<1>1. CASE UNCHANGED vars
  BY <1>1 DEF vars, FileInv, TypesOK, HeldOK, WriterOK, ReaderOK, ContentOK
<1>2. CASE ConfigNext
  <2>1. PICK a \in Actors :
           \/ Opens(a) \/ Reads(a) \/ Truncates(a) \/ TruncateFails(a) \/ Writes(a) \/ Crash(a)
           \/ a \in Tools /\ (Edits(a) \/ GivesUp(a))
    BY <1>2 DEF ConfigNext
  <2> QED
    BY <2>1, OpensKeeps, ReadsKeeps, TruncatesKeeps, TruncateFailsKeeps, WritesAcross, WritesOwn,
       CrashKeeps, EditsKeeps
<1> QED
  BY <1>1, <1>2

LEMMA FileInvariant ==
  ASSUME TextsAreWhole
  PROVE  ConfigSpec => []FileInv
<1>1. ConfigInit => FileInv
  BY FileInvInit
<1>2. FileInv /\ [ConfigNext]_vars => FileInv'
  BY FileInvStep
<1> QED
  BY <1>1, <1>2, PTL DEF ConfigSpec

-----------------------------------------------------------------------------
(* The theorems.                                                           *)

\* A load of a file that one process has written, and that nobody has emptied
\* meanwhile, gives what the file has at its end.
LEMMA LoadGives ==
  ASSUME FileInv, ConfigNext, NEW a \in Actors, Loads(a), a \notin torn, owner # "several"
  PROVE  cfg'[a] = ConfigOf(file) /\ file # Missing /\ UNCHANGED <<saves, last>>
<1>1. PICK b \in Actors :
         \/ Opens(b) \/ Reads(b) \/ Truncates(b) \/ TruncateFails(b) \/ Writes(b) \/ Crash(b)
         \/ b \in Tools /\ (Edits(b) \/ GivesUp(b))
  BY DEF ConfigNext
<1>2. /\ at \in [Actors -> Points] /\ Loaded(a) \in {"idle", "edit"} /\ DOMAIN cfg = Actors
      /\ at[a] = "reading" /\ at'[a] = Loaded(a)
  BY DEF FileInv, TypesOK, Loaded, Loads
<1>3. b = a
  BY <1>1, <1>2 DEF Opens, Reads, Truncates, TruncateFails, Writes, Crash, Edits, GivesUp, Goes
<1>4. Reads(a)
  BY <1>1, <1>2, <1>3 DEF Opens, Truncates, TruncateFails, Writes, Crash, Edits, GivesUp, Goes,
                          Writing
<1> QED
  BY <1>2, <1>4, ReadsEffect

\* Whoever loads the file gets what somebody has saved in whole, or the default,
\* after any crashes and failures and with any number of processes saving,
\* unless the file was emptied under its reading or two saves came across each
\* other in it; the texts are such that one cut off is no other's.
THEOREM SavedOrDefaultCorrect ==
  ASSUME TextsAreWhole
  PROVE  ConfigSpec => SavedOrDefault
<1> DEFINE Load == \A a \in Actors : Loads(a) /\ a \notin torn /\ owner # "several" =>
                      cfg'[a] \in saves \cup {Default}
<1>1. FileInv /\ [ConfigNext]_vars => [Load]_vars
  BY LoadGives DEF FileInv, ContentOK
<1> QED
  BY <1>1, FileInvariant, PTL DEF ConfigSpec, SavedOrDefault

\* For the same texts: a file that nobody is writing, nor has emptied since the
\* load began, and whose last save was not broken off and came across no other,
\* gives back what that save has written.
THEOREM LoadsWhatWasSavedCorrect ==
  ASSUME TextsAreWhole
  PROVE  ConfigSpec => LoadsWhatWasSaved
<1> DEFINE Load == \A a \in Actors : Loads(a) /\ a \notin torn /\ quiet => cfg'[a] = last
<1>1. FileInv /\ [ConfigNext]_vars => [Load]_vars
  BY LoadGives DEF FileInv, ContentOK
<1> QED
  BY <1>1, FileInvariant, PTL DEF ConfigSpec, LoadsWhatWasSaved
=============================================================================
