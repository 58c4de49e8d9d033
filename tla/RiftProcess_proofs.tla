------------------------- MODULE RiftProcess_proofs -------------------------
(* Theorems about RiftProcess, for all values of its constants: any number  *)
(* of API threads, any settings a user may have, any ports.                 *)
EXTENDS RiftProcess, SequenceTheorems, TLAPS

-----------------------------------------------------------------------------
(* What is on a list, and in which order.                                  *)

Members(q) == {q[i] : i \in 1 .. Len(q)}

\* Something of A comes on the list, and nothing of B before it.
Ahead(q, A, B) == \E i \in 1 .. Len(q) : q[i] \in A /\ \A j \in 1 .. i - 1 : q[j] \notin B

LEMMA ConcatIs ==
  ASSUME NEW S, NEW p \in Seq(S), NEW q \in Seq(S), NEW r \in Seq(S),
         Len(r) = Len(p) + Len(q),
         \A i \in 1 .. Len(p) : r[i] = p[i],
         \A i \in 1 .. Len(q) : r[Len(p) + i] = q[i]
  PROVE  p \o q = r
<1>1. /\ p \o q \in Seq(S) /\ Len(p \o q) = Len(p) + Len(q)
      /\ \A i \in 1 .. Len(p) + Len(q) : (p \o q)[i] =
            IF i <= Len(p) THEN p[i] ELSE q[i - Len(p)]
  BY ConcatProperties
<1>2. Len(p) \in Nat /\ Len(q) \in Nat
  BY LenProperties
<1>3. \A i \in 1 .. Len(r) : (p \o q)[i] = r[i]
  <2> SUFFICES ASSUME NEW i \in 1 .. Len(r) PROVE (p \o q)[i] = r[i]
    OBVIOUS
  <2>1. CASE i <= Len(p)
    BY <1>1, <1>2, <2>1
  <2>2. CASE ~(i <= Len(p))
    <3>1. i - Len(p) \in 1 .. Len(q) /\ Len(p) + (i - Len(p)) = i
      BY <1>2, <2>2
    <3>2. (p \o q)[i] = q[i - Len(p)] /\ r[Len(p) + (i - Len(p))] = q[i - Len(p)]
      BY <1>1, <1>2, <2>2, <3>1
    <3> QED
      BY <3>1, <3>2
  <2> QED
    BY <2>1, <2>2
<1> QED
  BY <1>1, <1>3, SeqEqual

\* A list whose first operation is replaced by others.
LEMMA Replaced ==
  ASSUME NEW S, NEW q \in Seq(S), q # <<>>, NEW ops \in Seq(S)
  PROVE  /\ ops \o Tail(q) \in Seq(S)
         /\ Len(q) \in Nat \ {0} /\ Len(ops) \in Nat /\ Head(q) = q[1]
         /\ Len(ops \o Tail(q)) = Len(ops) + Len(q) - 1
         /\ \A i \in 1 .. Len(ops) : (ops \o Tail(q))[i] = ops[i]
         /\ \A i \in 2 .. Len(q) : (ops \o Tail(q))[Len(ops) + i - 1] = q[i]
<1> DEFINE r == Tail(q)
           w == ops \o r
<1>1. /\ r \in Seq(S) /\ Len(r) = Len(q) - 1 /\ Len(q) \in Nat \ {0}
      /\ \A i \in 1 .. Len(r) : r[i] = q[i + 1]
      /\ Head(q) = q[1]
  BY HeadTailProperties, EmptySeq, LenProperties
<1>2. Len(ops) \in Nat
  BY LenProperties
<1> HIDE DEF r
<1>3. /\ w \in Seq(S) /\ Len(w) = Len(ops) + Len(r)
      /\ \A i \in 1 .. Len(ops) + Len(r) : w[i] = IF i <= Len(ops) THEN ops[i] ELSE r[i - Len(ops)]
  BY <1>1, ConcatProperties
<1> HIDE DEF w
<1>4. \A i \in 1 .. Len(ops) : w[i] = ops[i]
  BY <1>1, <1>2, <1>3
<1>5. \A i \in 2 .. Len(q) : w[Len(ops) + i - 1] = q[i]
  <2> SUFFICES ASSUME NEW i \in 2 .. Len(q) PROVE w[Len(ops) + i - 1] = q[i]
    OBVIOUS
  <2> DEFINE k == i - 1
  <2>1. /\ k \in 1 .. Len(r) /\ Len(ops) + i - 1 = Len(ops) + k
        /\ Len(ops) + k \in 1 .. Len(ops) + Len(r) /\ ~(Len(ops) + k <= Len(ops))
        /\ (Len(ops) + k) - Len(ops) = k /\ k + 1 = i
    BY <1>1, <1>2
  <2> HIDE DEF k
  <2>2. w[Len(ops) + k] = r[k]
    BY <1>3, <2>1
  <2> QED
    BY <1>1, <2>1, <2>2
<1>6. Len(w) = Len(ops) + Len(q) - 1
  BY <1>1, <1>2, <1>3
<1> QED
  BY <1>1, <1>2, <1>3, <1>4, <1>5, <1>6 DEF r, w

LEMMA MembersReplaced ==
  ASSUME NEW S, NEW q \in Seq(S), q # <<>>, NEW ops \in Seq(S)
  PROVE  /\ Members(ops \o Tail(q)) = Members(ops) \cup Members(Tail(q))
         /\ Members(q) = {Head(q)} \cup Members(Tail(q))
<1> DEFINE r == Tail(q)
           w == ops \o r
<1>1. /\ r \in Seq(S) /\ Len(r) = Len(q) - 1 /\ Len(q) \in Nat \ {0}
      /\ \A i \in 1 .. Len(r) : r[i] = q[i + 1]
      /\ Head(q) = q[1]
  BY HeadTailProperties, EmptySeq, LenProperties
<1>2. Len(ops) \in Nat
  BY LenProperties
<1> HIDE DEF r
<1>3. /\ Len(w) = Len(ops) + Len(r)
      /\ \A i \in 1 .. Len(ops) + Len(r) : w[i] = IF i <= Len(ops) THEN ops[i] ELSE r[i - Len(ops)]
  BY <1>1, ConcatProperties
<1> HIDE DEF w
<1>4. Members(w) \subseteq Members(ops) \cup Members(r)
  <2> SUFFICES ASSUME NEW i \in 1 .. Len(w) PROVE w[i] \in Members(ops) \cup Members(r)
    BY DEF Members
  <2>1. CASE i <= Len(ops)
    BY <1>1, <1>2, <1>3, <2>1 DEF Members
  <2>2. CASE ~(i <= Len(ops))
    <3>1. i - Len(ops) \in 1 .. Len(r) /\ w[i] = r[i - Len(ops)]
      BY <1>1, <1>2, <1>3, <2>2
    <3> QED
      BY <3>1 DEF Members
  <2> QED
    BY <2>1, <2>2
<1>5. Members(ops) \subseteq Members(w)
  <2> SUFFICES ASSUME NEW i \in 1 .. Len(ops) PROVE ops[i] \in Members(w)
    BY DEF Members
  <2>1. i \in 1 .. Len(w) /\ w[i] = ops[i]
    BY <1>1, <1>2, <1>3
  <2> QED
    BY <2>1 DEF Members
<1>6. Members(r) \subseteq Members(w)
  <2> SUFFICES ASSUME NEW i \in 1 .. Len(r) PROVE r[i] \in Members(w)
    BY DEF Members
  <2> DEFINE k == Len(ops) + i
  <2>1. k \in 1 .. Len(w) /\ ~(k <= Len(ops)) /\ k - Len(ops) = i
    BY <1>1, <1>2, <1>3
  <2> HIDE DEF k
  <2>2. w[k] = r[i]
    BY <1>3, <2>1
  <2> QED
    BY <2>1, <2>2 DEF Members
<1>7. Members(q) \subseteq {Head(q)} \cup Members(r)
  <2> SUFFICES ASSUME NEW i \in 1 .. Len(q) PROVE q[i] \in {Head(q)} \cup Members(r)
    BY DEF Members
  <2>1. CASE i = 1
    BY <1>1, <2>1
  <2>2. CASE i # 1
    <3>1. i - 1 \in 1 .. Len(r) /\ (i - 1) + 1 = i
      BY <1>1, <2>2
    <3>2. r[i - 1] = q[i]
      BY <1>1, <3>1
    <3> QED
      BY <3>1, <3>2 DEF Members
  <2> QED
    BY <2>1, <2>2
<1>8. Members(r) \subseteq Members(q)
  <2> SUFFICES ASSUME NEW i \in 1 .. Len(r) PROVE r[i] \in Members(q)
    BY DEF Members
  <2>1. i + 1 \in 1 .. Len(q) /\ r[i] = q[i + 1]
    BY <1>1
  <2> QED
    BY <2>1 DEF Members
<1>9. Head(q) \in Members(q)
  BY <1>1 DEF Members
<1> QED
  BY <1>4, <1>5, <1>6, <1>7, <1>8, <1>9 DEF w, r

LEMMA AheadReplaced ==
  ASSUME NEW S, NEW q \in Seq(S), q # <<>>, NEW ops \in Seq(S), NEW A, NEW B
  PROVE  /\ Ahead(ops, A, B) => Ahead(ops \o Tail(q), A, B)
         /\ Ahead(q, A, B) /\ Head(q) \notin A /\ Members(ops) \cap B = {} =>
               Ahead(ops \o Tail(q), A, B)
         /\ Ahead(q, A, B) /\ Head(q) \notin A => Head(q) \notin B
<1> DEFINE w == ops \o Tail(q)
<1>1. /\ Len(q) \in Nat \ {0} /\ Len(ops) \in Nat /\ Head(q) = q[1]
      /\ Len(w) = Len(ops) + Len(q) - 1
      /\ \A i \in 1 .. Len(ops) : w[i] = ops[i]
      /\ \A i \in 2 .. Len(q) : w[Len(ops) + i - 1] = q[i]
  BY Replaced
<1> HIDE DEF w
<1>2. ASSUME Ahead(ops, A, B) PROVE Ahead(w, A, B)
  <2>1. PICK i \in 1 .. Len(ops) : ops[i] \in A /\ \A j \in 1 .. i - 1 : ops[j] \notin B
    BY <1>2 DEF Ahead
  <2>2. i \in 1 .. Len(w) /\ \A j \in 1 .. i - 1 : j \in 1 .. Len(ops)
    BY <1>1
  <2>3. w[i] = ops[i] /\ \A j \in 1 .. i - 1 : w[j] = ops[j]
    BY <1>1, <2>2
  <2> QED
    BY <2>1, <2>2, <2>3 DEF Ahead
<1>3. ASSUME Ahead(q, A, B), Head(q) \notin A
      PROVE  \E i \in 2 .. Len(q) : q[i] \in A /\ \A j \in 1 .. i - 1 : q[j] \notin B
  BY <1>1, <1>3 DEF Ahead
<1>4. ASSUME Ahead(q, A, B), Head(q) \notin A, Members(ops) \cap B = {}
      PROVE  Ahead(w, A, B)
  <2>1. PICK i \in 2 .. Len(q) : q[i] \in A /\ \A j \in 1 .. i - 1 : q[j] \notin B
    BY <1>3, <1>4
  <2> DEFINE k == Len(ops) + i - 1
  <2>2. k \in 1 .. Len(w) /\ w[k] \in A
    BY <1>1, <2>1
  <2>3. ASSUME NEW j \in 1 .. k - 1 PROVE w[j] \notin B
    <3>1. CASE j <= Len(ops)
      BY <1>1, <1>4, <3>1 DEF Members
    <3>2. CASE ~(j <= Len(ops))
      <4> DEFINE m == j - Len(ops) + 1
      <4>1. m \in 2 .. Len(q) /\ m \in 1 .. i - 1 /\ Len(ops) + m - 1 = j
        BY <1>1, <3>2
      <4> HIDE DEF m
      <4>2. w[j] = q[m]
        BY <1>1, <4>1
      <4> QED
        BY <2>1, <4>1, <4>2
    <3> QED
      BY <3>1, <3>2
  <2> QED
    BY <2>2, <2>3 DEF Ahead
<1>5. ASSUME Ahead(q, A, B), Head(q) \notin A PROVE Head(q) \notin B
  BY <1>1, <1>3, <1>5
<1> QED
  BY <1>2, <1>4, <1>5 DEF w

-----------------------------------------------------------------------------
(* Types.                                                                  *)

Toggles == {Toggle("enable", v) : v \in {"on", "off"}}
           \cup {Toggle("server", p) : p \in Ports} \cup {Toggle("override", "rift")}
Writes == {Write("enable", v) : v \in {"on", "off"}}
          \cup {Write("server", v) : v \in {"none", "user"} \cup Ports}
          \cup {Write("override", v) : v \in {"none", "user", "rift"}}
Calls == {Call(f) : f \in {"init", "start", "api_start", "cli", "read", "restore",
             "restored", "exit", "end", "wait", "start_checker", "start_accept",
             "stop_disable", "unbind"}}
Stops == {Stop(x) : x \in Services}
Clears == {Clear(x) : x \in Services}
Joins == {Join(h) : h \in Helpers}
Destroys == {Destroy(h) : h \in Helpers}
TypedOps == Toggles \cup Writes \cup Calls \cup Stops \cup Clears \cup Joins \cup Destroys

Saved == [have : BOOLEAN, enable : {"on", "off"}, server : {"none", "user"} \cup Ports,
          override : {"none", "user", "rift"}]

ValueTypes ==
    /\ reg \in Registry /\ found \in Registry /\ saved \in Saved
    /\ proc \in {"up", "gone", "aborted", "crashed"}
    /\ kind \in {"console", "service"} /\ conf \in ConfigFile
    /\ on \subseteq Services /\ joinable \subseteq Helpers
    /\ bound \in Ports \cup {"none"}
    /\ stopEvent \in BOOLEAN /\ runs \in 1 .. MaxRuns
    /\ restored \in [Threads -> {"no", "going", "done", "spoilt"}]
    /\ seen \subseteq {"quit", "eof", "ctrl", "close"}
ListTypes == todo \in [Threads -> Seq(TypedOps)]
Types == ValueTypes /\ ListTypes

\* The bodies of enable() and start() are what they do, one after the other.
LEMMA EnableForms ==
  ASSUME NEW p \in Ports
  PROVE  /\ Enable(p) \in Seq(TypedOps)
         /\ Enable(p) = IF saved.have
              THEN <<Toggle("enable", "on"), Toggle("server", p), Toggle("override", "rift")>>
              ELSE <<Call("init"), Toggle("enable", "on"), Toggle("server", p),
                     Toggle("override", "rift")>>
<1> DEFINE a == Toggle("enable", "on")
           b == Toggle("server", p)
           c == Toggle("override", "rift")
           n == Call("init")
<1>1. a \in TypedOps /\ b \in TypedOps /\ c \in TypedOps /\ n \in TypedOps
  BY DEF TypedOps, Toggles, Calls
<1>2. Enable(p) = (IF saved.have THEN <<>> ELSE <<n>>) \o <<a, b, c>>
  BY DEF Enable
<1> HIDE DEF a, b, c, n
<1>3. /\ <<n>> \in Seq(TypedOps) /\ <<a, b, c>> \in Seq(TypedOps)
      /\ <<n, a, b, c>> \in Seq(TypedOps)
  BY <1>1
<1>4. <<>> \o <<a, b, c>> = <<a, b, c>>
  BY <1>3, ConcatEmptySeq
<1>5. <<n>> \o <<a, b, c>> = <<n, a, b, c>>
  <2> DEFINE x == <<n>>
             y == <<a, b, c>>
             z == <<n, a, b, c>>
  <2>1. /\ Len(x) = 1 /\ Len(y) = 3 /\ Len(z) = 4 /\ x[1] = z[1]
        /\ y[1] = z[2] /\ y[2] = z[3] /\ y[3] = z[4]
    OBVIOUS
  <2>2. x \in Seq(TypedOps) /\ y \in Seq(TypedOps) /\ z \in Seq(TypedOps)
    BY <1>3
  <2> HIDE DEF x, y, z
  <2>3. Len(z) = Len(x) + Len(y) /\ \A i \in 1 .. Len(x) : z[i] = x[i]
    BY <2>1
  <2>4. \A i \in 1 .. Len(y) : z[Len(x) + i] = y[i]
    BY <2>1
  <2>5. x \o y = z
    BY <2>2, <2>3, <2>4, ConcatIs
  <2> QED
    BY <2>5 DEF x, y, z
<1> QED
  BY <1>2, <1>3, <1>4, <1>5 DEF a, b, c, n

LEMMA StartForms ==
  ASSUME NEW p \in Ports, NEW b \in BOOLEAN
  PROVE  LET ops == (IF b THEN Enable(p) ELSE <<>>) \o <<Call("start_checker"), Call("start_accept")>>
         IN  /\ ops \in Seq(TypedOps)
             /\ \/ ops = <<Call("start_checker"), Call("start_accept")>>
                \/ ops = <<Toggle("enable", "on"), Toggle("server", p), Toggle("override", "rift"),
                           Call("start_checker"), Call("start_accept")>>
                \/ /\ ~saved.have
                   /\ ops = <<Call("init"), Toggle("enable", "on"), Toggle("server", p),
                              Toggle("override", "rift"), Call("start_checker"), Call("start_accept")>>
<1> DEFINE a == Toggle("enable", "on")
           s == Toggle("server", p)
           c == Toggle("override", "rift")
           n == Call("init")
           k == Call("start_checker")
           l == Call("start_accept")
           y == <<k, l>>
<1>1. a \in TypedOps /\ s \in TypedOps /\ c \in TypedOps /\ n \in TypedOps /\ k \in TypedOps /\ l \in TypedOps
  BY DEF TypedOps, Toggles, Calls
<1>2. Enable(p) = IF saved.have THEN <<a, s, c>> ELSE <<n, a, s, c>>
  BY EnableForms
<1> HIDE DEF a, s, c, n, k, l
<1>3. /\ <<a, s, c>> \in Seq(TypedOps) /\ <<n, a, s, c>> \in Seq(TypedOps) /\ y \in Seq(TypedOps)
      /\ <<a, s, c, k, l>> \in Seq(TypedOps) /\ <<n, a, s, c, k, l>> \in Seq(TypedOps)
  BY <1>1
<1>4. <<>> \o y = y
  BY <1>3, ConcatEmptySeq
<1>5. <<a, s, c>> \o y = <<a, s, c, k, l>>
  <2> DEFINE x == <<a, s, c>>
             z == <<a, s, c, k, l>>
  <2>1. /\ Len(x) = 3 /\ Len(y) = 2 /\ Len(z) = 5
        /\ x[1] = z[1] /\ x[2] = z[2] /\ x[3] = z[3]
        /\ y[1] = z[4] /\ y[2] = z[5]
    OBVIOUS
  <2>2. x \in Seq(TypedOps) /\ y \in Seq(TypedOps) /\ z \in Seq(TypedOps)
    BY <1>3
  <2> HIDE DEF x, y, z
  <2>3. Len(z) = Len(x) + Len(y) /\ \A i \in 1 .. Len(x) : z[i] = x[i]
    BY <2>1
  <2>4. \A i \in 1 .. Len(y) : z[Len(x) + i] = y[i]
    BY <2>1
  <2>5. x \o y = z
    BY <2>2, <2>3, <2>4, ConcatIs
  <2> QED
    BY <2>5 DEF x, y, z
<1>6. <<n, a, s, c>> \o y = <<n, a, s, c, k, l>>
  <2> DEFINE x == <<n, a, s, c>>
             z == <<n, a, s, c, k, l>>
  <2>1. /\ Len(x) = 4 /\ Len(y) = 2 /\ Len(z) = 6
        /\ x[1] = z[1] /\ x[2] = z[2] /\ x[3] = z[3] /\ x[4] = z[4]
        /\ y[1] = z[5] /\ y[2] = z[6]
    OBVIOUS
  <2>2. x \in Seq(TypedOps) /\ y \in Seq(TypedOps) /\ z \in Seq(TypedOps)
    BY <1>3
  <2> HIDE DEF x, y, z
  <2>3. Len(z) = Len(x) + Len(y) /\ \A i \in 1 .. Len(x) : z[i] = x[i]
    BY <2>1
  <2>4. \A i \in 1 .. Len(y) : z[Len(x) + i] = y[i]
    BY <2>1
  <2>5. x \o y = z
    BY <2>2, <2>3, <2>4, ConcatIs
  <2> QED
    BY <2>5 DEF x, y, z
<1>7. /\ ~b => (IF b THEN Enable(p) ELSE <<>>) \o y = <<k, l>>
      /\ b /\ saved.have => (IF b THEN Enable(p) ELSE <<>>) \o y = <<a, s, c, k, l>>
      /\ b /\ ~saved.have => (IF b THEN Enable(p) ELSE <<>>) \o y = <<n, a, s, c, k, l>>
  BY <1>2, <1>4, <1>5, <1>6
<1>8. (IF b THEN Enable(p) ELSE <<>>) \o y \in Seq(TypedOps)
  BY <1>3, <1>7
<1> QED
  BY <1>7, <1>8 DEF a, s, c, n, k, l

LEMMA BodyTypes ==
  ASSUME saved \in Saved
  PROVE  /\ RestoreBody \in Seq(TypedOps) /\ ExitBody \in Seq(TypedOps)
         /\ Disable \in Seq(TypedOps) /\ AfterNoBind \in Seq(TypedOps)
         /\ ConsoleMain \in Seq(TypedOps) /\ ServiceMain \in Seq(TypedOps)
         /\ \A x \in Services : StopBody(x) \in Seq(TypedOps)
         /\ \A x \in Services : <<Stop(x)>> \in Seq(TypedOps)
         /\ <<>> \in Seq(TypedOps)
         /\ <<Write("enable", "off")>> \in Seq(TypedOps)
         /\ <<Call("read"), Call("cli")>> \in Seq(TypedOps)
         /\ <<Call("restore"), Stop("api"), Stop("server")>> \o <<>> \in Seq(TypedOps)
         /\ <<Call("restore"), Stop("api"), Stop("server")>> \o <<Call("end")>> \in Seq(TypedOps)
<1>1. /\ \A f \in {"init", "start", "api_start", "cli", "read", "restore",
             "restored", "exit", "end", "wait", "start_checker", "start_accept",
             "stop_disable", "unbind"} : Call(f) \in TypedOps
      /\ \A x \in Services : Stop(x) \in TypedOps /\ Clear(x) \in TypedOps
      /\ \A h \in Helpers : Join(h) \in TypedOps /\ Destroy(h) \in TypedOps
  BY DEF TypedOps, Calls, Stops, Clears, Joins, Destroys
<1>2. /\ Write("enable", saved.enable) \in TypedOps /\ Write("server", saved.server) \in TypedOps
      /\ Write("override", saved.override) \in TypedOps
      /\ Write("enable", "off") \in TypedOps /\ Toggle("enable", "off") \in TypedOps
  <2>1. /\ saved.enable \in {"on", "off"} /\ saved.server \in {"none", "user"} \cup Ports
        /\ saved.override \in {"none", "user", "rift"}
    BY DEF Saved
  <2> QED
    BY <2>1 DEF TypedOps, Writes, Toggles
<1>3. RestoreBody \in Seq(TypedOps) /\ Disable \in Seq(TypedOps)
  BY <1>1, <1>2 DEF RestoreBody, Disable
<1>4. ExitBody \in Seq(TypedOps)
  BY <1>1 DEF ExitBody, Services, Helpers
<1>5. AfterNoBind \in Seq(TypedOps)
  BY <1>1 DEF AfterNoBind
<1>6. ConsoleMain \in Seq(TypedOps) /\ ServiceMain \in Seq(TypedOps)
  BY <1>1 DEF ConsoleMain, ServiceMain, Services
<1>7. \A x \in Services : StopBody(x) \in Seq(TypedOps)
  <2>1. StopServer \in Seq(TypedOps)
    BY <1>1 DEF StopServer, Services, Helpers
  <2>2. <<Clear("api"), Join("listen")>> \in Seq(TypedOps) /\ <<Clear("checker"), Join("checker")>> \in Seq(TypedOps)
    BY <1>1 DEF Services, Helpers
  <2> QED
    BY <2>1, <2>2 DEF StopBody, Services
<1>8. /\ <<>> \in Seq(TypedOps) /\ <<Write("enable", "off")>> \in Seq(TypedOps)
      /\ <<Call("read"), Call("cli")>> \in Seq(TypedOps)
      /\ \A x \in Services : <<Stop(x)>> \in Seq(TypedOps)
  BY <1>1, <1>2
<1>9. <<Call("restore"), Stop("api"), Stop("server")>> \in Seq(TypedOps) /\ <<Call("end")>> \in Seq(TypedOps)
  BY <1>1 DEF Services
<1>10. /\ <<Call("restore"), Stop("api"), Stop("server")>> \o <<>> \in Seq(TypedOps)
       /\ <<Call("restore"), Stop("api"), Stop("server")>> \o <<Call("end")>> \in Seq(TypedOps)
  BY <1>8, <1>9, ConcatProperties
<1> QED
  BY <1>3, <1>4, <1>5, <1>6, <1>7, <1>8, <1>10

\* What a console event starts.
EventBody(k) == <<Call("restore"), Stop("api"), Stop("server")>>
                \o (IF k = "close" THEN <<Call("end")>> ELSE <<>>)

LEMMA EventForms ==
  ASSUME NEW k
  PROVE  /\ EventBody(k) \in Seq(TypedOps)
         /\ \/ EventBody(k) = <<Call("restore"), Stop("api"), Stop("server")>>
            \/ EventBody(k) = <<Call("restore"), Stop("api"), Stop("server"), Call("end")>>
<1> DEFINE a == Call("restore")
           b == Stop("api")
           c == Stop("server")
           d == Call("end")
           x == <<a, b, c>>
           y == <<d>>
           z == <<a, b, c, d>>
<1>1. a \in TypedOps /\ b \in TypedOps /\ c \in TypedOps /\ d \in TypedOps
  BY DEF TypedOps, Calls, Stops, Services
<1> HIDE DEF a, b, c, d
<1>2. x \in Seq(TypedOps) /\ y \in Seq(TypedOps) /\ z \in Seq(TypedOps)
  BY <1>1
<1>3. /\ Len(x) = 3 /\ Len(y) = 1 /\ Len(z) = 4
      /\ x[1] = z[1] /\ x[2] = z[2] /\ x[3] = z[3] /\ y[1] = z[4]
  OBVIOUS
<1>4. EventBody(k) = IF k = "close" THEN x \o y ELSE x \o <<>>
  BY DEF EventBody, a, b, c, d
<1> HIDE DEF x, y, z
<1>5. Len(z) = Len(x) + Len(y) /\ \A i \in 1 .. Len(x) : z[i] = x[i]
  BY <1>3
<1>6. \A i \in 1 .. Len(y) : z[Len(x) + i] = y[i]
  BY <1>3
<1>7. x \o y = z /\ x \o <<>> = x
  BY <1>2, <1>5, <1>6, ConcatIs, ConcatEmptySeq
<1>8. EventBody(k) \in {x, z}
  BY <1>4, <1>7
<1>9. EventBody(k) \in Seq(TypedOps)
  BY <1>2, <1>8
<1> QED
  BY <1>8, <1>9 DEF x, z, a, b, c, d

LEMMA HeadIsTyped ==
  ASSUME ListTypes, NEW t \in Threads, todo[t] # <<>>
  PROVE  /\ todo[t] \in Seq(TypedOps) /\ Head(todo[t]) \in TypedOps
         /\ Tail(todo[t]) \in Seq(TypedOps) /\ Head(todo[t]) \in Members(todo[t])
         /\ Members(Tail(todo[t])) \subseteq Members(todo[t])
<1>1. todo[t] \in Seq(TypedOps)
  BY DEF ListTypes
<1> DEFINE q == todo[t]
<1>2. q # <<>> /\ q \in Seq(TypedOps)
  BY <1>1
<1> HIDE DEF q
<1>3. Head(q) \in TypedOps /\ Tail(q) \in Seq(TypedOps) /\ <<>> \in Seq(TypedOps)
  BY <1>2, HeadTailProperties, EmptySeq
<1>4. Members(q) = {Head(q)} \cup Members(Tail(q))
  BY <1>2, <1>3, MembersReplaced
<1> QED
  BY <1>2, <1>3, <1>4 DEF q

LEMMA ThenTypes ==
  ASSUME ListTypes, NEW t \in Threads, todo[t] # <<>>, NEW ops \in Seq(TypedOps), Then(t, ops)
  PROVE  /\ ListTypes' /\ todo'[t] = ops \o Tail(todo[t])
         /\ \A u \in Threads \ {t} : todo'[u] = todo[u]
<1>1. Tail(todo[t]) \in Seq(TypedOps)
  BY HeadIsTyped
<1>2. ops \o Tail(todo[t]) \in Seq(TypedOps)
  BY <1>1, ConcatProperties
<1>3. todo' = [todo EXCEPT ![t] = ops \o Tail(todo[t])]
  BY DEF Then
<1> QED
  BY <1>2, <1>3 DEF ListTypes

LEMMA NewListTypes ==
  ASSUME ListTypes, NEW t \in Threads, NEW q \in Seq(TypedOps), todo' = [todo EXCEPT ![t] = q]
  PROVE  /\ ListTypes' /\ todo'[t] = q
         /\ \A u \in Threads \ {t} : todo'[u] = todo[u]
BY DEF ListTypes

LEMMA NoThreadsTypes == ASSUME NoThreads PROVE ListTypes' /\ \A t \in Threads : todo'[t] = <<>>
<1>1. <<>> \in Seq(TypedOps)
  BY EmptySeq
<1> QED
  BY <1>1 DEF NoThreads, ListTypes

\* A thread that takes a step was up to something.
LEMMA AtHead ==
  ASSUME NEW t, NEW op, At(t, op)
  PROVE  proc = "up" /\ todo[t] # <<>> /\ Head(todo[t]) = op
BY DEF At

LEMMA WritingHead ==
  ASSUME ListTypes, NEW t \in Threads, NEW how, Writing(t, how)
  PROVE  /\ proc = "up" /\ todo[t] # <<>>
         /\ how = "toggle" => Head(todo[t]) \in Toggles
         /\ how = "write" => Head(todo[t]) \in Writes
<1>1. proc = "up" /\ todo[t] # <<>> /\ Head(todo[t])[1] = how
  BY DEF Writing
<1>2. Head(todo[t]) \in TypedOps
  BY <1>1, HeadIsTyped
<1>3. \A o \in Toggles : o[1] = "toggle"
  BY DEF Toggles, Toggle
<1>4. \A o \in Writes : o[1] = "write"
  BY DEF Writes, Write
<1>5. \A o \in Calls : o[1] \notin {"toggle", "write"}
  <2>1. \A f : Call(f)[1] = f
    BY DEF Call
  <2> QED
    BY <2>1 DEF Calls
<1>6. \A o \in Stops \cup Clears : o[1] \notin {"toggle", "write"}
  <2>1. \A x : Stop(x)[1] = "stop" /\ Clear(x)[1] = "clear"
    BY DEF Stop, Clear
  <2> QED
    BY <2>1 DEF Stops, Clears
<1>7. \A o \in Joins \cup Destroys : o[1] \notin {"toggle", "write"}
  <2>1. \A x : Join(x)[1] = "join" /\ Destroy(x)[1] = "destroy"
    BY DEF Join, Destroy
  <2> QED
    BY <2>1 DEF Joins, Destroys
<1> QED
  BY <1>1, <1>2, <1>3, <1>4, <1>5, <1>6, <1>7 DEF TypedOps

LEMMA WrittenFields ==
  ASSUME ValueTypes, NEW t \in Threads, Head(todo[t]) \in Toggles \cup Writes, reg' = Written(t)
  PROVE  /\ reg' \in Registry
         /\ \A v : Head(todo[t]) \in {Toggle("enable", v), Write("enable", v)} =>
               reg'.enable = v /\ reg'.server = reg.server /\ reg'.override = reg.override
         /\ \A v : Head(todo[t]) \in {Toggle("server", v), Write("server", v)} =>
               reg'.server = v /\ reg'.enable = reg.enable /\ reg'.override = reg.override
         /\ \A v : Head(todo[t]) \in {Toggle("override", v), Write("override", v)} =>
               reg'.override = v /\ reg'.enable = reg.enable /\ reg'.server = reg.server
<1> DEFINE o == Head(todo[t])
<1>1. reg' = [reg EXCEPT ![o[2]] = o[3]]
  BY DEF Written
<1>2. \/ o[2] = "enable" /\ o[3] \in {"on", "off"}
      \/ o[2] = "server" /\ o[3] \in {"none", "user"} \cup Ports
      \/ o[2] = "override" /\ o[3] \in {"none", "user", "rift"}
  BY DEF Toggles, Writes, Toggle, Write
<1>3. /\ \A f, v : o \in {Toggle(f, v), Write(f, v)} => o[2] = f /\ o[3] = v
  BY DEF Toggle, Write
<1> HIDE DEF o
<1>4. /\ o[2] = "enable" => /\ reg' \in Registry /\ reg'.enable = o[3]
                            /\ reg'.server = reg.server /\ reg'.override = reg.override
      /\ o[2] = "server" => /\ reg' \in Registry /\ reg'.server = o[3]
                            /\ reg'.enable = reg.enable /\ reg'.override = reg.override
      /\ o[2] = "override" => /\ reg' \in Registry /\ reg'.override = o[3]
                              /\ reg'.enable = reg.enable /\ reg'.server = reg.server
  BY <1>1, <1>2 DEF ValueTypes, Registry, Texts
<1>5. reg' \in Registry
  BY <1>2, <1>4
<1> QED
  BY <1>3, <1>4, <1>5 DEF o

LEMMA TypesInit == ProcessInit => Types
<1> SUFFICES ASSUME ProcessInit PROVE Types
  OBVIOUS
<1>1. saved \in Saved
  BY DEF ProcessInit, NotSaved, Saved
<1>2. ListTypes
  <2>1. ConsoleMain \in Seq(TypedOps) /\ ServiceMain \in Seq(TypedOps) /\ <<>> \in Seq(TypedOps)
    BY <1>1, BodyTypes
  <2>2. Main[kind] \in Seq(TypedOps)
    BY <2>1 DEF ProcessInit, Main
  <2> QED
    BY <2>1, <2>2 DEF ProcessInit, Begun, ListTypes
<1>3. MaxRuns \in Nat \ {0} /\ Users \subseteq Registry
  BY ProcessAssumption
<1>4. 1 \in 1 .. MaxRuns
  BY <1>3
<1>5. ValueTypes
  <2>1. stopEvent \in BOOLEAN
    BY DEF ProcessInit
  <2>2. restored \in [Threads -> {"no", "going", "done", "spoilt"}]
    BY DEF ProcessInit
  <2> QED
    BY <1>1, <1>3, <1>4, <2>1, <2>2 DEF ProcessInit, ValueTypes
<1> QED
  BY <1>2, <1>5 DEF Types

LEMMA RegStepTypes ==
  ASSUME Types, NEW t \in Threads, RegStep(t)
  PROVE  Types'
<1> USE DEF Types
<1>1. saved \in Saved /\ <<>> \in Seq(TypedOps) /\ RestoreBody \in Seq(TypedOps)
  BY BodyTypes DEF ValueTypes
<1>2. CASE Save(t)
  <2>1. ListTypes'
    BY <1>1, <1>2, AtHead, ThenTypes DEF Save
  <2>2. saved' \in Saved
    <3>1. reg \in Registry
      BY DEF ValueTypes
    <3>2. /\ reg.enable \in {"on", "off"} /\ ReadText(reg.server) \in {"none", "user"} \cup Ports
          /\ ReadText(reg.override) \in {"none", "user", "rift"}
      BY <3>1 DEF Registry, Texts, ReadText
    <3> QED
      BY <1>1, <1>2, <3>2 DEF Save, Saved
  <2> QED
    BY <1>2, <2>1, <2>2 DEF Save, ValueTypes, lifeVars, flagVars, histVars
<1>3. CASE RegToggle(t)
  <2>1. todo[t] # <<>> /\ Head(todo[t]) \in Toggles
    BY <1>3, WritingHead DEF RegToggle
  <2>2. ListTypes'
    BY <1>1, <1>3, <2>1, ThenTypes DEF RegToggle
  <2>3. reg' \in Registry
    BY <1>3, <2>1, WrittenFields DEF RegToggle
  <2>4. restored' \in [Threads -> {"no", "going", "done", "spoilt"}]
    BY <1>3 DEF RegToggle
  <2> QED
    BY <1>3, <2>2, <2>3, <2>4 DEF RegToggle, ValueTypes, lifeVars, flagVars
<1>4. CASE RegWrite(t)
  <2>1. todo[t] # <<>> /\ Head(todo[t]) \in Writes
    BY <1>4, WritingHead DEF RegWrite
  <2>2. ListTypes'
    BY <1>1, <1>4, <2>1, ThenTypes DEF RegWrite
  <2>3. reg' \in Registry
    BY <1>4, <2>1, WrittenFields DEF RegWrite
  <2> QED
    BY <1>4, <2>2, <2>3 DEF RegWrite, ValueTypes, lifeVars, flagVars, histVars
<1>5. CASE Restore(t)
  <2>1. ListTypes'
    BY <1>1, <1>5, AtHead, ThenTypes DEF Restore
  <2>2. restored' \in [Threads -> {"no", "going", "done", "spoilt"}]
    BY <1>5 DEF Restore, ValueTypes
  <2> QED
    BY <1>5, <2>1, <2>2 DEF Restore, ValueTypes, lifeVars, regVars, flagVars
<1>6. CASE Restored(t)
  <2>1. ListTypes'
    BY <1>1, <1>6, AtHead, ThenTypes DEF Restored
  <2>2. restored' \in [Threads -> {"no", "going", "done", "spoilt"}]
    BY <1>6 DEF Restored, ValueTypes
  <2> QED
    BY <1>6, <2>1, <2>2 DEF Restored, ValueTypes, lifeVars, regVars, flagVars
<1> QED
  BY <1>2, <1>3, <1>4, <1>5, <1>6 DEF RegStep

LEMMA ProceedTypes ==
  ASSUME Types, NEW t \in Threads, NEW op, NEW ops \in Seq(TypedOps), Proceed(t, op, ops)
  PROVE  Types'
<1>1. ListTypes'
  BY AtHead, ThenTypes DEF Proceed, Types
<1> QED
  BY <1>1 DEF Proceed, Types, ValueTypes, lifeVars, regVars, flagVars, histVars

LEMMA ServerStepTypes ==
  ASSUME Types, NEW t \in Threads, ServerStep(t)
  PROVE  Types'
<1> USE DEF Types
<1>1. /\ saved \in Saved /\ <<>> \in Seq(TypedOps) /\ AfterNoBind \in Seq(TypedOps)
      /\ \A x \in Services : StopBody(x) \in Seq(TypedOps)
      /\ <<Write("enable", "off")>> \in Seq(TypedOps)
  BY BodyTypes DEF ValueTypes
<1>2. CASE StartFails(t)
  <2>1. ListTypes'
    BY <1>1, <1>2, NewListTypes DEF StartFails
  <2> QED
    BY <1>2, <2>1 DEF StartFails, ValueTypes, lifeVars, regVars, flagVars, histVars
<1>3. CASE Start(t)
  <2>1. conf.sysproxy \in BOOLEAN /\ conf.port \in Ports
    BY DEF ValueTypes, ConfigFile
  <2>2. ListTypes'
    BY <1>3, <2>1, StartForms, AtHead, ThenTypes DEF Start
  <2>3. on' \subseteq Services /\ bound' \in Ports \cup {"none"}
    BY <1>3, <2>1 DEF Start, ValueTypes, Services
  <2> QED
    BY <1>3, <2>2, <2>3 DEF Start, ValueTypes, lifeVars, regVars, histVars
<1>4. CASE NoApi(t)
  BY <1>1, <1>4, ProceedTypes DEF NoApi
<1>5. CASE StopDisable(t)
  BY <1>1, <1>5, ProceedTypes DEF StopDisable
<1>6. CASE Unbind(t)
  <2>1. ListTypes'
    BY <1>1, <1>6, AtHead, ThenTypes DEF Unbind
  <2> QED
    BY <1>6, <2>1 DEF Unbind, ValueTypes, lifeVars, regVars, histVars
<1>7. ASSUME NEW call, NEW flag \in SUBSET Services, NEW helper \in Helpers, Launch(t, call, flag, helper)
      PROVE  Types'
  <2>1. ListTypes'
    BY <1>1, <1>7, AtHead, ThenTypes DEF Launch
  <2> QED
    BY <1>7, <2>1 DEF Launch, ValueTypes, lifeVars, regVars, histVars
<1>8. CASE \/ Launch(t, "start_checker", {"checker"}, "checker")
           \/ Launch(t, "start_accept", {}, "accept")
           \/ Launch(t, "api_start", {"api"}, "listen")
  BY <1>7, <1>8 DEF Services, Helpers
<1>9. ASSUME NEW x \in Services, StopTest(t, x)
      PROVE  Types'
  BY <1>1, <1>9, ProceedTypes DEF StopTest
<1>10. ASSUME NEW x \in Services, StopClear(t, x)
       PROVE  Types'
  <2>1. ListTypes'
    BY <1>1, <1>10, AtHead, ThenTypes DEF StopClear
  <2> QED
    BY <1>10, <2>1 DEF StopClear, ValueTypes, lifeVars, regVars, histVars
<1>11. ASSUME NEW h \in Helpers, JoinEnds(t, h)
       PROVE  Types'
  <2>1. ListTypes'
    BY <1>1, <1>11, AtHead, ThenTypes DEF JoinEnds
  <2> QED
    BY <1>11, <2>1 DEF JoinEnds, ValueTypes, lifeVars, regVars, histVars
<1>12. ASSUME NEW h \in Helpers, JoinTwice(t, h)
       PROVE  Types'
  <2>1. ListTypes'
    BY <1>12, NoThreadsTypes DEF JoinTwice, Abort
  <2> QED
    BY <1>12, <2>1 DEF JoinTwice, Abort, ValueTypes, lifeVars, regVars, flagVars, histVars
<1>13. ASSUME NEW h \in Helpers, DestroyThread(t, h)
       PROVE  Types'
  <2>1. ListTypes'
    BY <1>1, <1>13, AtHead, ThenTypes, NoThreadsTypes DEF DestroyThread, Abort
  <2> QED
    BY <1>13, <2>1 DEF DestroyThread, Abort, ValueTypes, lifeVars, regVars, flagVars, histVars
<1> QED
  BY <1>2, <1>3, <1>4, <1>5, <1>6, <1>8, <1>9, <1>10, <1>11, <1>12, <1>13 DEF ServerStep

LEMMA MainStepTypes ==
  ASSUME Types, NEW t \in Threads, MainStep(t)
  PROVE  Types'
<1> USE DEF Types
<1>1. /\ saved \in Saved /\ <<>> \in Seq(TypedOps) /\ ExitBody \in Seq(TypedOps)
      /\ <<Call("read"), Call("cli")>> \in Seq(TypedOps)
  BY BodyTypes DEF ValueTypes
<1>2. CASE CliTest(t)
  BY <1>1, <1>2, ProceedTypes DEF CliTest
<1>3. CASE ServiceWait(t)
  BY <1>1, <1>3, ProceedTypes DEF ServiceWait
<1>4. CASE Exit(t)
  BY <1>1, <1>4, ProceedTypes DEF Exit
<1>5. CASE End(t)
  <2>1. ListTypes'
    BY <1>5, NoThreadsTypes DEF End
  <2> QED
    BY <1>5, <2>1 DEF End, ValueTypes, lifeVars, regVars, flagVars, histVars
<1> QED
  BY <1>2, <1>3, <1>4, <1>5 DEF MainStep

\* What follows the next two operations of a list.
LEMMA TailTail ==
  ASSUME NEW S, NEW q \in Seq(S), Len(q) > 1
  PROVE  /\ Tail(Tail(q)) \in Seq(S) /\ Len(Tail(Tail(q))) = Len(q) - 2
         /\ \A i \in 1 .. Len(q) - 2 : Tail(Tail(q))[i] = q[i + 2]
<1> DEFINE r == Tail(q)
<1>1. Len(q) \in Nat /\ q # <<>>
  BY LenProperties, EmptySeq
<1>2. r \in Seq(S) /\ Len(r) = Len(q) - 1 /\ \A i \in 1 .. Len(r) : r[i] = q[i + 1]
  BY <1>1, HeadTailProperties
<1> HIDE DEF r
<1>3. r # <<>>
  BY <1>1, <1>2, EmptySeq
<1>4. Tail(r) \in Seq(S) /\ Len(Tail(r)) = Len(r) - 1 /\ \A i \in 1 .. Len(Tail(r)) : Tail(r)[i] = r[i + 1]
  BY <1>2, <1>3, HeadTailProperties
<1>5. \A i \in 1 .. Len(q) - 2 : Tail(r)[i] = q[i + 2]
  <2> SUFFICES ASSUME NEW i \in 1 .. Len(q) - 2 PROVE Tail(r)[i] = q[i + 2]
    OBVIOUS
  <2>1. i \in 1 .. Len(Tail(r)) /\ i + 1 \in 1 .. Len(r) /\ (i + 1) + 1 = i + 2
    BY <1>1, <1>2, <1>4
  <2> QED
    BY <1>2, <1>4, <2>1
<1>6. Len(Tail(r)) = Len(q) - 2
  BY <1>1, <1>2, <1>4
<1> QED
  BY <1>4, <1>5, <1>6 DEF r

\* A command is read only where the loop goes on after it.
ReadOK ==
    \A i \in 1 .. Len(todo["main"]) : todo["main"][i] = Call("read") =>
       i = 1 /\ Len(todo["main"]) > 1 /\ todo["main"][2] = Call("cli")

LEMMA EofList ==
  ASSUME ListTypes, ReadOK, CliEof("main")
  PROVE  /\ Len(todo["main"]) > 1 /\ todo["main"] \in Seq(TypedOps)
         /\ todo["main"][1] = Call("read") /\ todo["main"][2] = Call("cli")
         /\ Tail(Tail(todo["main"])) \in Seq(TypedOps)
         /\ todo' = [todo EXCEPT !["main"] = Tail(Tail(todo["main"]))]
<1>1. "main" \in Threads
  BY DEF Threads
<1> DEFINE q == todo["main"]
<1>2. q \in Seq(TypedOps) /\ q # <<>> /\ Head(q) = Call("read")
  BY <1>1, AtHead DEF CliEof, ListTypes
<1>3. ReadOK => \A i \in 1 .. Len(q) : q[i] = Call("read") => i = 1 /\ Len(q) > 1 /\ q[2] = Call("cli")
  BY DEF ReadOK
<1> HIDE DEF q
<1>4. Len(q) \in Nat \ {0} /\ Head(q) = q[1]
  BY <1>2, HeadTailProperties, EmptySeq
<1>5. 1 \in 1 .. Len(q) /\ q[1] = Call("read")
  BY <1>2, <1>4
<1>6. Len(q) > 1 /\ q[2] = Call("cli")
  BY <1>3, <1>5
<1>7. Tail(Tail(q)) \in Seq(TypedOps)
  BY <1>2, <1>6, TailTail
<1>8. todo' = [todo EXCEPT !["main"] = Tail(Tail(q))]
  BY DEF CliEof, q
<1> QED
  BY <1>2, <1>5, <1>6, <1>7, <1>8 DEF q

LEMMA TypesStep ==
  ASSUME Types, ReadOK, [ProcessNext]_processVars
  PROVE  Types'
<1>1. "main" \in Threads /\ "ctrl" \in Threads /\ ApiThreads \subseteq Threads
  BY DEF Threads
<1>2. /\ saved \in Saved /\ <<>> \in Seq(TypedOps) /\ Disable \in Seq(TypedOps)
      /\ <<Stop("server")>> \in Seq(TypedOps) /\ Enable(conf.port) \in Seq(TypedOps)
  <2>1. saved \in Saved /\ conf.port \in Ports
    BY DEF Types, ValueTypes, ConfigFile
  <2> QED
    BY <2>1, BodyTypes, EnableForms DEF Services
<1>3. CASE UNCHANGED processVars
  BY <1>3 DEF Types, ValueTypes, ListTypes, processVars, lifeVars, regVars, flagVars, histVars
<1>4. ASSUME NEW t \in Threads, ThreadStep(t) PROVE Types'
  BY <1>4, RegStepTypes, ServerStepTypes, MainStepTypes DEF ThreadStep
<1>5. CASE CliCommand("main")
  <2>1. ListTypes'
    BY <1>1, <1>2, <1>5, AtHead, ThenTypes DEF CliCommand, Types
  <2> QED
    BY <1>5, <2>1 DEF CliCommand, Types, ValueTypes, lifeVars, regVars, flagVars
<1>6. CASE CliEof("main")
  <2>1. ListTypes'
    BY <1>1, <1>6, EofList, NewListTypes DEF Types
  <2> QED
    BY <1>6, <2>1 DEF CliEof, Types, ValueTypes, lifeVars, regVars, flagVars
<1>7. ASSUME NEW c \in ConfigFile, CliReload("main", c) PROVE Types'
  <2>1. ListTypes'
    BY <1>1, <1>2, <1>7, AtHead, ThenTypes DEF CliReload, Types
  <2> QED
    BY <1>7, <2>1 DEF CliReload, Types, ValueTypes, lifeVars, regVars, flagVars, histVars
<1>8. ASSUME NEW t \in ApiThreads, ApiRequest(t) PROVE Types'
  <2>1. ListTypes'
    BY <1>1, <1>2, <1>8, NewListTypes DEF ApiRequest, Types
  <2> QED
    BY <1>8, <2>1 DEF ApiRequest, Types, ValueTypes, lifeVars, regVars, flagVars, histVars
<1>9. ASSUME NEW k \in {"ctrl", "close"}, ConsoleEvent(k) PROVE Types'
  <2>1. todo' = [todo EXCEPT !["ctrl"] = EventBody(k)]
    BY <1>9 DEF ConsoleEvent, EventBody
  <2>2. ListTypes'
    BY <1>1, <2>1, EventForms, NewListTypes DEF Types
  <2> QED
    BY <1>9, <2>2 DEF ConsoleEvent, Types, ValueTypes, lifeVars, regVars, flagVars
<1>10. CASE ServiceStop
  BY <1>10 DEF ServiceStop, Types, ValueTypes, ListTypes, lifeVars, regVars, flagVars, histVars
<1>11. CASE Crash
  <2>1. ListTypes'
    BY <1>11, NoThreadsTypes DEF Crash
  <2> QED
    BY <1>11, <2>1 DEF Crash, Types, ValueTypes, lifeVars, regVars, histVars
<1> QED
  BY <1>3, <1>4, <1>5, <1>6, <1>7, <1>8, <1>9, <1>10, <1>11 DEF ProcessNext

-----------------------------------------------------------------------------
(* Who moves, and what becomes of the lists.                               *)

main == todo["main"]
ctrl == todo["ctrl"]
NoEvent == seen \cap {"ctrl", "close"} = {}

\* Calls that lead to no other steps.
Plain == Toggles \cup Writes \cup Clears \cup Joins \cup Destroys
         \cup {Call(f) : f \in {"init", "api_start", "restored", "wait", "start_checker",
                                "start_accept", "unbind"}}

\* What an operation may be replaced by.
Expands(op, ops) ==
    \/ op \in Plain /\ ops = <<>>
    \/ op = Call("restore") /\ ops = IF saved.have THEN RestoreBody ELSE <<>>
    \/ /\ op = Call("start")
       /\ ops = (IF conf.sysproxy THEN Enable(conf.port) ELSE <<>>)
                \o <<Call("start_checker"), Call("start_accept")>>
    \/ \E x \in Services : op = Stop(x) /\ ops = IF x \in on THEN StopBody(x) ELSE <<>>
    \/ op = Call("stop_disable") /\ ops = IF conf.sysproxy THEN <<Write("enable", "off")>> ELSE <<>>
    \/ op = Call("cli") /\ ops = IF "server" \in on THEN <<Call("read"), Call("cli")>> ELSE <<>>
    \/ op = Call("read") /\ ops \in {Enable(conf.port), Disable, <<>>, <<Stop("server")>>}
    \/ op = Call("exit") /\ ops = ExitBody

Moves(t) ==
    /\ proc = "up" /\ proc' = "up" /\ todo[t] # <<>>
    /\ \E ops \in Seq(TypedOps) : Expands(Head(todo[t]), ops) /\ Then(t, ops)

Listing ==
    \/ UNCHANGED <<todo, proc>>
    \/ NoThreads /\ proc' # "up"
    \/ \E t \in Threads : Moves(t)
    \/ \E t \in Threads : At(t, Call("start")) /\ proc' = "up" /\ todo' = [todo EXCEPT ![t] = AfterNoBind]
    \/ CliEof("main")
    \/ \E t \in ApiThreads : ApiRequest(t)
    \/ \E k \in {"ctrl", "close"} : ConsoleEvent(k)

LEMMA ExpandsTyped ==
  ASSUME Types, NEW op, NEW ops, Expands(op, ops)
  PROVE  ops \in Seq(TypedOps)
<1>1. saved \in Saved /\ conf.port \in Ports /\ conf.sysproxy \in BOOLEAN
  BY DEF Types, ValueTypes, ConfigFile
<1>2. Enable(conf.port) \in Seq(TypedOps)
  BY <1>1, EnableForms
<1>3. (IF conf.sysproxy THEN Enable(conf.port) ELSE <<>>)
         \o <<Call("start_checker"), Call("start_accept")>> \in Seq(TypedOps)
  BY <1>1, StartForms
<1>4. /\ RestoreBody \in Seq(TypedOps) /\ ExitBody \in Seq(TypedOps)
      /\ Disable \in Seq(TypedOps)
      /\ \A x \in Services : StopBody(x) \in Seq(TypedOps)
      /\ \A x \in Services : <<Stop(x)>> \in Seq(TypedOps)
      /\ <<>> \in Seq(TypedOps)
      /\ <<Write("enable", "off")>> \in Seq(TypedOps)
      /\ <<Call("read"), Call("cli")>> \in Seq(TypedOps)
  BY <1>1, BodyTypes
<1>5. <<Stop("server")>> \in Seq(TypedOps)
  BY <1>4 DEF Services
<1> QED
  BY <1>2, <1>3, <1>4, <1>5 DEF Expands

LEMMA MovesIf ==
  ASSUME Types, NEW t \in Threads, NEW op, NEW ops, At(t, op), Expands(op, ops), Then(t, ops), proc' = proc
  PROVE  Moves(t)
<1>1. ops \in Seq(TypedOps)
  BY ExpandsTyped
<1> QED
  BY <1>1, AtHead DEF Moves

LEMMA RegMoves ==
  ASSUME Types, NEW t \in Threads, RegStep(t)
  PROVE  Moves(t) /\ kind' = kind
<1>1. CASE Save(t)
  <2>1. Call("init") \in Plain
    BY DEF Plain
  <2>2. At(t, Call("init")) /\ Then(t, <<>>) /\ proc' = proc /\ kind' = kind
    BY <1>1 DEF Save, lifeVars
  <2> QED
    BY <2>1, <2>2, MovesIf DEF Expands
<1>2. CASE RegToggle(t) \/ RegWrite(t)
  <2>1. todo[t] # <<>> /\ proc = "up" /\ Head(todo[t]) \in Plain
    BY <1>2, WritingHead DEF RegToggle, RegWrite, Types, Plain
  <2>2. Then(t, <<>>) /\ proc' = proc /\ kind' = kind
    BY <1>2 DEF RegToggle, RegWrite, lifeVars
  <2> QED
    BY <2>1, <2>2, EmptySeq DEF Expands, Moves
<1>3. CASE Restore(t)
  <2>1. /\ At(t, Call("restore")) /\ Then(t, IF saved.have THEN RestoreBody ELSE <<>>)
        /\ proc' = proc /\ kind' = kind
    BY <1>3 DEF Restore, lifeVars
  <2> QED
    BY <2>1, MovesIf DEF Expands
<1>4. CASE Restored(t)
  <2>1. Call("restored") \in Plain
    BY DEF Plain
  <2>2. At(t, Call("restored")) /\ Then(t, <<>>) /\ proc' = proc /\ kind' = kind
    BY <1>4 DEF Restored, lifeVars
  <2> QED
    BY <2>1, <2>2, MovesIf DEF Expands
<1> QED
  BY <1>1, <1>2, <1>3, <1>4 DEF RegStep

LEMMA WhoMoves ==
  ASSUME Types, [ProcessNext]_processVars
  PROVE  Listing /\ kind' = kind
<1>1. "main" \in Threads
  BY DEF Threads
<1>2. CASE UNCHANGED processVars
  BY <1>2 DEF processVars, Listing, lifeVars
<1>3. ASSUME NEW t \in Threads, RegStep(t) PROVE Moves(t) /\ kind' = kind
  BY <1>3, RegMoves
<1>4. ASSUME NEW t \in Threads, ServerStep(t) PROVE Listing /\ kind' = kind
  <2>1. CASE StartFails(t)
    BY <2>1, AtHead DEF StartFails, Listing, lifeVars
  <2>2. CASE Start(t)
    <3>1. /\ At(t, Call("start")) /\ proc' = proc /\ kind' = kind
          /\ Then(t, (IF conf.sysproxy THEN Enable(conf.port) ELSE <<>>)
                     \o <<Call("start_checker"), Call("start_accept")>>)
      BY <2>2 DEF Start, lifeVars
    <3>2. Expands(Call("start"), (IF conf.sysproxy THEN Enable(conf.port) ELSE <<>>)
                     \o <<Call("start_checker"), Call("start_accept")>>)
      BY DEF Expands
    <3> QED
      BY <3>1, <3>2, MovesIf DEF Listing
  <2>3. CASE NoApi(t)
    <3>1. Call("api_start") \in Plain
      BY DEF Plain
    <3>2. At(t, Call("api_start")) /\ Then(t, <<>>) /\ proc' = proc /\ kind' = kind
      BY <2>3 DEF NoApi, Proceed, lifeVars
    <3> QED
      BY <3>1, <3>2, MovesIf DEF Listing, Expands
  <2>4. CASE StopDisable(t)
    <3>1. /\ At(t, Call("stop_disable")) /\ proc' = proc /\ kind' = kind
          /\ Then(t, IF conf.sysproxy THEN <<Write("enable", "off")>> ELSE <<>>)
      BY <2>4 DEF StopDisable, Proceed, lifeVars
    <3> QED
      BY <3>1, MovesIf DEF Listing, Expands
  <2>5. CASE Unbind(t)
    <3>1. Call("unbind") \in Plain
      BY DEF Plain
    <3>2. At(t, Call("unbind")) /\ Then(t, <<>>) /\ proc' = proc /\ kind' = kind
      BY <2>5 DEF Unbind, lifeVars
    <3> QED
      BY <3>1, <3>2, MovesIf DEF Listing, Expands
  <2>6. ASSUME NEW f \in {"start_checker", "start_accept", "api_start"}, NEW flag, NEW h, Launch(t, f, flag, h)
        PROVE  Listing /\ kind' = kind
    <3>1. Call(f) \in Plain
      BY DEF Plain
    <3>2. At(t, Call(f)) /\ Then(t, <<>>) /\ proc' = proc /\ kind' = kind
      BY <2>6 DEF Launch, lifeVars
    <3> QED
      BY <3>1, <3>2, MovesIf DEF Listing, Expands
  <2>7. ASSUME NEW x \in Services, StopTest(t, x) PROVE Listing /\ kind' = kind
    <3>1. /\ At(t, Stop(x)) /\ Then(t, IF x \in on THEN StopBody(x) ELSE <<>>)
          /\ proc' = proc /\ kind' = kind
      BY <2>7 DEF StopTest, Proceed, lifeVars
    <3>2. Expands(Stop(x), IF x \in on THEN StopBody(x) ELSE <<>>)
      BY DEF Expands
    <3> QED
      BY <3>1, <3>2, MovesIf DEF Listing
  <2>8. ASSUME NEW x \in Services, StopClear(t, x) PROVE Listing /\ kind' = kind
    <3>1. Clear(x) \in Plain
      BY DEF Plain, Clears
    <3>2. At(t, Clear(x)) /\ Then(t, <<>>) /\ proc' = proc /\ kind' = kind
      BY <2>8 DEF StopClear, lifeVars
    <3> QED
      BY <3>1, <3>2, MovesIf DEF Listing, Expands
  <2>9. ASSUME NEW h \in Helpers, JoinEnds(t, h) PROVE Listing /\ kind' = kind
    <3>1. Join(h) \in Plain
      BY DEF Plain, Joins
    <3>2. At(t, Join(h)) /\ Then(t, <<>>) /\ proc' = proc /\ kind' = kind
      BY <2>9 DEF JoinEnds, lifeVars
    <3> QED
      BY <3>1, <3>2, MovesIf DEF Listing, Expands
  <2>10. ASSUME NEW h \in Helpers, JoinTwice(t, h) PROVE Listing /\ kind' = kind
    BY <2>10 DEF JoinTwice, Abort, Listing, lifeVars
  <2>11. ASSUME NEW h \in Helpers, DestroyThread(t, h) PROVE Listing /\ kind' = kind
    <3>1. kind' = kind
      BY <2>11 DEF DestroyThread, lifeVars
    <3>2. CASE h \in joinable
      BY <2>11, <3>1, <3>2 DEF DestroyThread, Abort, Listing
    <3>3. CASE h \notin joinable
      <4>1. Destroy(h) \in Plain
        BY DEF Plain, Destroys
      <4>2. At(t, Destroy(h)) /\ Then(t, <<>>) /\ proc' = proc
        BY <2>11, <3>3 DEF DestroyThread
      <4> QED
        BY <3>1, <4>1, <4>2, MovesIf DEF Listing, Expands
    <3> QED
      BY <3>2, <3>3
  <2> QED
    BY <1>4, <2>1, <2>2, <2>3, <2>4, <2>5, <2>6, <2>7, <2>8, <2>9, <2>10, <2>11 DEF ServerStep
<1>5. ASSUME NEW t \in Threads, MainStep(t) PROVE Listing /\ kind' = kind
  <2>1. CASE CliTest(t)
    <3>1. /\ At(t, Call("cli")) /\ proc' = proc /\ kind' = kind
          /\ Then(t, IF "server" \in on THEN <<Call("read"), Call("cli")>> ELSE <<>>)
      BY <2>1 DEF CliTest, Proceed, lifeVars
    <3> QED
      BY <3>1, MovesIf DEF Listing, Expands
  <2>2. CASE ServiceWait(t)
    <3>1. Call("wait") \in Plain
      BY DEF Plain
    <3>2. At(t, Call("wait")) /\ Then(t, <<>>) /\ proc' = proc /\ kind' = kind
      BY <2>2 DEF ServiceWait, Proceed, lifeVars
    <3> QED
      BY <3>1, <3>2, MovesIf DEF Listing, Expands
  <2>3. CASE Exit(t)
    <3>1. At(t, Call("exit")) /\ Then(t, ExitBody) /\ proc' = proc /\ kind' = kind
      BY <2>3 DEF Exit, Proceed, lifeVars
    <3> QED
      BY <3>1, MovesIf DEF Listing, Expands
  <2>4. CASE End(t)
    BY <2>4 DEF End, Listing, lifeVars
  <2> QED
    BY <1>5, <2>1, <2>2, <2>3, <2>4 DEF MainStep
<1>6. CASE CliCommand("main")
  <2>1. At("main", Call("read")) /\ proc' = proc /\ kind' = kind
    BY <1>6 DEF CliCommand, lifeVars
  <2>2. \E ops \in {Enable(conf.port), Disable, <<>>, <<Stop("server")>>} : Then("main", ops)
    BY <1>6 DEF CliCommand
  <2>3. PICK ops : Then("main", ops) /\ Expands(Call("read"), ops)
    BY <2>2 DEF Expands
  <2> QED
    BY <1>1, <2>1, <2>3, MovesIf DEF Listing
<1>7. ASSUME NEW c \in ConfigFile, CliReload("main", c) PROVE Listing /\ kind' = kind
  <2>1. At("main", Call("read")) /\ Then("main", <<>>) /\ proc' = proc /\ kind' = kind
    BY <1>7 DEF CliReload, lifeVars
  <2>2. Expands(Call("read"), <<>>)
    BY DEF Expands
  <2> QED
    BY <1>1, <2>1, <2>2, MovesIf DEF Listing
<1>8. CASE CliEof("main")
  BY <1>8 DEF CliEof, Listing, lifeVars
<1>9. ASSUME NEW t \in ApiThreads, ApiRequest(t) PROVE Listing /\ kind' = kind
  BY <1>9 DEF ApiRequest, Listing, lifeVars
<1>10. ASSUME NEW k \in {"ctrl", "close"}, ConsoleEvent(k) PROVE Listing /\ kind' = kind
  BY <1>10 DEF ConsoleEvent, Listing, lifeVars
<1>11. CASE ServiceStop
  BY <1>11 DEF ServiceStop, Listing, lifeVars
<1>12. CASE Crash
  BY <1>12 DEF Crash, Listing, lifeVars
<1>13. ASSUME NEW t \in Threads, ThreadStep(t) PROVE Listing /\ kind' = kind
  BY <1>3, <1>4, <1>5, <1>13 DEF ThreadStep, Listing
<1> QED
  BY <1>2, <1>6, <1>7, <1>8, <1>9, <1>10, <1>11, <1>12, <1>13 DEF ProcessNext

-----------------------------------------------------------------------------
(* Which thread has what to do.                                            *)

\* Threads of the API toggle, and call init when nothing is saved.
ApiOps == Toggles \cup {Call("init")}
ApiOK == \A t \in ApiThreads : Members(todo[t]) \subseteq ApiOps

\* The thread of a console event restores, stops, and may end the process.
CtrlOps == {Call("restore"), Call("restored"), Call("stop_disable"), Call("unbind"), Call("end")}
           \cup Stops \cup Clears \cup Joins \cup Writes
CtrlOK == Members(ctrl) \subseteq CtrlOps /\ (NoEvent => ctrl = <<>>)

\* The order of what the main thread has to do.
Proper(q) ==
    \A i \in 1 .. Len(q) :
       /\ q[i] \in {Call("exit"), Call("end")} => i = Len(q)
       /\ q[i] = Call("read") => i = 1 /\ Len(q) > 1 /\ q[2] = Call("cli")
       /\ q[i] \in Clears => i = 1
       /\ q[i] = Call("restore") => Len(q) = i + 1 /\ kind = "console"
       /\ q[i] = Call("cli") => /\ Len(q) = i + 3 /\ kind = "console"
                                /\ q[i + 1] = Stop("api") /\ q[i + 2] = Call("restore")
MainOK == Proper(main)

\* Nothing runs before start().
StartOK ==
    Call("start") \in Members(main) =>
       /\ main = Main[kind] \/ (kind = "console" /\ main = Tail(ConsoleMain))
       /\ on = {} /\ joinable = {} /\ bound = "none"

WhoOK == ApiOK /\ CtrlOK /\ MainOK /\ StartOK

LEMMA MainIsRead == MainOK => ReadOK
BY DEF MainOK, Proper, ReadOK, main

\* Operations of different kinds differ.
LEMMA Kinds ==
  /\ \A o \in Toggles : o[1] = "toggle"
  /\ \A o \in Writes : o[1] = "write"
  /\ \A o \in Stops : o[1] = "stop"
  /\ \A o \in Clears : o[1] = "clear"
  /\ \A o \in Joins : o[1] = "join"
  /\ \A o \in Destroys : o[1] = "destroy"
  /\ \A f : Call(f)[1] = f
  /\ \A x : Stop(x)[1] = "stop" /\ Clear(x)[1] = "clear"
  /\ \A x : Join(x)[1] = "join" /\ Destroy(x)[1] = "destroy"
  /\ \A f, v : Toggle(f, v)[1] = "toggle" /\ Write(f, v)[1] = "write"
<1>1. \A o \in Toggles : o[1] = "toggle"
  BY DEF Toggles, Toggle
<1>2. \A o \in Writes : o[1] = "write"
  BY DEF Writes, Write
<1>3. /\ \A f : Call(f)[1] = f
      /\ \A x : Stop(x)[1] = "stop" /\ Clear(x)[1] = "clear"
      /\ \A x : Join(x)[1] = "join" /\ Destroy(x)[1] = "destroy"
      /\ \A f, v : Toggle(f, v)[1] = "toggle" /\ Write(f, v)[1] = "write"
  BY DEF Call, Stop, Clear, Join, Destroy, Toggle, Write
<1>4. (\A o \in Stops : o[1] = "stop") /\ (\A o \in Clears : o[1] = "clear")
  BY <1>3 DEF Stops, Clears
<1>5. (\A o \in Joins : o[1] = "join") /\ (\A o \in Destroys : o[1] = "destroy")
  BY <1>3 DEF Joins, Destroys
<1> QED
  BY <1>1, <1>2, <1>3, <1>4, <1>5

\* What the bodies hold.
LEMMA BodyMembers ==
  ASSUME saved \in Saved
  PROVE  /\ Members(<<>>) = {}
         /\ Members(RestoreBody) = {Write("enable", saved.enable), Write("server", saved.server),
                                    Write("override", saved.override), Call("restored")}
         /\ Members(RestoreBody) \subseteq Writes \cup {Call("restored")}
         /\ Members(Disable) = {Toggle("enable", "off")}
         /\ Members(ExitBody) = {Stop("api"), Destroy("listen"), Stop("server"), Destroy("accept"),
                                 Stop("checker"), Destroy("checker"), Call("end")}
         /\ Members(StopBody("server")) = {Clear("server"), Stop("checker"), Call("stop_disable"),
                                           Call("unbind"), Join("accept")}
         /\ Members(StopBody("api")) = {Clear("api"), Join("listen")}
         /\ Members(StopBody("checker")) = {Clear("checker"), Join("checker")}
         /\ Members(<<Write("enable", "off")>>) = {Write("enable", "off")}
         /\ Members(<<Call("read"), Call("cli")>>) = {Call("read"), Call("cli")}
         /\ Members(<<Stop("server")>>) = {Stop("server")}
<1>1. Members(RestoreBody) = {Write("enable", saved.enable), Write("server", saved.server),
                              Write("override", saved.override), Call("restored")}
  BY DEF Members, RestoreBody
<1>2. {Write("enable", saved.enable), Write("server", saved.server),
       Write("override", saved.override)} \subseteq Writes
  <2>1. /\ saved.enable \in {"on", "off"} /\ saved.server \in {"none", "user"} \cup Ports
        /\ saved.override \in {"none", "user", "rift"}
    BY DEF Saved
  <2> QED
    BY <2>1 DEF Writes
<1>3. Members(<<>>) = {} /\ Members(Disable) = {Toggle("enable", "off")}
  BY DEF Members, Disable
<1>4. Members(ExitBody) = {Stop("api"), Destroy("listen"), Stop("server"), Destroy("accept"),
                           Stop("checker"), Destroy("checker"), Call("end")}
  BY DEF Members, ExitBody
<1>5. /\ StopBody("server") = <<Clear("server"), Stop("checker"), Call("stop_disable"),
                                Call("unbind"), Join("accept")>>
      /\ StopBody("api") = <<Clear("api"), Join("listen")>>
      /\ StopBody("checker") = <<Clear("checker"), Join("checker")>>
  BY DEF StopBody, StopServer
<1>6. Members(StopBody("server")) = {Clear("server"), Stop("checker"), Call("stop_disable"),
                                     Call("unbind"), Join("accept")}
  BY <1>5 DEF Members
<1>7. /\ Members(StopBody("api")) = {Clear("api"), Join("listen")}
      /\ Members(StopBody("checker")) = {Clear("checker"), Join("checker")}
  BY <1>5 DEF Members
<1>8. /\ Members(<<Write("enable", "off")>>) = {Write("enable", "off")}
      /\ Members(<<Call("read"), Call("cli")>>) = {Call("read"), Call("cli")}
      /\ Members(<<Stop("server")>>) = {Stop("server")}
  BY DEF Members
<1> QED
  BY <1>1, <1>2, <1>3, <1>4, <1>6, <1>7, <1>8

LEMMA EnableMembers ==
  ASSUME NEW p \in Ports
  PROVE  Members(Enable(p)) \subseteq ApiOps
<1>1. /\ Toggle("enable", "on") \in ApiOps /\ Toggle("server", p) \in ApiOps
      /\ Toggle("override", "rift") \in ApiOps /\ Call("init") \in ApiOps
  BY DEF ApiOps, Toggles
<1>2. \/ Enable(p) = <<Toggle("enable", "on"), Toggle("server", p), Toggle("override", "rift")>>
      \/ Enable(p) = <<Call("init"), Toggle("enable", "on"), Toggle("server", p),
                       Toggle("override", "rift")>>
  BY EnableForms
<1> QED
  BY <1>1, <1>2 DEF Members

LEMMA StartMembers ==
  ASSUME NEW p \in Ports, NEW b \in BOOLEAN
  PROVE  LET ops == (IF b THEN Enable(p) ELSE <<>>) \o <<Call("start_checker"), Call("start_accept")>>
         IN  Members(ops) \subseteq ApiOps \cup {Call("start_checker"), Call("start_accept")}
<1> DEFINE ops == (IF b THEN Enable(p) ELSE <<>>) \o <<Call("start_checker"), Call("start_accept")>>
<1>1. /\ Toggle("enable", "on") \in ApiOps /\ Toggle("server", p) \in ApiOps
      /\ Toggle("override", "rift") \in ApiOps /\ Call("init") \in ApiOps
  BY DEF ApiOps, Toggles
<1>2. \/ ops = <<Call("start_checker"), Call("start_accept")>>
      \/ ops = <<Toggle("enable", "on"), Toggle("server", p), Toggle("override", "rift"),
                 Call("start_checker"), Call("start_accept")>>
      \/ ops = <<Call("init"), Toggle("enable", "on"), Toggle("server", p),
                 Toggle("override", "rift"), Call("start_checker"), Call("start_accept")>>
  BY StartForms
<1> HIDE DEF ops
<1> DEFINE a == Toggle("enable", "on")
           s == Toggle("server", p)
           c == Toggle("override", "rift")
           n == Call("init")
           k == Call("start_checker")
           l == Call("start_accept")
<1>3. /\ Members(<<k, l>>) = {k, l}
      /\ Members(<<a, s, c, k, l>>) = {a, s, c, k, l}
      /\ Members(<<n, a, s, c, k, l>>) = {n, a, s, c, k, l}
  <2> HIDE DEF a, s, c, n, k, l
  <2>1. Members(<<k, l>>) = {k, l}
    BY DEF Members
  <2>2. Members(<<a, s, c, k, l>>) = {a, s, c, k, l}
    BY DEF Members
  <2>3. Members(<<n, a, s, c, k, l>>) = {n, a, s, c, k, l}
    BY DEF Members
  <2> QED
    BY <2>1, <2>2, <2>3
<1>4. Members(ops) \subseteq ApiOps \cup {k, l}
  BY <1>1, <1>2, <1>3
<1> QED
  BY <1>4 DEF ops

LEMMA SeenGrows == ASSUME [ProcessNext]_processVars PROVE seen \subseteq seen'
<1>1. CASE UNCHANGED processVars
  BY <1>1 DEF processVars, histVars
<1>2. ASSUME NEW t \in Threads, ThreadStep(t) PROVE seen' = seen
  <2>1. CASE RegStep(t)
    BY <2>1 DEF RegStep, Save, RegToggle, RegWrite, Restore, Restored, histVars
  <2>2. CASE ServerStep(t)
    BY <2>2 DEF ServerStep, StartFails, Start, NoApi, StopDisable, Unbind, Launch, StopTest, StopClear,
         JoinEnds, JoinTwice, DestroyThread, Proceed, histVars
  <2>3. CASE MainStep(t)
    BY <2>3 DEF MainStep, CliTest, ServiceWait, Exit, End, Proceed, histVars
  <2> QED
    BY <1>2, <2>1, <2>2, <2>3 DEF ThreadStep
<1>3. CASE \/ CliCommand("main") \/ CliEof("main")
           \/ \E c \in ConfigFile : CliReload("main", c)
           \/ \E t \in ApiThreads : ApiRequest(t)
           \/ \E k \in {"ctrl", "close"} : ConsoleEvent(k)
           \/ ServiceStop \/ Crash
  BY <1>3 DEF CliCommand, CliEof, CliReload, ApiRequest, ConsoleEvent, ServiceStop, Crash, histVars
<1> QED
  BY <1>1, <1>2, <1>3 DEF ProcessNext

LEMMA ApiExpands ==
  ASSUME NEW op \in ApiOps, NEW ops, Expands(op, ops)
  PROVE  ops = <<>>
<1>1. op[1] \in {"toggle", "init"}
  BY Kinds DEF ApiOps
<1> QED
  BY <1>1, Kinds DEF Expands

LEMMA ApiStep ==
  ASSUME Types, ApiOK, Listing
  PROVE  ApiOK'
<1>1. ListTypes /\ ApiThreads \subseteq Threads /\ "main" \notin ApiThreads /\ "ctrl" \notin ApiThreads
      /\ "main" \in Threads /\ "ctrl" \in Threads /\ saved \in Saved /\ conf.port \in Ports
  BY ProcessAssumption DEF Types, ValueTypes, Threads, ConfigFile
<1> SUFFICES ASSUME NEW u \in ApiThreads PROVE Members(todo'[u]) \subseteq ApiOps
  BY DEF ApiOK, ApiOps, Toggles
<1>2. Members(todo[u]) \subseteq ApiOps
  BY DEF ApiOK
<1>3. CASE UNCHANGED <<todo, proc>>
  BY <1>2, <1>3
<1>4. CASE NoThreads
  <2>1. todo'[u] = <<>> /\ Members(<<>>) = {}
    BY <1>1, <1>4, NoThreadsTypes, BodyMembers
  <2> QED
    BY <2>1
<1>5. ASSUME NEW t \in Threads, Moves(t) PROVE Members(todo'[u]) \subseteq ApiOps
  <2>1. PICK ops \in Seq(TypedOps) : Expands(Head(todo[t]), ops) /\ Then(t, ops)
    BY <1>5 DEF Moves
  <2>2. todo[t] # <<>>
    BY <1>5 DEF Moves
  <2>3. CASE t = u
    <3>1. Head(todo[u]) \in Members(todo[u]) /\ Members(Tail(todo[u])) \subseteq Members(todo[u])
          /\ Tail(todo[u]) \in Seq(TypedOps)
      BY <1>1, <2>2, <2>3, HeadIsTyped
    <3>2. ops = <<>>
      BY <1>2, <2>1, <2>3, <3>1, ApiExpands
    <3>3. todo'[u] = <<>> \o Tail(todo[u])
      BY <1>1, <2>1, <2>2, <2>3, <3>2, ThenTypes
    <3>4. todo'[u] = Tail(todo[u])
      BY <3>1, <3>3, ConcatEmptySeq
    <3> QED
      BY <1>2, <3>1, <3>4
  <2>4. CASE t # u
    BY <1>1, <1>2, <2>1, <2>2, <2>4, ThenTypes
  <2> QED
    BY <2>3, <2>4
<1>6. ASSUME NEW t \in Threads, At(t, Call("start")), todo' = [todo EXCEPT ![t] = AfterNoBind]
      PROVE  Members(todo'[u]) \subseteq ApiOps
  <2>1. Head(todo[t]) = Call("start") /\ Head(todo[t]) \in Members(todo[t])
    BY <1>1, <1>6, AtHead, HeadIsTyped
  <2>2. Call("start") \notin ApiOps
    BY Kinds DEF ApiOps
  <2>3. t # u
    BY <1>2, <2>1, <2>2
  <2> QED
    BY <1>2, <1>6, <2>3
<1>7. CASE CliEof("main")
  BY <1>1, <1>2, <1>7 DEF CliEof
<1>8. ASSUME NEW t \in ApiThreads, ApiRequest(t) PROVE Members(todo'[u]) \subseteq ApiOps
  <2>1. PICK f \in {Enable(conf.port), Disable} : todo' = [todo EXCEPT ![t] = f]
    BY <1>8 DEF ApiRequest
  <2>2. Members(f) \subseteq ApiOps
    <3>1. Members(Disable) \subseteq ApiOps
      BY <1>1, BodyMembers DEF ApiOps, Toggles
    <3>2. Members(Enable(conf.port)) \subseteq ApiOps
      BY <1>1, EnableMembers
    <3> QED
      BY <3>1, <3>2
  <2>3. todo'[u] = todo[u] \/ todo'[u] = f
    BY <1>1, <2>1 DEF ListTypes
  <2> QED
    BY <1>2, <2>2, <2>3
<1>9. ASSUME NEW k \in {"ctrl", "close"}, ConsoleEvent(k) PROVE Members(todo'[u]) \subseteq ApiOps
  BY <1>1, <1>2, <1>9 DEF ConsoleEvent
<1> QED
  BY <1>3, <1>4, <1>5, <1>6, <1>7, <1>8, <1>9 DEF Listing

LEMMA CtrlExpands ==
  ASSUME Types, NEW op \in CtrlOps, NEW ops, Expands(op, ops)
  PROVE  Members(ops) \subseteq CtrlOps
<1>1. saved \in Saved
  BY DEF Types, ValueTypes
<1>2. op[1] \in {"restore", "restored", "stop_disable", "unbind", "end", "stop", "clear", "join", "write"}
  BY Kinds DEF CtrlOps
<1>3. op \notin {Call("start"), Call("cli"), Call("read"), Call("exit")}
  BY <1>2, Kinds
<1>4. CASE ops = <<>>
  BY <1>1, <1>4, BodyMembers
<1>5. CASE ops = RestoreBody
  BY <1>1, <1>5, BodyMembers DEF CtrlOps
<1>6. ASSUME NEW x \in Services, ops = StopBody(x) PROVE Members(ops) \subseteq CtrlOps
  <2>1. /\ \A y \in Services : Stop(y) \in CtrlOps /\ Clear(y) \in CtrlOps
        /\ \A h \in Helpers : Join(h) \in CtrlOps
        /\ Call("stop_disable") \in CtrlOps /\ Call("unbind") \in CtrlOps
    BY DEF CtrlOps, Stops, Clears, Joins
  <2>2. CASE x = "server"
    BY <1>1, <1>6, <2>1, <2>2, BodyMembers DEF Services, Helpers
  <2>3. CASE x = "api"
    BY <1>1, <1>6, <2>1, <2>3, BodyMembers DEF Services, Helpers
  <2>4. CASE x = "checker"
    BY <1>1, <1>6, <2>1, <2>4, BodyMembers DEF Services, Helpers
  <2> QED
    BY <2>2, <2>3, <2>4 DEF Services
<1>7. CASE ops = <<Write("enable", "off")>>
  <2>1. Write("enable", "off") \in CtrlOps
    BY DEF CtrlOps, Writes
  <2> QED
    BY <1>1, <1>7, <2>1, BodyMembers
<1> QED
  BY <1>3, <1>4, <1>5, <1>6, <1>7 DEF Expands

LEMMA CtrlStep ==
  ASSUME Types, CtrlOK, Listing, [ProcessNext]_processVars
  PROVE  CtrlOK'
<1>1. ListTypes /\ ApiThreads \subseteq Threads /\ "main" \notin ApiThreads /\ "ctrl" \notin ApiThreads
      /\ "main" \in Threads /\ "ctrl" \in Threads /\ saved \in Saved
  BY ProcessAssumption DEF Types, ValueTypes, Threads
<1>2. Members(ctrl) \subseteq CtrlOps /\ (NoEvent => ctrl = <<>>)
  BY DEF CtrlOK
<1>3. NoEvent' => NoEvent
  BY SeenGrows DEF NoEvent
<1>4. (CtrlOps)' = CtrlOps
  BY DEF CtrlOps, Stops, Clears, Joins, Writes
<1> SUFFICES ASSUME ctrl' # ctrl PROVE Members(ctrl') \subseteq CtrlOps /\ (NoEvent' => ctrl' = <<>>)
  BY <1>2, <1>3, <1>4 DEF CtrlOK
<1>5. CASE NoThreads
  <2>1. ctrl' = <<>> /\ Members(<<>>) = {}
    BY <1>1, <1>5, NoThreadsTypes, BodyMembers DEF ctrl
  <2> QED
    BY <2>1
<1>6. ASSUME NEW t \in Threads, Moves(t) PROVE Members(ctrl') \subseteq CtrlOps /\ (NoEvent' => ctrl' = <<>>)
  <2>1. PICK ops \in Seq(TypedOps) : Expands(Head(todo[t]), ops) /\ Then(t, ops)
    BY <1>6 DEF Moves
  <2>2. todo[t] # <<>>
    BY <1>6 DEF Moves
  <2>3. t = "ctrl" /\ ctrl' = ops \o Tail(ctrl)
    BY <1>1, <2>1, <2>2, ThenTypes DEF ctrl
  <2>4. ctrl \in Seq(TypedOps) /\ Members(ctrl) = {Head(ctrl)} \cup Members(Tail(ctrl))
        /\ Members(ctrl') = Members(ops) \cup Members(Tail(ctrl))
    <3> DEFINE q == ctrl
    <3>1. q \in Seq(TypedOps) /\ q # <<>> /\ ctrl' = ops \o Tail(q)
      BY <1>1, <2>2, <2>3 DEF ctrl, ListTypes
    <3> HIDE DEF q
    <3>2. /\ Members(ops \o Tail(q)) = Members(ops) \cup Members(Tail(q))
          /\ Members(q) = {Head(q)} \cup Members(Tail(q))
      BY <3>1, MembersReplaced
    <3> QED
      BY <3>1, <3>2 DEF q
  <2>5. Members(ops) \subseteq CtrlOps
    BY <1>2, <2>1, <2>3, <2>4, CtrlExpands DEF ctrl
  <2> QED
    BY <1>2, <1>3, <2>2, <2>3, <2>4, <2>5 DEF ctrl
<1>7. ASSUME NEW t \in Threads, At(t, Call("start")), todo' = [todo EXCEPT ![t] = AfterNoBind]
      PROVE  FALSE
  <2>1. Head(todo[t]) = Call("start") /\ Head(todo[t]) \in Members(todo[t])
    BY <1>1, <1>7, AtHead, HeadIsTyped
  <2>2. Call("start") \notin CtrlOps
    <3>1. \A o \in CtrlOps : o[1] \in {"restore", "restored", "stop_disable", "unbind", "end",
                                       "stop", "clear", "join", "write"}
      BY Kinds DEF CtrlOps
    <3>2. Call("start")[1] = "start"
      BY Kinds
    <3> QED
      BY <3>1, <3>2
  <2>3. t # "ctrl"
    BY <1>2, <2>1, <2>2 DEF ctrl
  <2> QED
    BY <1>7, <2>3 DEF ctrl
<1>8. CASE CliEof("main")
  BY <1>1, <1>8 DEF CliEof, ctrl
<1>9. ASSUME NEW t \in ApiThreads, ApiRequest(t) PROVE FALSE
  BY <1>1, <1>9 DEF ApiRequest, ctrl
<1>10. ASSUME NEW k \in {"ctrl", "close"}, ConsoleEvent(k)
       PROVE  Members(ctrl') \subseteq CtrlOps /\ (NoEvent' => ctrl' = <<>>)
  <2>1. ctrl' = EventBody(k) /\ ~NoEvent'
    BY <1>1, <1>10 DEF ConsoleEvent, EventBody, NoEvent, ctrl, ListTypes
  <2>2. /\ Call("restore") \in CtrlOps /\ Call("end") \in CtrlOps
        /\ Stop("api") \in CtrlOps /\ Stop("server") \in CtrlOps
    BY DEF CtrlOps, Stops, Services
  <2>3. Members(EventBody(k)) \subseteq CtrlOps
    <3>1. CASE EventBody(k) = <<Call("restore"), Stop("api"), Stop("server")>>
      BY <2>2, <3>1 DEF Members
    <3>2. CASE EventBody(k) = <<Call("restore"), Stop("api"), Stop("server"), Call("end")>>
      BY <2>2, <3>2 DEF Members
    <3> QED
      BY <3>1, <3>2, EventForms
  <2> QED
    BY <2>1, <2>3
<1> QED
  BY <1>5, <1>6, <1>7, <1>8, <1>9, <1>10 DEF Listing, ctrl

\* Operations that do not disturb the order of main's.
Milestones == {Call("exit"), Call("end"), Call("read"), Call("restore"), Call("cli")}
Quiet(ops) == \A i \in 1 .. Len(ops) : ops[i] \notin Milestones /\ (ops[i] \in Clears => i = 1)

LEMMA QuietExpands ==
  ASSUME Types, NEW op, NEW ops, Expands(op, ops)
  PROVE  \/ op = Call("cli") /\ ops = <<Call("read"), Call("cli")>>
         \/ op = Call("exit") /\ ops = ExitBody
         \/ Quiet(ops)
<1>1. saved \in Saved /\ conf.port \in Ports /\ conf.sysproxy \in BOOLEAN
  BY DEF Types, ValueTypes, ConfigFile
<1>2. \A o \in Milestones : o[1] \in {"exit", "end", "read", "restore", "cli"}
  BY Kinds DEF Milestones
<1>3. /\ \A o \in ApiOps : o[1] \in {"toggle", "init"}
      /\ \A o \in Writes : o[1] = "write"
      /\ \A o \in Clears : o[1] = "clear"
  BY Kinds DEF ApiOps
<1>4. ASSUME Members(ops) \cap Milestones = {}, Members(ops) \cap Clears = {} PROVE Quiet(ops)
  BY <1>4 DEF Quiet, Members
<1>5. CASE ops = <<>>
  BY <1>1, <1>4, <1>5, BodyMembers
<1>6. CASE ops = RestoreBody
  <2>1. \A o \in Members(ops) : o[1] \in {"write", "restored"}
    BY <1>1, <1>3, <1>6, BodyMembers, Kinds
  <2> QED
    BY <1>2, <1>3, <1>4, <2>1
<1>7. CASE ops = (IF conf.sysproxy THEN Enable(conf.port) ELSE <<>>)
                 \o <<Call("start_checker"), Call("start_accept")>>
  <2>1. Members(ops) \subseteq ApiOps \cup {Call("start_checker"), Call("start_accept")}
    BY <1>1, <1>7, StartMembers
  <2>2. \A o \in Members(ops) : o[1] \in {"toggle", "init", "start_checker", "start_accept"}
    BY <1>3, <2>1, Kinds
  <2> QED
    BY <1>2, <1>3, <1>4, <2>2
<1>8. CASE ops = Enable(conf.port) \/ ops = Disable \/ ops = <<Stop("server")>>
           \/ ops = <<Write("enable", "off")>>
  <2>1. Members(Disable) \subseteq ApiOps
    BY <1>1, BodyMembers DEF ApiOps, Toggles
  <2>2. \A o \in Members(ops) : o[1] \in {"toggle", "init", "stop", "write"}
    BY <1>1, <1>3, <1>8, <2>1, EnableMembers, BodyMembers, Kinds
  <2> QED
    BY <1>2, <1>3, <1>4, <2>2
<1>9. ASSUME NEW x \in Services, ops = StopBody(x) PROVE Quiet(ops)
  <2>1. /\ StopBody("server") = <<Clear("server"), Stop("checker"), Call("stop_disable"),
                                  Call("unbind"), Join("accept")>>
        /\ StopBody("api") = <<Clear("api"), Join("listen")>>
        /\ StopBody("checker") = <<Clear("checker"), Join("checker")>>
    BY DEF StopBody, StopServer
  <2>2. \A i \in 1 .. Len(ops) : ops[i][1] \in {"clear", "stop", "stop_disable", "unbind", "join"}
                                 /\ (ops[i][1] = "clear" => i = 1)
    <3>1. CASE x = "server"
      BY <1>9, <2>1, <3>1, Kinds
    <3>2. CASE x = "api"
      BY <1>9, <2>1, <3>2, Kinds
    <3>3. CASE x = "checker"
      BY <1>9, <2>1, <3>3, Kinds
    <3> QED
      BY <3>1, <3>2, <3>3 DEF Services
  <2> QED
    BY <1>2, <1>3, <2>2 DEF Quiet
<1> QED
  BY <1>5, <1>6, <1>7, <1>8, <1>9 DEF Expands

LEMMA ProperKept ==
  ASSUME NEW q \in Seq(TypedOps), q # <<>>, Proper(q), NEW ops \in Seq(TypedOps), Quiet(ops)
  PROVE  Proper(ops \o Tail(q))
<1> DEFINE w == ops \o Tail(q)
           n == Len(ops)
<1>1. /\ w \in Seq(TypedOps) /\ Len(q) \in Nat \ {0} /\ n \in Nat /\ Len(w) = n + Len(q) - 1
      /\ \A i \in 1 .. n : w[i] = ops[i]
      /\ \A i \in 2 .. Len(q) : w[n + i - 1] = q[i]
  BY Replaced
<1> HIDE DEF w
<1> SUFFICES ASSUME NEW i \in 1 .. Len(w)
    PROVE /\ w[i] \in {Call("exit"), Call("end")} => i = Len(w)
          /\ w[i] = Call("read") => i = 1 /\ Len(w) > 1 /\ w[2] = Call("cli")
          /\ w[i] \in Clears => i = 1
          /\ w[i] = Call("restore") => Len(w) = i + 1 /\ kind = "console"
          /\ w[i] = Call("cli") => /\ Len(w) = i + 3 /\ kind = "console"
                                   /\ w[i + 1] = Stop("api") /\ w[i + 2] = Call("restore")
  BY DEF Proper, w
<1>2. CASE i <= n
  <2>1. w[i] = ops[i] /\ i \in 1 .. Len(ops)
    BY <1>1, <1>2
  <2> QED
    BY <2>1 DEF Quiet, Milestones
<1>3. CASE ~(i <= n)
  <2> DEFINE k == i - n + 1
  <2>1. k \in 2 .. Len(q) /\ n + k - 1 = i /\ k # 1 /\ k \in 1 .. Len(q)
    BY <1>1, <1>3
  <2>2. w[i] = q[k]
    BY <1>1, <2>1
  <2>3. /\ q[k] \in {Call("exit"), Call("end")} => k = Len(q)
        /\ q[k] # Call("read") /\ q[k] \notin Clears
        /\ q[k] = Call("restore") => Len(q) = k + 1 /\ kind = "console"
        /\ q[k] = Call("cli") => /\ Len(q) = k + 3 /\ kind = "console"
                                 /\ q[k + 1] = Stop("api") /\ q[k + 2] = Call("restore")
    BY <2>1 DEF Proper
  <2>4. k = Len(q) => i = Len(w)
    BY <1>1
  <2>5. Len(q) = k + 1 => Len(w) = i + 1
    BY <1>1
  <2>6. Len(q) = k + 3 => Len(w) = i + 3 /\ w[i + 1] = q[k + 1] /\ w[i + 2] = q[k + 2]
    <3> SUFFICES ASSUME Len(q) = k + 3 PROVE Len(w) = i + 3 /\ w[i + 1] = q[k + 1] /\ w[i + 2] = q[k + 2]
      OBVIOUS
    <3>1. Len(w) = i + 3
      BY <1>1
    <3>2. /\ k + 1 \in 2 .. Len(q) /\ k + 2 \in 2 .. Len(q)
          /\ n + (k + 1) - 1 = i + 1 /\ n + (k + 2) - 1 = i + 2
      BY <1>1, <2>1
    <3> HIDE DEF k
    <3> QED
      BY <1>1, <3>1, <3>2
  <2> HIDE DEF k
  <2> QED
    BY <2>2, <2>3, <2>4, <2>5, <2>6
<1> QED
  BY <1>2, <1>3

\* The two bodies that do.
LEMMA ProperLoop ==
  ASSUME NEW q \in Seq(TypedOps), q # <<>>, Proper(q), Head(q) = Call("cli")
  PROVE  Proper(<<Call("read"), Call("cli")>> \o Tail(q))
<1> DEFINE ops == <<Call("read"), Call("cli")>>
           w == ops \o Tail(q)
<1>1. ops \in Seq(TypedOps)
  BY DEF TypedOps, Calls
<1>2. Len(ops) = 2 /\ ops[1] = Call("read") /\ ops[2] = Call("cli")
  OBVIOUS
<1> HIDE DEF ops
<1>9. /\ w \in Seq(TypedOps) /\ Len(q) \in Nat \ {0} /\ Head(q) = q[1]
      /\ Len(w) = Len(ops) + Len(q) - 1
      /\ \A i \in 1 .. Len(ops) : w[i] = ops[i]
      /\ \A i \in 2 .. Len(q) : w[Len(ops) + i - 1] = q[i]
  BY <1>1, Replaced
<1> HIDE DEF w
<1>3. /\ Len(q) \in Nat \ {0} /\ Head(q) = q[1] /\ Len(w) = 2 + Len(q) - 1
      /\ \A i \in 1 .. 2 : w[i] = ops[i]
      /\ \A i \in 2 .. Len(q) : w[2 + i - 1] = q[i]
  BY <1>2, <1>9
<1>4. /\ Len(q) = 4 /\ kind = "console" /\ q[2] = Stop("api") /\ q[3] = Call("restore")
      /\ \A k \in 1 .. 4 : q[k] \in {Call("exit"), Call("end")} => k = 4
      /\ \A k \in 2 .. 4 : q[k] \notin Clears /\ q[k] # Call("read")
      /\ \A k \in 2 .. 4 : q[k] = Call("restore") => k = 3
      /\ \A k \in 2 .. 4 : q[k] # Call("cli")
  <2>1. 1 \in 1 .. Len(q) /\ q[1] = Call("cli")
    BY <1>3
  <2>2. Len(q) = 4 /\ kind = "console" /\ q[2] = Stop("api") /\ q[3] = Call("restore")
    <3>1. \A i \in 1 .. Len(q) : q[i] = Call("cli") =>
             /\ Len(q) = i + 3 /\ kind = "console"
             /\ q[i + 1] = Stop("api") /\ q[i + 2] = Call("restore")
      BY DEF Proper
    <3>2. /\ Len(q) = 1 + 3 /\ kind = "console"
          /\ q[1 + 1] = Stop("api") /\ q[1 + 2] = Call("restore")
      BY <2>1, <3>1
    <3> QED
      BY <3>2
  <2>3. \A k \in 1 .. 4 :
          /\ q[k] \in {Call("exit"), Call("end")} => k = 4
          /\ q[k] = Call("read") => k = 1
          /\ q[k] \in Clears => k = 1
          /\ q[k] = Call("restore") => 4 = k + 1
          /\ q[k] = Call("cli") => 4 = k + 3
    <3> DEFINE L == Len(q)
    <3>1. \A k \in 1 .. L :
             /\ q[k] \in {Call("exit"), Call("end")} => k = L
             /\ q[k] = Call("read") => k = 1
             /\ q[k] \in Clears => k = 1
             /\ q[k] = Call("restore") => L = k + 1
             /\ q[k] = Call("cli") => L = k + 3
      BY DEF Proper
    <3>2. L = 4
      BY <2>2
    <3> HIDE DEF L
    <3> QED
      BY <3>1, <3>2
  <2> QED
    BY <2>2, <2>3
<1>5. /\ Len(w) = 5 /\ w[1] = Call("read") /\ w[2] = Call("cli") /\ w[3] = q[2] /\ w[4] = q[3]
      /\ w[5] = q[4]
  <2>1. /\ 2 \in 2 .. Len(q) /\ 3 \in 2 .. Len(q) /\ 4 \in 2 .. Len(q)
        /\ 2 + 2 - 1 = 3 /\ 2 + 3 - 1 = 4 /\ 2 + 4 - 1 = 5
    BY <1>4
  <2> QED
    BY <1>2, <1>3, <1>4, <2>1
<1>6. /\ Call("read") \notin Clears /\ Call("cli") \notin Clears
      /\ Call("read") \notin {Call("exit"), Call("end"), Call("restore"), Call("cli")}
      /\ Call("cli") \notin {Call("exit"), Call("end"), Call("restore"), Call("read")}
  <2>1. /\ Call("read")[1] = "read" /\ Call("cli")[1] = "cli" /\ Call("restore")[1] = "restore"
        /\ Call("exit")[1] = "exit" /\ Call("end")[1] = "end"
    BY Kinds
  <2> QED
    BY <2>1, Kinds
<1>7. \A i \in 1 .. 5 : i \in {1, 2, 3, 4, 5}
  OBVIOUS
<1>8. Proper(w)
  <2> SUFFICES ASSUME NEW i \in 1 .. 5
      PROVE /\ w[i] \in {Call("exit"), Call("end")} => i = 5
            /\ w[i] = Call("read") => i = 1
            /\ w[i] \in Clears => i = 1
            /\ w[i] = Call("restore") => 5 = i + 1
            /\ w[i] = Call("cli") => i = 2
    <3>1. 2 + 1 = 3 /\ 2 + 2 = 4 /\ 2 + 3 = 5 /\ 5 > 1
      OBVIOUS
    <3>2. /\ Len(w) = 5 /\ w[2] = Call("cli") /\ w[2 + 1] = Stop("api")
          /\ w[2 + 2] = Call("restore") /\ kind = "console"
      BY <1>4, <1>5, <3>1
    <3> QED
      BY <3>1, <3>2 DEF Proper
  <2>1. CASE i \in {1, 2}
    <3>1. CASE i = 1
      BY <1>5, <1>6, <3>1
    <3>2. CASE i = 2
      BY <1>5, <1>6, <3>2
    <3> QED
      BY <2>1, <3>1, <3>2
  <2>2. CASE i \in {3, 4, 5}
    <3>1. w[i] = q[i - 1] /\ i - 1 \in 2 .. 4 /\ i - 1 \in 1 .. 4
      BY <1>5, <2>2
    <3> QED
      BY <1>4, <3>1
  <2> QED
    BY <1>7, <2>1, <2>2
<1> QED
  BY <1>8 DEF w, ops

LEMMA LastOne ==
  ASSUME NEW q \in Seq(TypedOps), q # <<>>, Proper(q), Head(q) = Call("exit")
  PROVE  q = <<Call("exit")>> /\ Tail(q) = <<>> /\ Len(q) = 1
<1>1. Len(q) \in Nat \ {0} /\ q[1] = Call("exit")
  BY HeadTailProperties, EmptySeq, LenProperties
<1>2. 1 \in 1 .. Len(q)
  BY <1>1
<1>3. Len(q) = 1
  BY <1>1, <1>2 DEF Proper
<1> DEFINE e == <<Call("exit")>>
<1>4. e \in Seq(TypedOps) /\ Len(e) = 1 /\ e[1] = Call("exit") /\ Tail(e) = <<>>
  BY DEF TypedOps, Calls
<1> HIDE DEF e
<1>5. q = e
  BY <1>1, <1>3, <1>4, SeqEqual
<1> QED
  BY <1>3, <1>4, <1>5 DEF e

LEMMA ProperExit == Proper(ExitBody)
<1>1. /\ Len(ExitBody) = 7 /\ ExitBody[1] = Stop("api") /\ ExitBody[2] = Destroy("listen")
      /\ ExitBody[3] = Stop("server") /\ ExitBody[4] = Destroy("accept")
      /\ ExitBody[5] = Stop("checker") /\ ExitBody[6] = Destroy("checker")
      /\ ExitBody[7] = Call("end")
  BY DEF ExitBody
<1>2. \A i \in 1 .. 7 : i \in {1, 2, 3, 4, 5, 6, 7}
  OBVIOUS
<1>3. \A i \in 1 .. 7 : ExitBody[i][1] \in {"stop", "destroy", "end"} /\ (ExitBody[i][1] = "end" => i = 7)
  BY <1>1, <1>2, Kinds
<1>4. /\ Call("exit")[1] = "exit" /\ Call("end")[1] = "end" /\ Call("read")[1] = "read"
      /\ Call("restore")[1] = "restore" /\ Call("cli")[1] = "cli"
      /\ \A o \in Clears : o[1] = "clear"
  BY Kinds
<1> QED
  BY <1>1, <1>3, <1>4 DEF Proper

LEMMA MovesList ==
  ASSUME Types, NEW t \in Threads, Moves(t)
  PROVE  /\ todo[t] \in Seq(TypedOps) /\ todo[t] # <<>> /\ Tail(todo[t]) \in Seq(TypedOps)
         /\ Members(todo[t]) = {Head(todo[t])} \cup Members(Tail(todo[t]))
         /\ \A u \in Threads \ {t} : todo'[u] = todo[u]
         /\ \E ops \in Seq(TypedOps) :
               /\ Expands(Head(todo[t]), ops) /\ todo'[t] = ops \o Tail(todo[t])
               /\ Members(todo'[t]) = Members(ops) \cup Members(Tail(todo[t]))
<1>1. PICK ops \in Seq(TypedOps) : Expands(Head(todo[t]), ops) /\ Then(t, ops)
  BY DEF Moves
<1> DEFINE q == todo[t]
<1>2. q # <<>> /\ ListTypes
  BY DEF Moves, Types
<1>3. todo'[t] = ops \o Tail(q) /\ \A u \in Threads \ {t} : todo'[u] = todo[u]
  BY <1>1, <1>2, ThenTypes
<1>4. q \in Seq(TypedOps) /\ Expands(Head(q), ops)
  BY <1>1, <1>2 DEF ListTypes
<1> HIDE DEF q
<1>5. /\ Members(ops \o Tail(q)) = Members(ops) \cup Members(Tail(q))
      /\ Members(q) = {Head(q)} \cup Members(Tail(q))
      /\ Tail(q) \in Seq(TypedOps)
  BY <1>2, <1>4, MembersReplaced, HeadTailProperties
<1> QED
  BY <1>2, <1>3, <1>4, <1>5 DEF q

LEMMA MainStays ==
  ASSUME Types, WhoOK, Listing
  PROVE  \/ main' = main
         \/ NoThreads /\ main' = <<>> /\ proc' # "up"
         \/ Moves("main")
         \/ At("main", Call("start")) /\ main' = AfterNoBind
         \/ CliEof("main")
<1>1. /\ "main" \notin ApiThreads /\ "main" \in Threads /\ ListTypes
  BY ProcessAssumption DEF Types, Threads
<1>2. CASE UNCHANGED <<todo, proc>>
  BY <1>2 DEF main
<1>3. CASE NoThreads /\ proc' # "up"
  BY <1>1, <1>3, NoThreadsTypes DEF main
<1>4. ASSUME NEW t \in Threads, Moves(t), t # "main" PROVE main' = main
  BY <1>1, <1>4, MovesList DEF main
<1>5. ASSUME NEW t \in Threads, At(t, Call("start")), todo' = [todo EXCEPT ![t] = AfterNoBind]
      PROVE  main' = main \/ (At("main", Call("start")) /\ main' = AfterNoBind)
  <2>1. CASE t = "main"
    <3>1. todo' = [todo EXCEPT !["main"] = AfterNoBind] /\ At("main", Call("start"))
      BY <1>5, <2>1
    <3>2. todo'["main"] = AfterNoBind
      BY <1>1, <3>1 DEF ListTypes
    <3> QED
      BY <3>1, <3>2 DEF main
  <2>2. CASE t # "main"
    <3>1. AfterNoBind \in Seq(TypedOps)
      BY BodyTypes DEF Types, ValueTypes
    <3>2. todo'["main"] = todo["main"]
      BY <1>1, <1>5, <2>2, <3>1, NewListTypes
    <3>3. main' = main
      BY <3>2 DEF main
    <3> QED
      BY <3>3
  <2> QED
    BY <2>1, <2>2
<1>6. ASSUME NEW t \in ApiThreads, ApiRequest(t) PROVE main' = main
  BY <1>1, <1>6 DEF ApiRequest, main
<1>7. ASSUME NEW k \in {"ctrl", "close"}, ConsoleEvent(k) PROVE main' = main
  BY <1>7 DEF ConsoleEvent, main
<1> QED
  BY <1>2, <1>3, <1>4, <1>5, <1>6, <1>7 DEF Listing

LEMMA MainStep1 ==
  ASSUME Types, WhoOK, Listing, kind' = kind
  PROVE  MainOK'
<1>1. "main" \in Threads /\ MainOK /\ ListTypes
  BY DEF Threads, WhoOK, Types
<1>2. \A q : Proper(q)' <=> Proper(q)
  BY DEF Proper, Clears
<1> SUFFICES Proper(main')
  BY DEF MainOK, Proper, Clears
<1>3. CASE main' = main
  BY <1>1, <1>3 DEF MainOK
<1>4. CASE main' = <<>>
  BY <1>4 DEF Proper
<1>5. CASE Moves("main")
  <2> DEFINE q == main
  <2>1. q \in Seq(TypedOps) /\ q # <<>> /\ Tail(q) \in Seq(TypedOps)
    BY <1>1, <1>5, MovesList DEF main
  <2>2. PICK ops \in Seq(TypedOps) : Expands(Head(q), ops) /\ main' = ops \o Tail(q)
    BY <1>1, <1>5, MovesList DEF main
  <2>3. Proper(q)
    BY <1>1 DEF MainOK
  <2> HIDE DEF q
  <2>4. CASE Head(q) = Call("cli") /\ ops = <<Call("read"), Call("cli")>>
    BY <2>1, <2>2, <2>3, <2>4, ProperLoop
  <2>5. CASE Head(q) = Call("exit") /\ ops = ExitBody
    <3>1. Tail(q) = <<>>
      BY <2>1, <2>3, <2>5, LastOne
    <3>2. main' = ExitBody
      BY <2>2, <2>5, <3>1, ConcatEmptySeq
    <3> QED
      BY <3>2, ProperExit
  <2>6. CASE Quiet(ops)
    BY <2>1, <2>2, <2>3, <2>6, ProperKept
  <2> QED
    BY <2>2, <2>4, <2>5, <2>6, QuietExpands
<1>6. CASE main' = AfterNoBind
  <2>1. \A x \in {"exit", "restore"} : Call(x) \notin Clears
    BY Kinds
  <2>2. /\ Call("exit")[1] = "exit" /\ Call("restore")[1] = "restore" /\ Call("end")[1] = "end"
        /\ Call("read")[1] = "read" /\ Call("cli")[1] = "cli"
    BY Kinds
  <2>3. CASE kind = "console"
    <3>1. main' = <<Call("restore"), Call("exit")>>
      BY <1>6, <2>3 DEF AfterNoBind
    <3>2. Len(main') = 2 /\ main'[1] = Call("restore") /\ main'[2] = Call("exit")
      BY <3>1
    <3>3. \A i \in 1 .. 2 : i = 1 \/ i = 2
      OBVIOUS
    <3> QED
      BY <2>1, <2>2, <2>3, <3>2, <3>3 DEF Proper
  <2>4. CASE kind # "console"
    <3>1. main' = <<Call("exit")>>
      BY <1>6, <2>4 DEF AfterNoBind
    <3>2. Len(main') = 1 /\ main'[1] = Call("exit")
      BY <3>1
    <3> QED
      BY <2>1, <2>2, <3>2 DEF Proper
  <2> QED
    BY <2>3, <2>4
<1>7. CASE CliEof("main")
  <2> DEFINE q == main
             w == Tail(Tail(q))
  <2>1. q \in Seq(TypedOps) /\ Len(q) > 1 /\ todo' = [todo EXCEPT !["main"] = w]
    BY <1>1, <1>7, EofList, MainIsRead DEF main
  <2>2. main' = w
    BY <1>1, <2>1 DEF main, ListTypes
  <2>3. Proper(q)
    BY <1>1 DEF MainOK
  <2> HIDE DEF q
  <2>4. Len(q) \in Nat /\ Len(w) = Len(q) - 2 /\ \A i \in 1 .. Len(q) - 2 : w[i] = q[i + 2]
    BY <2>1, TailTail, LenProperties
  <2> HIDE DEF w
  <2>5. Proper(w)
    <3> SUFFICES ASSUME NEW i \in 1 .. Len(w)
        PROVE /\ w[i] \in {Call("exit"), Call("end")} => i = Len(w)
              /\ w[i] = Call("read") => i = 1 /\ Len(w) > 1 /\ w[2] = Call("cli")
              /\ w[i] \in Clears => i = 1
              /\ w[i] = Call("restore") => Len(w) = i + 1 /\ kind = "console"
              /\ w[i] = Call("cli") => /\ Len(w) = i + 3 /\ kind = "console"
                                       /\ w[i + 1] = Stop("api") /\ w[i + 2] = Call("restore")
      BY DEF Proper
    <3> DEFINE k == i + 2
    <3>1. k \in 1 .. Len(q) /\ k # 1 /\ w[i] = q[k]
      BY <2>4
    <3>2. /\ q[k] \in {Call("exit"), Call("end")} => k = Len(q)
          /\ q[k] # Call("read") /\ q[k] \notin Clears
          /\ q[k] = Call("restore") => Len(q) = k + 1 /\ kind = "console"
          /\ q[k] = Call("cli") => /\ Len(q) = k + 3 /\ kind = "console"
                                   /\ q[k + 1] = Stop("api") /\ q[k + 2] = Call("restore")
      BY <2>3, <3>1 DEF Proper
    <3>3. /\ k = Len(q) => i = Len(w)
          /\ Len(q) = k + 1 => Len(w) = i + 1
          /\ Len(q) = k + 3 => Len(w) = i + 3
      BY <2>4
    <3>4. Len(q) = k + 3 => w[i + 1] = q[k + 1] /\ w[i + 2] = q[k + 2]
      <4> SUFFICES ASSUME Len(q) = k + 3 PROVE w[i + 1] = q[k + 1] /\ w[i + 2] = q[k + 2]
        OBVIOUS
      <4>1. /\ i + 1 \in 1 .. Len(q) - 2 /\ i + 2 \in 1 .. Len(q) - 2
            /\ (i + 1) + 2 = k + 1 /\ (i + 2) + 2 = k + 2
        BY <2>4
      <4> QED
        BY <2>4, <4>1
    <3> HIDE DEF k
    <3> QED
      BY <3>1, <3>2, <3>3, <3>4
  <2> QED
    BY <2>2, <2>5
<1> QED
  BY <1>3, <1>4, <1>5, <1>6, <1>7, MainStays

\* Operations that only the main thread has.
MainOnly == {Call("start"), Call("api_start"), Call("start_checker"), Call("start_accept"),
             Call("cli"), Call("read"), Call("exit"), Call("wait")} \cup Destroys

LEMMA NotMainOnly ==
  ASSUME Types, WhoOK, NEW t \in Threads, todo[t] # <<>>, t # "main"
  PROVE  /\ Head(todo[t]) \notin MainOnly
         /\ t \in ApiThreads => Head(todo[t]) \in ApiOps
         /\ t \notin ApiThreads => t = "ctrl" /\ Head(todo[t]) \in CtrlOps /\ ~NoEvent
<1>1. Head(todo[t]) \in Members(todo[t])
  BY HeadIsTyped DEF Types
<1>2. \A o \in MainOnly : o[1] \in {"start", "api_start", "start_checker", "start_accept", "cli",
                                    "read", "exit", "wait", "destroy"}
  BY Kinds DEF MainOnly
<1>3. \A o \in ApiOps : o[1] \in {"toggle", "init"}
  BY Kinds DEF ApiOps
<1>4. \A o \in CtrlOps : o[1] \in {"restore", "restored", "stop_disable", "unbind", "end",
                                   "stop", "clear", "join", "write"}
  BY Kinds DEF CtrlOps
<1>5. CASE t \in ApiThreads
  BY <1>1, <1>2, <1>3, <1>5 DEF WhoOK, ApiOK
<1>6. CASE t \notin ApiThreads
  <2>1. t = "ctrl"
    BY <1>6 DEF Threads
  <2> QED
    BY <1>1, <1>2, <1>4, <1>6, <2>1 DEF WhoOK, CtrlOK, ctrl
<1> QED
  BY <1>5, <1>6

\* start() is not called again.
LEMMA NoStartAgain ==
  ASSUME Types, NEW op, NEW ops, Expands(op, ops)
  PROVE  Call("start") \notin Members(ops)
<1>1. saved \in Saved /\ conf.port \in Ports /\ conf.sysproxy \in BOOLEAN
  BY DEF Types, ValueTypes, ConfigFile
<1>2. Call("start")[1] = "start"
  BY Kinds
<1>3. \A o \in ApiOps : o[1] \in {"toggle", "init"}
  BY Kinds DEF ApiOps
<1>4. CASE ops = <<>>
  BY <1>1, <1>4, BodyMembers
<1>5. CASE ops = RestoreBody \/ ops = ExitBody
  <2>1. \A o \in Members(ops) : o[1] \in {"write", "restored", "stop", "destroy", "end"}
    BY <1>1, <1>5, BodyMembers, Kinds
  <2> QED
    BY <1>2, <2>1
<1>6. CASE ops = (IF conf.sysproxy THEN Enable(conf.port) ELSE <<>>)
                 \o <<Call("start_checker"), Call("start_accept")>>
  <2>1. Members(ops) \subseteq ApiOps \cup {Call("start_checker"), Call("start_accept")}
    BY <1>1, <1>6, StartMembers
  <2>2. \A o \in Members(ops) : o[1] \in {"toggle", "init", "start_checker", "start_accept"}
    BY <1>3, <2>1, Kinds
  <2> QED
    BY <1>2, <2>2
<1>7. CASE \/ ops = Enable(conf.port) \/ ops = Disable \/ ops = <<Stop("server")>>
           \/ ops = <<Write("enable", "off")>> \/ ops = <<Call("read"), Call("cli")>>
  <2>1. Members(Disable) \subseteq ApiOps
    BY <1>1, BodyMembers DEF ApiOps, Toggles
  <2>2. \A o \in Members(ops) : o[1] \in {"toggle", "init", "stop", "write", "read", "cli"}
    BY <1>1, <1>3, <1>7, <2>1, EnableMembers, BodyMembers, Kinds
  <2> QED
    BY <1>2, <2>2
<1>8. ASSUME NEW x \in Services, ops = StopBody(x) PROVE Call("start") \notin Members(ops)
  <2>1. \A o \in Members(ops) : o[1] \in {"clear", "stop", "stop_disable", "unbind", "join"}
    <3>1. CASE x = "server"
      BY <1>1, <1>8, <3>1, BodyMembers, Kinds
    <3>2. CASE x = "api"
      BY <1>1, <1>8, <3>2, BodyMembers, Kinds
    <3>3. CASE x = "checker"
      BY <1>1, <1>8, <3>3, BodyMembers, Kinds
    <3> QED
      BY <3>1, <3>2, <3>3 DEF Services
  <2> QED
    BY <1>2, <2>1
<1> QED
  BY <1>4, <1>5, <1>6, <1>7, <1>8 DEF Expands

\* The flags, the helper threads and the listener, by what the moving thread does.
LEMMA FlagSteps ==
  ASSUME Types, [ProcessNext]_processVars
  PROVE  \/ UNCHANGED flagVars
         \/ NoThreads /\ on' = {} /\ joinable' = {} /\ bound' = "none"
         \/ \E t \in Threads :
               /\ todo[t] # <<>>
               /\ \/ Head(todo[t]) = Call("start") /\ Moves(t)
                     /\ on' = on \cup {"server"} /\ joinable' = joinable /\ bound' \in Ports
                  \/ Head(todo[t]) = Call("start_checker") /\ Moves(t)
                     /\ on' = on \cup {"checker"} /\ joinable' = joinable \cup {"checker"} /\ bound' = bound
                  \/ Head(todo[t]) = Call("start_accept") /\ Moves(t)
                     /\ on' = on /\ joinable' = joinable \cup {"accept"} /\ bound' = bound
                  \/ Head(todo[t]) = Call("api_start") /\ Moves(t)
                     /\ on' = on \cup {"api"} /\ joinable' = joinable \cup {"listen"} /\ bound' = bound
                  \/ \E x \in Services : Head(todo[t]) = Clear(x) /\ Moves(t)
                     /\ on' = on \ {x} /\ joinable' = joinable /\ bound' = bound
                  \/ \E h \in Helpers : Head(todo[t]) = Join(h) /\ Moves(t)
                     /\ on' = on /\ joinable' = joinable \ {h} /\ bound' = bound
                  \/ Head(todo[t]) = Call("unbind") /\ Moves(t)
                     /\ on' = on /\ joinable' = joinable /\ bound' = "none"
<1> DEFINE Flagged ==
         \/ UNCHANGED flagVars
         \/ NoThreads /\ on' = {} /\ joinable' = {} /\ bound' = "none"
         \/ \E t \in Threads :
               /\ todo[t] # <<>>
               /\ \/ Head(todo[t]) = Call("start") /\ Moves(t)
                     /\ on' = on \cup {"server"} /\ joinable' = joinable /\ bound' \in Ports
                  \/ Head(todo[t]) = Call("start_checker") /\ Moves(t)
                     /\ on' = on \cup {"checker"} /\ joinable' = joinable \cup {"checker"} /\ bound' = bound
                  \/ Head(todo[t]) = Call("start_accept") /\ Moves(t)
                     /\ on' = on /\ joinable' = joinable \cup {"accept"} /\ bound' = bound
                  \/ Head(todo[t]) = Call("api_start") /\ Moves(t)
                     /\ on' = on \cup {"api"} /\ joinable' = joinable \cup {"listen"} /\ bound' = bound
                  \/ \E x \in Services : Head(todo[t]) = Clear(x) /\ Moves(t)
                     /\ on' = on \ {x} /\ joinable' = joinable /\ bound' = bound
                  \/ \E h \in Helpers : Head(todo[t]) = Join(h) /\ Moves(t)
                     /\ on' = on /\ joinable' = joinable \ {h} /\ bound' = bound
                  \/ Head(todo[t]) = Call("unbind") /\ Moves(t)
                     /\ on' = on /\ joinable' = joinable /\ bound' = "none"
<1> SUFFICES Flagged
  OBVIOUS
<1>1. CASE UNCHANGED processVars
  BY <1>1 DEF processVars
<1>2. ASSUME NEW t \in Threads, RegStep(t) PROVE UNCHANGED flagVars
  BY <1>2 DEF RegStep, Save, RegToggle, RegWrite, Restore, Restored
<1>3. ASSUME NEW t \in Threads, MainStep(t) PROVE UNCHANGED flagVars
  BY <1>3 DEF MainStep, CliTest, ServiceWait, Exit, End, Proceed
<1>4. ASSUME NEW t \in Threads, ServerStep(t) PROVE Flagged
  <2>1. CASE StartFails(t) \/ NoApi(t) \/ StopDisable(t)
    BY <2>1 DEF StartFails, NoApi, StopDisable, Proceed
  <2>2. CASE Start(t)
    <3>1. /\ At(t, Call("start")) /\ proc' = proc
          /\ Then(t, (IF conf.sysproxy THEN Enable(conf.port) ELSE <<>>)
                     \o <<Call("start_checker"), Call("start_accept")>>)
      BY <2>2 DEF Start
    <3>2. Expands(Call("start"), (IF conf.sysproxy THEN Enable(conf.port) ELSE <<>>)
                     \o <<Call("start_checker"), Call("start_accept")>>)
      BY DEF Expands
    <3>3. Moves(t) /\ todo[t] # <<>> /\ Head(todo[t]) = Call("start")
      BY <3>1, <3>2, MovesIf, AtHead
    <3>4. on' = on \cup {"server"} /\ joinable' = joinable /\ bound' \in Ports
      BY <2>2 DEF Start, Types, ValueTypes, ConfigFile
    <3> QED
      BY <3>3, <3>4
  <2>3. ASSUME NEW f \in {"start_checker", "start_accept", "api_start"}, NEW flag, NEW h, Launch(t, f, flag, h)
        PROVE  /\ Moves(t) /\ todo[t] # <<>> /\ Head(todo[t]) = Call(f)
               /\ on' = on \cup flag /\ joinable' = joinable \cup {h} /\ bound' = bound
    <3>1. Call(f) \in Plain
      BY DEF Plain
    <3>2. At(t, Call(f)) /\ Then(t, <<>>) /\ proc' = proc
      BY <2>3 DEF Launch
    <3> QED
      BY <2>3, <3>1, <3>2, MovesIf, AtHead DEF Expands, Launch
  <2>4. CASE \/ Launch(t, "start_checker", {"checker"}, "checker")
             \/ Launch(t, "start_accept", {}, "accept")
             \/ Launch(t, "api_start", {"api"}, "listen")
    <3>1. CASE Launch(t, "start_checker", {"checker"}, "checker")
      BY <2>3, <3>1
    <3>2. CASE Launch(t, "start_accept", {}, "accept")
      <4>1. on' = on \cup {} /\ on \cup {} = on
        BY <2>3, <3>2
      <4> QED
        BY <2>3, <3>2, <4>1
    <3>3. CASE Launch(t, "api_start", {"api"}, "listen")
      BY <2>3, <3>3
    <3> QED
      BY <2>4, <3>1, <3>2, <3>3
  <2>5. CASE Unbind(t)
    <3>1. Call("unbind") \in Plain
      BY DEF Plain
    <3>2. At(t, Call("unbind")) /\ Then(t, <<>>) /\ proc' = proc
      BY <2>5 DEF Unbind
    <3>3. Moves(t) /\ todo[t] # <<>> /\ Head(todo[t]) = Call("unbind")
      BY <3>1, <3>2, MovesIf, AtHead DEF Expands
    <3> QED
      BY <2>5, <3>3 DEF Unbind
  <2>6. ASSUME NEW x \in Services, StopTest(t, x) PROVE UNCHANGED flagVars
    BY <2>6 DEF StopTest, Proceed
  <2>7. ASSUME NEW x \in Services, StopClear(t, x) PROVE Flagged
    <3>1. Clear(x) \in Plain
      BY DEF Plain, Clears
    <3>2. At(t, Clear(x)) /\ Then(t, <<>>) /\ proc' = proc
      BY <2>7 DEF StopClear
    <3>3. Moves(t) /\ todo[t] # <<>> /\ Head(todo[t]) = Clear(x)
      BY <3>1, <3>2, MovesIf, AtHead DEF Expands
    <3> QED
      BY <2>7, <3>3 DEF StopClear
  <2>8. ASSUME NEW h \in Helpers, JoinEnds(t, h) PROVE Flagged
    <3>1. Join(h) \in Plain
      BY DEF Plain, Joins
    <3>2. At(t, Join(h)) /\ Then(t, <<>>) /\ proc' = proc
      BY <2>8 DEF JoinEnds
    <3>3. Moves(t) /\ todo[t] # <<>> /\ Head(todo[t]) = Join(h)
      BY <3>1, <3>2, MovesIf, AtHead DEF Expands
    <3> QED
      BY <2>8, <3>3 DEF JoinEnds
  <2>9. ASSUME NEW h \in Helpers, JoinTwice(t, h) \/ DestroyThread(t, h) PROVE UNCHANGED flagVars
    BY <2>9 DEF JoinTwice, DestroyThread
  <2> QED
    BY <1>4, <2>1, <2>2, <2>4, <2>5, <2>6, <2>7, <2>8, <2>9 DEF ServerStep
<1>5. CASE \/ CliCommand("main") \/ CliEof("main")
           \/ \E c \in ConfigFile : CliReload("main", c)
           \/ \E t \in ApiThreads : ApiRequest(t)
           \/ \E k \in {"ctrl", "close"} : ConsoleEvent(k)
           \/ ServiceStop
  BY <1>5 DEF CliCommand, CliEof, CliReload, ApiRequest, ConsoleEvent, ServiceStop
<1>6. CASE Crash
  BY <1>6 DEF Crash
<1>7. ASSUME NEW t \in Threads, ThreadStep(t) PROVE Flagged
  BY <1>2, <1>3, <1>4, <1>7 DEF ThreadStep
<1> QED
  BY <1>1, <1>5, <1>6, <1>7 DEF ProcessNext

\* How the two main functions begin.
LEMMA MainForms ==
  /\ ConsoleMain # <<>> /\ Head(ConsoleMain) = Call("init")
  /\ Tail(ConsoleMain) # <<>> /\ Head(Tail(ConsoleMain)) = Call("start")
  /\ Tail(ConsoleMain) # ConsoleMain
  /\ Members(Tail(Tail(ConsoleMain))) = {Call("api_start"), Call("cli"), Stop("api"), Call("restore"),
                                         Call("exit")}
  /\ ServiceMain # <<>> /\ Head(ServiceMain) = Call("start")
  /\ Members(Tail(ServiceMain)) = {Call("api_start"), Call("wait"), Stop("api"), Stop("server"),
                                   Call("exit")}
  /\ Call("start") \notin Members(Tail(Tail(ConsoleMain)))
  /\ Call("start") \notin Members(Tail(ServiceMain))
  /\ Call("init") # Call("start")
<1> DEFINE a == Call("init")
           b == Call("start")
           c == Call("api_start")
           d == Call("cli")
           e == Stop("api")
           f == Call("restore")
           g == Call("exit")
           h == Call("wait")
           k == Stop("server")
<1>1. b \notin {a, c, d, e, f, g, h, k}
  <2>1. b[1] = "start" /\ \A o \in {a, c, d, e, f, g, h, k} : o[1] # "start"
    BY Kinds
  <2> QED
    BY <2>1
<1>2. ConsoleMain = <<a, b, c, d, e, f, g>> /\ ServiceMain = <<b, c, h, e, k, g>>
  BY DEF ConsoleMain, ServiceMain
<1> HIDE DEF a, b, c, d, e, f, g, h, k
<1> DEFINE p == ConsoleMain
           q == ServiceMain
<1>6. p = <<a, b, c, d, e, f, g>> /\ q = <<b, c, h, e, k, g>>
  BY <1>2
<1> HIDE DEF p, q
<1>3. /\ p # <<>> /\ Head(p) = a /\ Tail(p) # <<>> /\ Head(Tail(p)) = b /\ Tail(p) # p
      /\ Members(Tail(Tail(p))) = {c, d, e, f, g}
  BY <1>6 DEF Members
<1>4. q # <<>> /\ Head(q) = b /\ Members(Tail(q)) = {c, h, e, k, g}
  BY <1>6 DEF Members
<1>5. b \notin Members(Tail(Tail(p))) /\ b \notin Members(Tail(q)) /\ a # b
  BY <1>1, <1>3, <1>4
<1> QED
  BY <1>3, <1>4, <1>5 DEF a, b, c, d, e, f, g, h, k, p, q

LEMMA StartStep ==
  ASSUME Types, WhoOK, Listing, kind' = kind, [ProcessNext]_processVars
  PROVE  StartOK'
<1> SUFFICES ASSUME Call("start") \in Members(main')
    PROVE /\ main' = Main[kind] \/ (kind = "console" /\ main' = Tail(ConsoleMain))
          /\ on' = {} /\ joinable' = {} /\ bound' = "none"
  BY DEF StartOK, Main, ConsoleMain, ServiceMain, Call, Stop
<1>1. "main" \in Threads /\ StartOK /\ MainOK /\ ListTypes /\ saved \in Saved
  BY DEF Threads, WhoOK, Types, ValueTypes
<1>2. Call("start") \in Members(main)
  <2>1. CASE main' = main
    BY <2>1
  <2>2. CASE main' = <<>>
    BY <1>1, <2>2, BodyMembers
  <2>3. CASE Moves("main")
    <3>1. PICK ops \in Seq(TypedOps) :
             /\ Expands(Head(main), ops)
             /\ Members(main') = Members(ops) \cup Members(Tail(main))
      BY <1>1, <2>3, MovesList DEF main
    <3>2. Members(main) = {Head(main)} \cup Members(Tail(main))
      BY <1>1, <2>3, MovesList DEF main
    <3> QED
      BY <3>1, <3>2, NoStartAgain
  <2>4. CASE At("main", Call("start"))
    <3>1. Head(main) = Call("start") /\ main # <<>>
      BY <2>4, AtHead DEF main
    <3> QED
      BY <1>1, <3>1, HeadIsTyped DEF main
  <2>5. CASE CliEof("main")
    <3> DEFINE q == main
    <3>1. /\ q \in Seq(TypedOps) /\ Len(q) > 1 /\ todo' = [todo EXCEPT !["main"] = Tail(Tail(q))]
      BY <1>1, <2>5, EofList, MainIsRead DEF main
    <3>2. main' = Tail(Tail(q))
      BY <1>1, <3>1 DEF main, ListTypes
    <3> HIDE DEF q
    <3>3. /\ Len(q) \in Nat /\ Len(main') = Len(q) - 2
          /\ \A i \in 1 .. Len(q) - 2 : main'[i] = q[i + 2]
      BY <3>1, <3>2, TailTail, LenProperties
    <3>4. \A i \in 1 .. Len(main') : i + 2 \in 1 .. Len(q) /\ main'[i] = q[i + 2]
      BY <3>3
    <3>5. Members(main') \subseteq Members(q)
      BY <3>4 DEF Members
    <3> QED
      BY <3>5 DEF q
  <2> QED
    BY <2>1, <2>2, <2>3, <2>4, <2>5, MainStays
<1>3. /\ main = Main[kind] \/ (kind = "console" /\ main = Tail(ConsoleMain))
      /\ on = {} /\ joinable = {} /\ bound = "none"
  BY <1>1, <1>2 DEF StartOK
<1>4. kind \in {"console", "service"}
  BY DEF Types, ValueTypes
<1>5. Main["console"] = ConsoleMain /\ Main["service"] = ServiceMain
  BY DEF Main
<1>9. Head(main) \in {Call("init"), Call("start")} /\ main # <<>>
  BY <1>3, <1>4, <1>5, MainForms
<1>10. Head(main) = Call("start") => Call("start") \notin Members(Tail(main))
  BY <1>3, <1>4, <1>5, MainForms
<1>11. CASE Moves("main")
  <2>1. PICK ops \in Seq(TypedOps) :
           /\ Expands(Head(main), ops) /\ main' = ops \o Tail(main)
           /\ Members(main') = Members(ops) \cup Members(Tail(main))
    BY <1>1, <1>11, MovesList DEF main
  <2>2. Head(main) = Call("init")
    BY <1>9, <1>10, <2>1, NoStartAgain
  <2>3. main = ConsoleMain /\ kind = "console"
    <3>1. Call("init") # Call("start")
      BY Kinds
    <3> QED
      BY <1>3, <1>4, <1>5, MainForms, <2>2, <3>1
  <2>4. ops = <<>>
    BY <2>1, <2>2, ApiExpands DEF ApiOps
  <2>5. Tail(main) \in Seq(TypedOps)
    BY <1>1, <1>9, HeadIsTyped DEF main
  <2>6. main' = Tail(ConsoleMain)
    BY <2>1, <2>3, <2>4, <2>5, ConcatEmptySeq
  <2>7. \A t \in Threads : Moves(t) => t = "main"
    <3> SUFFICES ASSUME NEW t \in Threads, Moves(t), t # "main" PROVE FALSE
      OBVIOUS
    <3>1. main' = main
      BY <1>1, MovesList DEF main
    <3> QED
      BY <2>3, <2>6, <3>1, MainForms
  <2>8. UNCHANGED flagVars \/ NoThreads
    <3>1. /\ \A x \in Services : Clear(x)[1] = "clear"
          /\ \A h \in Helpers : Join(h)[1] = "join"
          /\ \A f \in {"start", "start_checker", "start_accept", "api_start", "unbind", "init"} : Call(f)[1] = f
      BY Kinds
    <3> QED
      BY <2>2, <2>7, <3>1, FlagSteps DEF main
  <2>9. ~NoThreads
    <3>1. NoThreads => main' = <<>>
      BY <1>1, NoThreadsTypes DEF main
    <3> QED
      BY <1>1, <3>1, BodyMembers
  <2> QED
    BY <1>3, <2>3, <2>6, <2>8, <2>9 DEF flagVars
<1>12. CASE At("main", Call("start")) /\ main' = AfterNoBind
  <2>1. \A x \in {Call("restore"), Call("exit")} : x # Call("start")
    BY Kinds
  <2>2. main' = <<Call("restore"), Call("exit")>> \/ main' = <<Call("exit")>>
    BY <1>12 DEF AfterNoBind
  <2> QED
    BY <2>1, <2>2 DEF Members
<1>13. CASE CliEof("main")
  <2>1. Head(main) = Call("read")
    BY <1>13, AtHead DEF CliEof, main
  <2>2. Call("read") # Call("init") /\ Call("read") # Call("start")
    BY Kinds
  <2> QED
    BY <1>9, <2>1, <2>2
<1>14. CASE main' = main
  <2>1. ~NoThreads
    <3>1. NoThreads => main' = <<>>
      BY <1>1, NoThreadsTypes DEF main
    <3> QED
      BY <1>1, <3>1, BodyMembers
  <2>2. ~Moves("main") \/ main' = Tail(ConsoleMain)
    <3> SUFFICES ASSUME Moves("main") PROVE main' = Tail(ConsoleMain)
      OBVIOUS
    <3>1. PICK ops \in Seq(TypedOps) :
             /\ Expands(Head(main), ops) /\ main' = ops \o Tail(main)
             /\ Members(main') = Members(ops) \cup Members(Tail(main))
      BY <1>1, MovesList DEF main
    <3>2. Head(main) = Call("init")
      BY <1>9, <1>10, <3>1, NoStartAgain
    <3>3. ops = <<>> /\ Tail(main) \in Seq(TypedOps)
      BY <1>1, <1>9, <3>1, <3>2, ApiExpands, HeadIsTyped DEF ApiOps, main
    <3>4. main = ConsoleMain
      <4>1. Call("init") # Call("start")
        BY Kinds
      <4> QED
        BY <1>3, <1>4, <1>5, MainForms, <3>2, <4>1
    <3> QED
      BY <3>1, <3>3, <3>4, ConcatEmptySeq
  <2>3. on' = {} /\ joinable' = {} /\ bound' = "none"
    <3>1. ASSUME NEW t \in Threads, todo[t] # <<>>, t # "main" PROVE Head(todo[t]) \notin MainOnly
      BY <3>1, NotMainOnly
    <3>2. CASE Moves("main")
      <4>2. main = Tail(ConsoleMain)
        BY <1>14, <2>2, <3>2
      <4>3. PICK ops \in Seq(TypedOps) :
               /\ Expands(Head(main), ops)
               /\ Members(main') = Members(ops) \cup Members(Tail(main))
        BY <1>1, <3>2, MovesList DEF main
      <4>4. Head(main) = Call("start")
        BY <4>2, MainForms
      <4> QED
        BY <1>10, <4>3, <4>4, NoStartAgain
    <3>3. CASE ~Moves("main")
      <4>1. /\ Call("start") \in MainOnly /\ Call("start_checker") \in MainOnly
            /\ Call("start_accept") \in MainOnly /\ Call("api_start") \in MainOnly
        BY DEF MainOnly
      <4> QED
        BY <1>3, <2>1, <3>1, <3>3, <4>1, FlagSteps DEF flagVars
    <3> QED
      BY <3>2, <3>3
  <2> QED
    BY <1>3, <1>14, <2>3
<1>15. CASE main' = <<>>
  BY <1>1, <1>15, BodyMembers
<1> QED
  BY <1>11, <1>12, <1>13, <1>14, <1>15, MainStays


LEMMA ProperMain ==
  ASSUME kind \in {"console", "service"}
  PROVE  Proper(Main[kind])
<1>1. /\ \A f : Call(f)[1] = f
      /\ \A x : Stop(x)[1] = "stop"
      /\ \A o \in Clears : o[1] = "clear"
  BY Kinds
<1>2. CASE kind = "console"
  <2> DEFINE q == ConsoleMain
  <2>1. /\ Len(q) = 7 /\ q[1] = Call("init") /\ q[2] = Call("start") /\ q[3] = Call("api_start")
        /\ q[4] = Call("cli") /\ q[5] = Stop("api") /\ q[6] = Call("restore") /\ q[7] = Call("exit")
    BY DEF ConsoleMain
  <2> HIDE DEF q
  <2>2. \A i \in 1 .. Len(q) : i \in {1, 2, 3, 4, 5, 6, 7}
    BY <2>1
  <2>3. /\ \A i \in {1, 2, 3, 5, 6, 7} : q[i][1] \in {"init", "start", "api_start", "stop", "restore", "exit"}
        /\ \A i \in {1, 2, 3, 5, 7} : q[i][1] # "restore"
        /\ \A i \in {1, 2, 3, 5, 6} : q[i][1] # "exit"
        /\ q[4][1] = "cli"
    BY <1>1, <2>1
  <2>4. Proper(q)
    <3> SUFFICES ASSUME NEW i \in 1 .. Len(q)
        PROVE /\ q[i] \in {Call("exit"), Call("end")} => i = Len(q)
              /\ q[i] = Call("read") => i = 1 /\ Len(q) > 1 /\ q[2] = Call("cli")
              /\ q[i] \in Clears => i = 1
              /\ q[i] = Call("restore") => Len(q) = i + 1 /\ kind = "console"
              /\ q[i] = Call("cli") => /\ Len(q) = i + 3 /\ kind = "console"
                                       /\ q[i + 1] = Stop("api") /\ q[i + 2] = Call("restore")
      BY DEF Proper
    <3>1. q[i] \in {Call("exit"), Call("end")} => i = 7
      BY <1>1, <2>2, <2>3
    <3>2. q[i] # Call("read") /\ q[i] \notin Clears
      BY <1>1, <2>2, <2>3
    <3>3. q[i] = Call("restore") => i = 6
      BY <1>1, <2>2, <2>3
    <3>4. q[i] = Call("cli") => i = 4
      BY <1>1, <2>2, <2>3
    <3> QED
      BY <1>2, <2>1, <3>1, <3>2, <3>3, <3>4
  <2> QED
    BY <1>2, <2>4 DEF Main, q
<1>3. CASE kind = "service"
  <2> DEFINE q == ServiceMain
  <2>1. /\ Len(q) = 6 /\ q[1] = Call("start") /\ q[2] = Call("api_start") /\ q[3] = Call("wait")
        /\ q[4] = Stop("api") /\ q[5] = Stop("server") /\ q[6] = Call("exit")
    BY DEF ServiceMain
  <2> HIDE DEF q
  <2>2. \A i \in 1 .. Len(q) : i \in {1, 2, 3, 4, 5, 6}
    BY <2>1
  <2>3. /\ \A i \in {1, 2, 3, 4, 5} : q[i][1] \in {"start", "api_start", "wait", "stop"}
        /\ q[6][1] = "exit"
    BY <1>1, <2>1
  <2>4. Proper(q)
    BY <1>1, <2>1, <2>2, <2>3 DEF Proper
  <2> QED
    BY <1>3, <2>4 DEF Main, q
<1> QED
  BY <1>2, <1>3

LEMMA WhoInit == ASSUME ProcessInit PROVE WhoOK
<1>1. /\ kind \in {"console", "service"} /\ todo = Begun(kind) /\ seen = {}
      /\ on = {} /\ joinable = {} /\ bound = "none"
  BY DEF ProcessInit
<1>2. "main" \notin ApiThreads
  BY ProcessAssumption
<1>3. /\ main = Main[kind] /\ ctrl = <<>>
      /\ \A t \in ApiThreads : todo[t] = <<>>
  BY <1>1, <1>2 DEF Begun, Threads, main, ctrl
<1>4. Members(<<>>) = {}
  BY DEF Members
<1>5. ApiOK /\ CtrlOK
  BY <1>3, <1>4 DEF ApiOK, CtrlOK
<1>6. MainOK
  BY <1>1, <1>3, ProperMain DEF MainOK
<1>7. StartOK
  BY <1>1, <1>3 DEF StartOK
<1> QED
  BY <1>5, <1>6, <1>7 DEF WhoOK

LEMMA WhoStep ==
  ASSUME Types, WhoOK, [ProcessNext]_processVars
  PROVE  WhoOK'
<1>1. Listing /\ kind' = kind
  BY WhoMoves
<1> QED
  BY <1>1, ApiStep, CtrlStep, MainStep1, StartStep DEF WhoOK

Invariant == Types /\ WhoOK

LEMMA InvariantInit == ASSUME ProcessInit PROVE Invariant
BY TypesInit, WhoInit DEF Invariant

LEMMA InvariantStep == ASSUME Invariant, [ProcessNext]_processVars PROVE Invariant'
BY TypesStep, WhoStep, MainIsRead DEF Invariant, WhoOK

LEMMA InvariantCorrect == ProcessSpec => []Invariant
<1>1. ProcessInit => Invariant
  BY InvariantInit
<1>2. Invariant /\ [ProcessNext]_processVars => Invariant'
  BY InvariantStep
<1> QED
  BY <1>1, <1>2, PTL DEF ProcessSpec

LEMMA TypedAreOps == TypedOps \subseteq Ops
<1>1. Toggles \cup Writes \subseteq Ops
  <2>1. \A how \in {"toggle", "write"}, f \in {"enable", "server", "override"},
           v \in {"on", "off", "none", "user", "rift"} \cup Ports : <<how, f, v>> \in Ops
    BY DEF Ops
  <2>2. \A f \in {"enable", "server", "override"}, v \in {"on", "off", "none", "user", "rift"} \cup Ports :
           Toggle(f, v) \in Ops /\ Write(f, v) \in Ops
    BY <2>1 DEF Toggle, Write
  <2> QED
    BY <2>2 DEF Toggles, Writes
<1>2. Calls \cup Stops \cup Clears \cup Joins \cup Destroys \subseteq Ops
  BY DEF Calls, Stops, Clears, Joins, Destroys, Ops
<1> QED
  BY <1>1, <1>2 DEF TypedOps

LEMMA TypesImply == Types => ProcessTypeOK
<1> SUFFICES ASSUME Types PROVE ProcessTypeOK
  OBVIOUS
<1>1. \A t \in Threads : todo[t] \in Seq(Ops)
  <2> SUFFICES ASSUME NEW t \in Threads PROVE todo[t] \in Seq(Ops)
    OBVIOUS
  <2> DEFINE q == todo[t]
  <2>1. q \in Seq(TypedOps)
    BY DEF Types, ListTypes
  <2> HIDE DEF q
  <2>2. \A i \in 1 .. Len(q) : q[i] \in Ops
    BY <2>1, TypedAreOps
  <2>3. q \in Seq(Ops)
    BY <2>1, <2>2
  <2> QED
    BY <2>3 DEF q
<1> QED
  BY <1>1 DEF Types, ValueTypes, Saved, ProcessTypeOK

-----------------------------------------------------------------------------
(* The process keeps to its types (ProcessTypeOK): in particular, what a    *)
(* thread has still to do is made of the operations of the code, whatever   *)
(* lists the starts, stops, console events and requests build.              *)
THEOREM ProcessTypeCorrect == ProcessSpec => []ProcessTypeOK
<1>1. Invariant => ProcessTypeOK
  BY TypesImply DEF Invariant
<1> QED
  BY <1>1, InvariantCorrect, PTL

-----------------------------------------------------------------------------
(* Ending cleanly: before a flag that is set can be forgotten, before a     *)
(* thread can be destroyed unjoined, comes the stop, the join.              *)

Launches == {Call("start"), Call("start_checker"), Call("start_accept"), Call("api_start")}
Last(h) == {Destroy(h), Call("end")}
Stopping(h) == {Stop(FlagOf[h]), Clear(FlagOf[h]), Call("exit")}

FlagsAhead(q, O) == \A h \in Helpers : FlagOf[h] \in O => Ahead(q, Stopping(h), Last(h))
JoinsAhead(q, O, J) == \A h \in J : FlagOf[h] \in O \/ Ahead(q, {Join(h)}, Last(h))
UnbindAhead(q, O, b) == b # "none" => "server" \in O \/ Ahead(q, {Call("unbind")}, {Call("end")})
ClearsAhead(q) ==
    /\ \A h \in Helpers : Clear(FlagOf[h]) \in Members(q) => Ahead(q, {Join(h)}, Last(h))
    /\ Clear("server") \in Members(q) => Ahead(q, {Call("unbind")}, {Call("end")})
ExitAhead(q) == \/ Ahead(q, {Call("exit")}, Destroys \cup {Call("end")})
                \/ Members(q) \cap Launches = {}

\* The accept thread is started while the flag is set, and nothing comes between.
Hindrances == Stops \cup Clears \cup {Call("read")}
AcceptFirst(q, O) ==
    \A i \in 1 .. Len(q) : q[i] = Call("start_accept") =>
        "server" \in O /\ \A j \in 1 .. i - 1 : q[j] \notin Hindrances

Clean(q, O, J, b) ==
    /\ FlagsAhead(q, O) /\ JoinsAhead(q, O, J) /\ UnbindAhead(q, O, b)
    /\ ClearsAhead(q) /\ ExitAhead(q) /\ AcceptFirst(q, O)

CleanOK == proc = "up" /\ NoEvent => Clean(main, on, joinable, bound)

\* What the steps of the bodies are not.
LEMMA OpsHold ==
  ASSUME Types, NEW op, NEW ops, Expands(op, ops), op # Call("exit")
  PROVE  /\ Members(ops) \cap (Destroys \cup {Call("end"), Call("exit")}) = {}
         /\ op # Call("start") => Members(ops) \cap Launches = {}
         /\ op \notin Stops => Members(ops) \cap Clears = {}
         /\ op \notin Stops \cup {Call("read"), Call("cli")} => Members(ops) \cap Hindrances = {}
<1>1. saved \in Saved /\ conf.port \in Ports /\ conf.sysproxy \in BOOLEAN
  BY DEF Types, ValueTypes, ConfigFile
<1>2. /\ \A o \in Destroys \cup {Call("end"), Call("exit")} : o[1] \in {"destroy", "end", "exit"}
      /\ \A o \in Launches : o[1] \in {"start", "start_checker", "start_accept", "api_start"}
      /\ \A o \in Clears : o[1] = "clear"
      /\ \A o \in Hindrances : o[1] \in {"stop", "clear", "read"}
  BY Kinds DEF Launches, Hindrances
<1>3. \A o \in ApiOps : o[1] \in {"toggle", "init"}
  BY Kinds DEF ApiOps
<1>4. CASE ops = <<>>
  BY <1>1, <1>4, BodyMembers
<1>5. CASE ops = RestoreBody \/ ops = Enable(conf.port) \/ ops = Disable \/ ops = <<Write("enable", "off")>>
  <2>1. Members(Disable) \subseteq ApiOps
    BY <1>1, BodyMembers DEF ApiOps, Toggles
  <2>2. \A o \in Members(ops) : o[1] \in {"write", "restored", "toggle", "init"}
    BY <1>1, <1>3, <1>5, <2>1, BodyMembers, EnableMembers, Kinds
  <2> QED
    BY <1>2, <2>2
<1>6. CASE /\ op = Call("start")
           /\ ops = (IF conf.sysproxy THEN Enable(conf.port) ELSE <<>>)
                    \o <<Call("start_checker"), Call("start_accept")>>
  <2>1. Members(ops) \subseteq ApiOps \cup {Call("start_checker"), Call("start_accept")}
    BY <1>1, <1>6, StartMembers
  <2>2. \A o \in Members(ops) : o[1] \in {"toggle", "init", "start_checker", "start_accept"}
    BY <1>3, <2>1, Kinds
  <2> QED
    BY <1>2, <1>6, <2>2
<1>7. CASE op \in {Call("cli"), Call("read")} /\ (ops = <<Call("read"), Call("cli")>> \/ ops = <<Stop("server")>>)
  <2>1. \A o \in Members(ops) : o[1] \in {"stop", "read", "cli"}
    BY <1>1, <1>7, BodyMembers, Kinds
  <2> QED
    BY <1>2, <1>7, <2>1
<1>8. ASSUME NEW x \in Services, op = Stop(x), ops = StopBody(x)
      PROVE  /\ Members(ops) \cap (Destroys \cup {Call("end"), Call("exit")}) = {}
             /\ Members(ops) \cap Launches = {}
  <2>1. \A o \in Members(ops) : o[1] \in {"clear", "stop", "stop_disable", "unbind", "join"}
    <3>1. CASE x = "server"
      BY <1>1, <1>8, <3>1, BodyMembers, Kinds
    <3>2. CASE x = "api"
      BY <1>1, <1>8, <3>2, BodyMembers, Kinds
    <3>3. CASE x = "checker"
      BY <1>1, <1>8, <3>3, BodyMembers, Kinds
    <3> QED
      BY <3>1, <3>2, <3>3 DEF Services
  <2> QED
    BY <1>2, <2>1
<1> QED
  BY <1>4, <1>5, <1>6, <1>7, <1>8 DEF Expands, Stops

\* What an operation of main does to the flags.
Changing == Launches \cup Clears \cup Joins \cup {Call("unbind")}
Effect(op) ==
    \/ op \notin Changing /\ UNCHANGED flagVars
    \/ op = Call("start") /\ on' = on \cup {"server"} /\ joinable' = joinable /\ bound' \in Ports
    \/ op = Call("start_checker")
       /\ on' = on \cup {"checker"} /\ joinable' = joinable \cup {"checker"} /\ bound' = bound
    \/ op = Call("start_accept")
       /\ on' = on /\ joinable' = joinable \cup {"accept"} /\ bound' = bound
    \/ op = Call("api_start") /\ UNCHANGED flagVars
    \/ op = Call("api_start")
       /\ on' = on \cup {"api"} /\ joinable' = joinable \cup {"listen"} /\ bound' = bound
    \/ \E x \in Services : op = Clear(x) /\ on' = on \ {x} /\ joinable' = joinable /\ bound' = bound
    \/ \E h \in Helpers : op = Join(h) /\ on' = on /\ joinable' = joinable \ {h} /\ bound' = bound
    \/ op = Call("unbind") /\ on' = on /\ joinable' = joinable /\ bound' = "none"

LEMMA NotChanging ==
  /\ \A o \in Toggles \cup Writes \cup Stops \cup Destroys : o \notin Changing
  /\ \A f \in {"init", "cli", "read", "restore", "restored", "exit", "end", "wait", "stop_disable"} :
        Call(f) \notin Changing
<1>1. \A o \in Changing : o[1] \in {"start", "start_checker", "start_accept", "api_start", "clear",
                                    "join", "unbind"}
  BY Kinds DEF Changing, Launches
<1> QED
  BY <1>1, Kinds

LEMMA NoEffect == ASSUME NEW op, Effect(op), op \notin Changing PROVE UNCHANGED flagVars
<1>1. /\ \A x \in Services : Clear(x) \in Changing
      /\ \A h \in Helpers : Join(h) \in Changing
      /\ Call("start") \in Changing /\ Call("start_checker") \in Changing
      /\ Call("start_accept") \in Changing /\ Call("api_start") \in Changing
      /\ Call("unbind") \in Changing
  BY DEF Changing, Launches, Clears, Joins
<1> QED
  BY <1>1 DEF Effect

\* While no console event has come, a step of the process is one of main with
\* its effect, or leaves main and the flags alone, or ends the process.
LEMMA MainEffects ==
  ASSUME Types, WhoOK, NoEvent', [ProcessNext]_processVars, proc' = "up"
  PROVE  \/ main' = main /\ UNCHANGED flagVars
         \/ /\ Moves("main") /\ Effect(Head(main))
            /\ \A h \in Helpers : Head(main) = Destroy(h) => h \notin joinable
         \/ At("main", Call("start")) /\ main' = AfterNoBind /\ UNCHANGED flagVars
         \/ CliEof("main") /\ UNCHANGED flagVars
<1>1. /\ "main" \in Threads /\ ListTypes /\ "main" \notin ApiThreads /\ "ctrl" # "main"
  BY ProcessAssumption DEF Threads, Types
<1>2. NoEvent
  BY SeenGrows DEF NoEvent
<1>3. CASE UNCHANGED processVars
  BY <1>3 DEF processVars, flagVars, main
<1>4. ASSUME NEW t \in Threads, ThreadStep(t), t # "main" PROVE main' = main /\ UNCHANGED flagVars
  <2>1. todo[t] # <<>> /\ proc = "up"
    BY <1>4 DEF ThreadStep, RegStep, Save, RegToggle, RegWrite, Restore, Restored, ServerStep, StartFails,
       Start, NoApi, StopDisable, Unbind, Launch, StopTest, StopClear, JoinEnds, JoinTwice, DestroyThread,
       MainStep, CliTest, ServiceWait, Exit, End, Proceed, At, Writing
  <2>2. Head(todo[t]) \in ApiOps
    BY <1>2, <1>4, <2>1, NotMainOnly
  <2>3. \A o : At(t, o) => o[1] \in {"toggle", "init"}
    <3>1. \A o \in ApiOps : o[1] \in {"toggle", "init"}
      BY Kinds DEF ApiOps
    <3> QED
      BY <2>2, <3>1 DEF At
  <2>4. ~MainStep(t)
    <3>1. \A f \in {"cli", "wait", "exit", "end"} : Call(f)[1] = f
      BY Kinds
    <3> QED
      BY <2>3, <3>1 DEF MainStep, CliTest, ServiceWait, Exit, End, Proceed
  <2>5. ~ServerStep(t)
    <3>1. /\ \A f \in {"start", "api_start", "stop_disable", "unbind", "start_checker", "start_accept"} :
                Call(f)[1] = f
          /\ \A x \in Services : Stop(x)[1] = "stop" /\ Clear(x)[1] = "clear"
          /\ \A h \in Helpers : Join(h)[1] = "join" /\ Destroy(h)[1] = "destroy"
      BY Kinds
    <3> QED
      BY <2>3, <3>1 DEF ServerStep, StartFails, Start, NoApi, StopDisable, Unbind, Launch, StopTest,
         StopClear, JoinEnds, JoinTwice, DestroyThread, Proceed
  <2>6. RegStep(t)
    BY <1>4, <2>4, <2>5 DEF ThreadStep
  <2>7. UNCHANGED flagVars
    BY <2>6 DEF RegStep, Save, RegToggle, RegWrite, Restore, Restored
  <2>8. \E ops : todo' = [todo EXCEPT ![t] = ops]
    BY <2>6 DEF RegStep, Save, RegToggle, RegWrite, Restore, Restored, Then
  <2>9. todo'["main"] = todo["main"]
    BY <1>1, <1>4, <2>8 DEF ListTypes
  <2> QED
    BY <2>7, <2>9 DEF main
<1>5. CASE RegStep("main")
  <2>1. UNCHANGED flagVars
    BY <1>5 DEF RegStep, Save, RegToggle, RegWrite, Restore, Restored
  <2>2. Moves("main")
    BY <1>1, <1>5, RegMoves
  <2>3. Head(main) \notin Changing /\ Head(main)[1] # "destroy"
    <3>1. Head(main) \in Toggles \cup Writes \cup {Call("init"), Call("restore"), Call("restored")}
      BY <1>1, <1>5, WritingHead DEF RegStep, Save, RegToggle, RegWrite, Restore, Restored, At, main
    <3> QED
      BY <3>1, NotChanging, Kinds
  <2>4. \A h : Destroy(h)[1] = "destroy"
    BY Kinds
  <2> QED
    BY <2>1, <2>2, <2>3, <2>4 DEF Effect
<1>6. CASE ServerStep("main")
  <2>1. CASE StartFails("main")
    <3>1. todo' = [todo EXCEPT !["main"] = AfterNoBind] /\ UNCHANGED flagVars /\ At("main", Call("start"))
      BY <2>1 DEF StartFails
    <3>2. todo'["main"] = AfterNoBind
      BY <1>1, <3>1 DEF ListTypes
    <3>3. main' = AfterNoBind
      BY <3>2 DEF main
    <3> QED
      BY <3>1, <3>3
  <2>2. CASE Start("main")
    <3>1. /\ At("main", Call("start")) /\ proc' = proc
          /\ Then("main", (IF conf.sysproxy THEN Enable(conf.port) ELSE <<>>)
                          \o <<Call("start_checker"), Call("start_accept")>>)
      BY <2>2 DEF Start
    <3>2. Expands(Call("start"), (IF conf.sysproxy THEN Enable(conf.port) ELSE <<>>)
                     \o <<Call("start_checker"), Call("start_accept")>>)
      BY DEF Expands
    <3>3. Moves("main") /\ Head(main) = Call("start")
      BY <1>1, <3>1, <3>2, MovesIf, AtHead DEF main
    <3>4. on' = on \cup {"server"} /\ joinable' = joinable /\ bound' \in Ports
      BY <2>2 DEF Start, Types, ValueTypes, ConfigFile
    <3>5. Effect(Head(main))
      BY <3>3, <3>4 DEF Effect
    <3>6. \A h : Head(main) # Destroy(h)
      BY <3>3, Kinds
    <3> QED
      BY <3>3, <3>5, <3>6
  <2>3. ASSUME NEW op, NEW ops, Effect(op), At("main", op), Expands(op, ops), Then("main", ops), proc' = proc,
               \A h \in Helpers : op = Destroy(h) => h \notin joinable
        PROVE  /\ Moves("main") /\ Effect(Head(main))
               /\ \A h \in Helpers : Head(main) = Destroy(h) => h \notin joinable
    <3>1. Moves("main") /\ Head(main) = op
      BY <1>1, <2>3, MovesIf, AtHead DEF main
    <3> QED
      BY <2>3, <3>1
  <2>4. \A f, h : Call(f) # Destroy(h) \/ f = "destroy"
    BY Kinds
  <2>5. CASE NoApi("main")
    <3>1. /\ At("main", Call("api_start")) /\ Then("main", <<>>) /\ proc' = proc /\ UNCHANGED flagVars
      BY <2>5 DEF NoApi, Proceed
    <3>2. Expands(Call("api_start"), <<>>)
      BY DEF Expands, Plain
    <3>3. Effect(Call("api_start"))
      BY <3>1 DEF Effect
    <3> QED
      BY <2>3, <2>4, <3>1, <3>2, <3>3
  <2>6. CASE StopDisable("main")
    <3>1. /\ At("main", Call("stop_disable")) /\ proc' = proc /\ UNCHANGED flagVars
          /\ Then("main", IF conf.sysproxy THEN <<Write("enable", "off")>> ELSE <<>>)
      BY <2>6 DEF StopDisable, Proceed
    <3>2. Expands(Call("stop_disable"), IF conf.sysproxy THEN <<Write("enable", "off")>> ELSE <<>>)
      BY DEF Expands
    <3>3. Effect(Call("stop_disable"))
      BY <3>1, NotChanging DEF Effect
    <3> QED
      BY <2>3, <2>4, <3>1, <3>2, <3>3
  <2>7. CASE Unbind("main")
    <3>1. /\ At("main", Call("unbind")) /\ Then("main", <<>>) /\ proc' = proc
          /\ on' = on /\ joinable' = joinable /\ bound' = "none"
      BY <2>7 DEF Unbind
    <3>2. Expands(Call("unbind"), <<>>)
      BY DEF Expands, Plain
    <3>3. Effect(Call("unbind"))
      BY <3>1 DEF Effect
    <3> QED
      BY <2>3, <2>4, <3>1, <3>2, <3>3
  <2>8. ASSUME NEW f \in {"start_checker", "start_accept", "api_start"}, NEW flag, NEW h,
               Launch("main", f, flag, h), Effect(Call(f))
        PROVE  /\ Moves("main") /\ Effect(Head(main))
               /\ \A k \in Helpers : Head(main) = Destroy(k) => k \notin joinable
    <3>1. At("main", Call(f)) /\ Then("main", <<>>) /\ proc' = proc
      BY <2>8 DEF Launch
    <3>2. Expands(Call(f), <<>>)
      BY DEF Expands, Plain
    <3> QED
      BY <2>3, <2>4, <2>8, <3>1, <3>2
  <2>9. CASE Launch("main", "start_checker", {"checker"}, "checker")
    <3>1. Effect(Call("start_checker"))
      BY <2>9 DEF Launch, Effect
    <3> QED
      BY <2>8, <2>9, <3>1
  <2>10. CASE Launch("main", "start_accept", {}, "accept")
    <3>1. on \cup {} = on
      OBVIOUS
    <3>2. Effect(Call("start_accept"))
      BY <2>10, <3>1 DEF Launch, Effect
    <3> QED
      BY <2>8, <2>10, <3>2
  <2>11. CASE Launch("main", "api_start", {"api"}, "listen")
    <3>1. Effect(Call("api_start"))
      BY <2>11 DEF Launch, Effect
    <3> QED
      BY <2>8, <2>11, <3>1
  <2>12. ASSUME NEW x \in Services, StopTest("main", x)
         PROVE  /\ Moves("main") /\ Effect(Head(main))
                /\ \A h \in Helpers : Head(main) = Destroy(h) => h \notin joinable
    <3>1. /\ At("main", Stop(x)) /\ Then("main", IF x \in on THEN StopBody(x) ELSE <<>>)
          /\ proc' = proc /\ UNCHANGED flagVars
      BY <2>12 DEF StopTest, Proceed
    <3>2. Expands(Stop(x), IF x \in on THEN StopBody(x) ELSE <<>>)
      BY DEF Expands
    <3>3. Effect(Stop(x))
      BY <3>1, NotChanging DEF Effect, Stops
    <3>4. \A h : Stop(x) # Destroy(h)
      BY Kinds
    <3> QED
      BY <2>3, <3>1, <3>2, <3>3, <3>4
  <2>13. ASSUME NEW x \in Services, StopClear("main", x)
         PROVE  /\ Moves("main") /\ Effect(Head(main))
                /\ \A h \in Helpers : Head(main) = Destroy(h) => h \notin joinable
    <3>1. /\ At("main", Clear(x)) /\ Then("main", <<>>) /\ proc' = proc
          /\ on' = on \ {x} /\ joinable' = joinable /\ bound' = bound
      BY <2>13 DEF StopClear
    <3>2. Expands(Clear(x), <<>>)
      BY DEF Expands, Plain, Clears
    <3>3. Effect(Clear(x))
      BY <3>1 DEF Effect
    <3>4. \A h : Clear(x) # Destroy(h)
      BY Kinds
    <3> QED
      BY <2>3, <3>1, <3>2, <3>3, <3>4
  <2>14. ASSUME NEW h \in Helpers, JoinEnds("main", h)
         PROVE  /\ Moves("main") /\ Effect(Head(main))
                /\ \A k \in Helpers : Head(main) = Destroy(k) => k \notin joinable
    <3>1. /\ At("main", Join(h)) /\ Then("main", <<>>) /\ proc' = proc
          /\ on' = on /\ joinable' = joinable \ {h} /\ bound' = bound
      BY <2>14 DEF JoinEnds
    <3>2. Expands(Join(h), <<>>)
      BY DEF Expands, Plain, Joins
    <3>3. Effect(Join(h))
      BY <3>1 DEF Effect
    <3>4. \A k : Join(h) # Destroy(k)
      BY Kinds
    <3> QED
      BY <2>3, <3>1, <3>2, <3>3, <3>4
  <2>15. ASSUME NEW h \in Helpers, JoinTwice("main", h) PROVE FALSE
    BY <2>15 DEF JoinTwice, Abort
  <2>16. ASSUME NEW h \in Helpers, DestroyThread("main", h)
         PROVE  /\ Moves("main") /\ Effect(Head(main))
                /\ \A k \in Helpers : Head(main) = Destroy(k) => k \notin joinable
    <3>1. /\ At("main", Destroy(h)) /\ Then("main", <<>>) /\ proc' = proc /\ UNCHANGED flagVars
          /\ h \notin joinable
      BY <2>16 DEF DestroyThread, Abort
    <3>2. Expands(Destroy(h), <<>>)
      BY DEF Expands, Plain, Destroys
    <3>3. Effect(Destroy(h))
      BY <3>1, NotChanging DEF Effect, Destroys
    <3>4. \A k : Destroy(h) = Destroy(k) => h = k
      BY DEF Destroy
    <3> QED
      BY <2>3, <3>1, <3>2, <3>3, <3>4
  <2> QED
    BY <1>6, <2>1, <2>2, <2>5, <2>6, <2>7, <2>9, <2>10, <2>11, <2>12, <2>13, <2>14, <2>15, <2>16
       DEF ServerStep
<1>7. ASSUME NEW f \in {"cli", "wait", "exit", "read"}, NEW ops, At("main", Call(f)), Expands(Call(f), ops),
             Then("main", ops), proc' = proc, UNCHANGED flagVars
      PROVE  /\ Moves("main") /\ Effect(Head(main))
             /\ \A h \in Helpers : Head(main) = Destroy(h) => h \notin joinable
  <2>1. Moves("main") /\ Head(main) = Call(f)
    BY <1>1, <1>7, MovesIf, AtHead DEF main
  <2>2. Effect(Call(f))
    BY <1>7, NotChanging DEF Effect
  <2>3. \A h : Call(f) # Destroy(h)
    BY Kinds
  <2> QED
    BY <2>1, <2>2, <2>3
<1>8. CASE MainStep("main")
  <2>1. CASE CliTest("main")
    <3>1. /\ At("main", Call("cli")) /\ proc' = proc /\ UNCHANGED flagVars
          /\ Then("main", IF "server" \in on THEN <<Call("read"), Call("cli")>> ELSE <<>>)
      BY <2>1 DEF CliTest, Proceed
    <3>2. Expands(Call("cli"), IF "server" \in on THEN <<Call("read"), Call("cli")>> ELSE <<>>)
      BY DEF Expands
    <3> QED
      BY <1>7, <3>1, <3>2
  <2>2. CASE ServiceWait("main")
    <3>1. At("main", Call("wait")) /\ Then("main", <<>>) /\ proc' = proc /\ UNCHANGED flagVars
      BY <2>2 DEF ServiceWait, Proceed
    <3>2. Expands(Call("wait"), <<>>)
      BY DEF Expands, Plain
    <3> QED
      BY <1>7, <3>1, <3>2
  <2>3. CASE Exit("main")
    <3>1. At("main", Call("exit")) /\ Then("main", ExitBody) /\ proc' = proc /\ UNCHANGED flagVars
      BY <2>3 DEF Exit, Proceed
    <3>2. Expands(Call("exit"), ExitBody)
      BY DEF Expands
    <3> QED
      BY <1>7, <3>1, <3>2
  <2>4. CASE End("main")
    BY <2>4 DEF End
  <2> QED
    BY <1>8, <2>1, <2>2, <2>3, <2>4 DEF MainStep
<1>9. CASE CliCommand("main")
  <2>1. At("main", Call("read")) /\ proc' = proc /\ UNCHANGED flagVars
    BY <1>9 DEF CliCommand
  <2>2. \E ops \in {Enable(conf.port), Disable, <<>>, <<Stop("server")>>} : Then("main", ops)
    BY <1>9 DEF CliCommand
  <2>3. PICK ops : Then("main", ops) /\ Expands(Call("read"), ops)
    BY <2>2 DEF Expands
  <2> QED
    BY <1>7, <2>1, <2>3
<1>10. ASSUME NEW c \in ConfigFile, CliReload("main", c)
       PROVE  /\ Moves("main") /\ Effect(Head(main))
              /\ \A h \in Helpers : Head(main) = Destroy(h) => h \notin joinable
  <2>1. At("main", Call("read")) /\ Then("main", <<>>) /\ proc' = proc /\ UNCHANGED flagVars
    BY <1>10 DEF CliReload
  <2>2. Expands(Call("read"), <<>>)
    BY DEF Expands
  <2> QED
    BY <1>7, <2>1, <2>2
<1>11. CASE CliEof("main")
  BY <1>11 DEF CliEof
<1>12. ASSUME NEW t \in ApiThreads, ApiRequest(t) PROVE main' = main /\ UNCHANGED flagVars
  BY <1>1, <1>12 DEF ApiRequest, main
<1>13. ASSUME NEW k \in {"ctrl", "close"}, ConsoleEvent(k) PROVE FALSE
  BY <1>13 DEF ConsoleEvent, NoEvent
<1>14. CASE ServiceStop
  BY <1>14 DEF ServiceStop, main
<1>15. CASE Crash
  BY <1>15 DEF Crash
<1>16. ASSUME NEW t \in Threads, ThreadStep(t)
       PROVE  \/ main' = main /\ UNCHANGED flagVars
              \/ /\ Moves("main") /\ Effect(Head(main))
                 /\ \A h \in Helpers : Head(main) = Destroy(h) => h \notin joinable
              \/ At("main", Call("start")) /\ main' = AfterNoBind /\ UNCHANGED flagVars
              \/ CliEof("main") /\ UNCHANGED flagVars
  <2>1. CASE t # "main"
    BY <1>4, <1>16, <2>1
  <2>2. CASE t = "main"
    <3>1. RegStep("main") \/ ServerStep("main") \/ MainStep("main")
      BY <1>16, <2>2 DEF ThreadStep
    <3> QED
      BY <1>5, <1>6, <1>8, <3>1
  <2> QED
    BY <2>1, <2>2
<1> QED
  BY <1>3, <1>9, <1>10, <1>11, <1>12, <1>13, <1>14, <1>15, <1>16 DEF ProcessNext

\* Which helper looks at which flag.
LEMMA Flags ==
  /\ FlagOf["listen"] = "api" /\ FlagOf["accept"] = "server" /\ FlagOf["checker"] = "checker"
  /\ \A h \in Helpers : FlagOf[h] \in Services
  /\ \A x \in Services : \E h \in Helpers : FlagOf[h] = x
  /\ \A h \in Helpers, k \in Helpers : FlagOf[h] = FlagOf[k] => h = k
<1>1. FlagOf["listen"] = "api" /\ FlagOf["accept"] = "server" /\ FlagOf["checker"] = "checker"
  BY DEF FlagOf
<1> QED
  BY <1>1 DEF Helpers, Services

\* stop() clears the flag first and joins the thread that looks at it.
LEMMA StopBodyAhead ==
  /\ \A h \in Helpers : Ahead(StopBody(FlagOf[h]), {Clear(FlagOf[h])}, Last(h))
  /\ \A h \in Helpers : Ahead(StopBody(FlagOf[h]), {Join(h)}, Last(h))
  /\ Ahead(StopBody("server"), {Call("unbind")}, {Call("end")})
  /\ \A x \in Services, y \in Services : Clear(y) \in Members(StopBody(x)) => x = y
<1>1. /\ StopBody("server") = <<Clear("server"), Stop("checker"), Call("stop_disable"),
                                Call("unbind"), Join("accept")>>
      /\ StopBody("api") = <<Clear("api"), Join("listen")>>
      /\ StopBody("checker") = <<Clear("checker"), Join("checker")>>
  BY DEF StopBody, StopServer
<1>2. \A x \in Services : \A i \in 1 .. Len(StopBody(x)) :
         StopBody(x)[i][1] \in {"clear", "stop", "stop_disable", "unbind", "join"}
  <2>1. \A i \in 1 .. 5 : StopBody("server")[i][1] \in {"clear", "stop", "stop_disable", "unbind", "join"}
    BY <1>1, Kinds
  <2>2. \A i \in 1 .. 2 : StopBody("api")[i][1] \in {"clear", "join"}
    BY <1>1, Kinds
  <2>3. \A i \in 1 .. 2 : StopBody("checker")[i][1] \in {"clear", "join"}
    BY <1>1, Kinds
  <2>4. Len(StopBody("server")) = 5 /\ Len(StopBody("api")) = 2 /\ Len(StopBody("checker")) = 2
    BY <1>1
  <2> QED
    BY <2>1, <2>2, <2>3, <2>4 DEF Services
<1>3. \A h \in Helpers : \A o \in Last(h) : o[1] \in {"destroy", "end"}
  BY Kinds DEF Last
<1>4. \A x \in Services, h \in Helpers : \A i \in 1 .. Len(StopBody(x)) : StopBody(x)[i] \notin Last(h)
  BY <1>2, <1>3
<1>5. \A h \in Helpers : \E i \in 1 .. Len(StopBody(FlagOf[h])) : StopBody(FlagOf[h])[i] = Join(h)
  <2>1. /\ 5 \in 1 .. Len(StopBody("server")) /\ StopBody("server")[5] = Join("accept")
        /\ 2 \in 1 .. Len(StopBody("api")) /\ StopBody("api")[2] = Join("listen")
        /\ 2 \in 1 .. Len(StopBody("checker")) /\ StopBody("checker")[2] = Join("checker")
    BY <1>1
  <2> QED
    BY <2>1, Flags DEF Helpers
<1>6. \A h \in Helpers : \E i \in 1 .. Len(StopBody(FlagOf[h])) : StopBody(FlagOf[h])[i] = Clear(FlagOf[h])
  <2>1. /\ 1 \in 1 .. Len(StopBody("server")) /\ StopBody("server")[1] = Clear("server")
        /\ 1 \in 1 .. Len(StopBody("api")) /\ StopBody("api")[1] = Clear("api")
        /\ 1 \in 1 .. Len(StopBody("checker")) /\ StopBody("checker")[1] = Clear("checker")
    BY <1>1
  <2> QED
    BY <2>1, Flags DEF Helpers
<1>7. ASSUME NEW h \in Helpers, NEW A, \E i \in 1 .. Len(StopBody(FlagOf[h])) : StopBody(FlagOf[h])[i] \in A
      PROVE  Ahead(StopBody(FlagOf[h]), A, Last(h))
  <2> DEFINE q == StopBody(FlagOf[h])
  <2>1. /\ Len(q) \in Nat /\ \A i \in 1 .. Len(q) : q[i] \notin Last(h)
        /\ \E i \in 1 .. Len(q) : q[i] \in A
    <3>1. Len(StopBody("server")) = 5 /\ Len(StopBody("api")) = 2 /\ Len(StopBody("checker")) = 2
      BY <1>1
    <3>2. Len(q) \in Nat
      BY <3>1, Flags DEF Services
    <3> QED
      BY <1>4, <1>7, <3>2, Flags
  <2> HIDE DEF q
  <2>2. Ahead(q, A, Last(h))
    BY <2>1 DEF Ahead
  <2> QED
    BY <2>2 DEF q
<1>8. Ahead(StopBody("server"), {Call("unbind")}, {Call("end")})
  <2> DEFINE q == StopBody("server")
  <2>1. Len(q) = 5 /\ q[4] = Call("unbind") /\ \A i \in 1 .. 5 : q[i] # Call("end")
    <3>1. \A i \in 1 .. 5 : q[i][1] # "end"
      BY <1>1, Kinds
    <3>2. Call("end")[1] = "end"
      BY Kinds
    <3> QED
      BY <1>1, <3>1, <3>2
  <2> HIDE DEF q
  <2>2. Ahead(q, {Call("unbind")}, {Call("end")})
    BY <2>1 DEF Ahead
  <2> QED
    BY <2>2 DEF q
<1>9. \A x \in Services, y \in Services : Clear(y) \in Members(StopBody(x)) => x = y
  <2>1. \A x, y : Clear(x) = Clear(y) => x = y
    BY DEF Clear
  <2>2. /\ \A i \in 2 .. 5 : StopBody("server")[i][1] # "clear"
        /\ StopBody("api")[2][1] # "clear" /\ StopBody("checker")[2][1] # "clear"
    BY <1>1, Kinds
  <2>3. /\ Len(StopBody("server")) = 5 /\ Len(StopBody("api")) = 2 /\ Len(StopBody("checker")) = 2
        /\ StopBody("server")[1] = Clear("server") /\ StopBody("api")[1] = Clear("api")
        /\ StopBody("checker")[1] = Clear("checker")
    BY <1>1
  <2>4. \A x \in Services : \A i \in 1 .. Len(StopBody(x)) :
           StopBody(x)[i] = Clear(x) \/ StopBody(x)[i][1] # "clear"
    BY <2>2, <2>3 DEF Services
  <2> QED
    BY <2>1, <2>4, Kinds DEF Members
<1> QED
  BY <1>5, <1>6, <1>7, <1>8, <1>9

LEMMA AheadWeaker ==
  ASSUME NEW q, NEW A, NEW B, NEW C, NEW D, Ahead(q, A, B), A \subseteq C, D \subseteq B
  PROVE  Ahead(q, C, D)
BY DEF Ahead

LEMMA AheadTail ==
  ASSUME NEW q \in Seq(TypedOps), Len(q) > 1, NEW A, NEW B, Ahead(q, A, B), q[1] \notin A, q[2] \notin A
  PROVE  Ahead(Tail(Tail(q)), A, B)
<1> DEFINE w == Tail(Tail(q))
<1>1. Len(q) \in Nat /\ Len(w) = Len(q) - 2 /\ \A i \in 1 .. Len(q) - 2 : w[i] = q[i + 2]
  BY TailTail, LenProperties
<1> HIDE DEF w
<1>2. PICK k \in 1 .. Len(q) : q[k] \in A /\ \A j \in 1 .. k - 1 : q[j] \notin B
  BY DEF Ahead
<1>3. k > 2
  BY <1>2
<1> DEFINE n == k - 2
<1>4. n \in 1 .. Len(w) /\ w[n] \in A
  BY <1>1, <1>2, <1>3
<1>5. \A j \in 1 .. n - 1 : w[j] \notin B
  <2>1. \A j \in 1 .. n - 1 : w[j] = q[j + 2] /\ j + 2 \in 1 .. k - 1
    BY <1>1, <1>2, <1>3
  <2> QED
    BY <1>2, <2>1
<1> HIDE DEF n
<1>6. Ahead(w, A, B)
  BY <1>4, <1>5 DEF Ahead
<1> QED
  BY <1>6 DEF w

\* The destructors stop each service before they destroy its thread.
LEMMA ExitStops ==
  ASSUME NEW h \in Helpers
  PROVE  Ahead(ExitBody, Stopping(h), Last(h))
<1> DEFINE q == ExitBody
<1>1. /\ Len(q) = 7 /\ q[1] = Stop("api") /\ q[2] = Destroy("listen") /\ q[3] = Stop("server")
      /\ q[4] = Destroy("accept") /\ q[5] = Stop("checker")
  BY DEF ExitBody
<1> HIDE DEF q
<1>2. /\ \A x : Stop(x)[1] = "stop"
      /\ \A k : Destroy(k)[1] = "destroy" /\ Destroy(k)[2] = k
      /\ Call("end")[1] = "end"
  BY DEF Stop, Destroy, Call
<1>3. CASE h = "listen"
  <2>1. q[1] \in Stopping(h)
    BY <1>1, <1>3, Flags DEF Stopping
  <2> QED
    BY <1>1, <2>1 DEF Ahead, q
<1>4. CASE h = "accept"
  <2>1. q[3] \in Stopping(h)
    BY <1>1, <1>4, Flags DEF Stopping
  <2>2. q[1] \notin Last(h) /\ q[2] \notin Last(h)
    BY <1>1, <1>2, <1>4 DEF Last
  <2>3. \A j \in 1 .. 3 - 1 : q[j] \notin Last(h)
    BY <2>2
  <2> QED
    BY <1>1, <2>1, <2>3 DEF Ahead, q
<1>5. CASE h = "checker"
  <2>1. q[5] \in Stopping(h)
    BY <1>1, <1>5, Flags DEF Stopping
  <2>2. q[1] \notin Last(h) /\ q[2] \notin Last(h) /\ q[3] \notin Last(h) /\ q[4] \notin Last(h)
    BY <1>1, <1>2, <1>5 DEF Last
  <2>3. \A j \in 1 .. 5 - 1 : q[j] \notin Last(h)
    BY <2>2
  <2> QED
    BY <1>1, <2>1, <2>3 DEF Ahead, q
<1> QED
  BY <1>3, <1>4, <1>5 DEF Helpers

LEMMA StartEffect == ASSUME Effect(Call("start")) PROVE "server" \in on'
<1>1. Call("start") \in Changing
  BY DEF Changing, Launches
<1>2. /\ \A f \in {"start_checker", "start_accept", "api_start", "unbind"} : Call("start") # Call(f)
      /\ \A x : Call("start") # Clear(x) /\ Call("start") # Join(x)
  BY Kinds
<1> QED
  BY <1>1, <1>2 DEF Effect

LEMMA FirstAdded ==
  ASSUME NEW q \in Seq(TypedOps), q # <<>>, NEW ops \in Seq(TypedOps), NEW O, "server" \in O,
         Call("start_accept") \notin Members(Tail(q)), Members(ops) \cap Hindrances = {}
  PROVE  AcceptFirst(ops \o Tail(q), O)
<1> DEFINE r == Tail(q)
           w == ops \o r
<1>1. r \in Seq(TypedOps)
  BY HeadTailProperties
<1> HIDE DEF r
<1>2. /\ Len(ops) \in Nat /\ Len(w) = Len(ops) + Len(r) /\ Len(r) \in Nat
      /\ \A i \in 1 .. Len(ops) + Len(r) : w[i] = IF i <= Len(ops) THEN ops[i] ELSE r[i - Len(ops)]
  BY <1>1, ConcatProperties, LenProperties
<1> HIDE DEF w
<1>3. ASSUME NEW i \in 1 .. Len(w), w[i] = Call("start_accept") PROVE \A j \in 1 .. i - 1 : w[j] \notin Hindrances
  <2>1. i <= Len(ops)
    <3> SUFFICES ASSUME ~(i <= Len(ops)) PROVE FALSE
      OBVIOUS
    <3>1. i - Len(ops) \in 1 .. Len(r) /\ w[i] = r[i - Len(ops)]
      BY <1>2
    <3> QED
      BY <1>3, <3>1 DEF Members, r
  <2>2. \A j \in 1 .. i - 1 : j \in 1 .. Len(ops) /\ w[j] = ops[j]
    BY <1>2, <2>1
  <2> QED
    BY <2>2 DEF Members
<1>4. AcceptFirst(w, O)
  BY <1>3 DEF AcceptFirst
<1> QED
  BY <1>4 DEF w, r

LEMMA FirstKept ==
  ASSUME NEW q \in Seq(TypedOps), q # <<>>, NEW ops \in Seq(TypedOps), NEW O, NEW P, "server" \in P,
         AcceptFirst(q, O), Members(ops) \cap (Hindrances \cup {Call("start_accept")}) = {}
  PROVE  AcceptFirst(ops \o Tail(q), P)
<1> DEFINE w == ops \o Tail(q)
           n == Len(ops)
<1>1. /\ Len(q) \in Nat \ {0} /\ n \in Nat /\ Len(w) = n + Len(q) - 1
      /\ \A i \in 1 .. n : w[i] = ops[i]
      /\ \A i \in 2 .. Len(q) : w[n + i - 1] = q[i]
  BY Replaced
<1> HIDE DEF w
<1>2. \A i \in 1 .. Len(w) : ~(i <= n) => i - n + 1 \in 2 .. Len(q) /\ w[i] = q[i - n + 1]
  <2> SUFFICES ASSUME NEW i \in 1 .. Len(w), ~(i <= n) PROVE i - n + 1 \in 2 .. Len(q) /\ w[i] = q[i - n + 1]
    OBVIOUS
  <2>1. i - n + 1 \in 2 .. Len(q) /\ n + (i - n + 1) - 1 = i
    BY <1>1
  <2> QED
    BY <1>1, <2>1
<1>3. \A i \in 1 .. n : ops[i] \in Members(ops)
  BY DEF Members
<1>4. ASSUME NEW i \in 1 .. Len(w), w[i] = Call("start_accept") PROVE \A j \in 1 .. i - 1 : w[j] \notin Hindrances
  <2>1. ~(i <= n)
    BY <1>1, <1>3, <1>4
  <2> DEFINE k == i - n + 1
  <2>2. k \in 2 .. Len(q) /\ q[k] = Call("start_accept")
    BY <1>2, <1>4, <2>1
  <2>3. \A m \in 1 .. k - 1 : q[m] \notin Hindrances
    BY <2>2 DEF AcceptFirst
  <2>4. ASSUME NEW j \in 1 .. i - 1 PROVE w[j] \notin Hindrances
    <3>1. CASE j <= n
      <4>1. w[j] = ops[j] /\ j \in 1 .. n
        BY <1>1, <3>1
      <4> QED
        BY <1>3, <4>1
    <3>2. CASE ~(j <= n)
      <4>1. j \in 1 .. Len(w) /\ j - n + 1 \in 1 .. k - 1
        BY <1>1, <3>2
      <4>2. w[j] = q[j - n + 1]
        BY <1>2, <3>2, <4>1
      <4> HIDE DEF k
      <4> QED
        BY <2>3, <4>1, <4>2
    <3> QED
      BY <3>1, <3>2
  <2> QED
    BY <2>4
<1>5. AcceptFirst(w, P)
  BY <1>4 DEF AcceptFirst
<1> QED
  BY <1>5 DEF w

LEMMA StopExpands ==
  ASSUME NEW x \in Services, NEW ops, Expands(Stop(x), ops)
  PROVE  /\ x \in on => ops = StopBody(x)
         /\ ops # <<>> => ops = StopBody(x)
<1>1. Stop(x)[1] = "stop" /\ \A y : Stop(x) = Stop(y) => x = y
  BY DEF Stop
<1>2. Stop(x) \notin Plain
  BY <1>1, Kinds DEF Plain
<1>3. Stop(x) \notin {Call("restore"), Call("start"), Call("stop_disable"), Call("cli"), Call("read"), Call("exit")}
  BY <1>1, Kinds
<1> QED
  BY <1>1, <1>2, <1>3 DEF Expands

\* Which operations change what.
LEMMA Effects ==
  ASSUME Types, NEW op, Effect(op)
  PROVE  /\ \A x \in Services : op = Clear(x) => x \notin on'
         /\ \A x \in Services : x \in on /\ x \notin on' => op = Clear(x)
         /\ \A h \in Helpers : op = Join(h) => h \notin joinable'
         /\ op = Call("unbind") => bound' = "none"
         /\ op \notin Launches =>
               on' \subseteq on /\ joinable' \subseteq joinable /\ (bound = "none" => bound' = "none")
         /\ \A h \in joinable' \ joinable :
               op \in Launches /\ (FlagOf[h] \in on' \/ (op = Call("start_accept") /\ h = "accept"))
         /\ bound = "none" /\ bound' # "none" => "server" \in on' /\ op = Call("start")
         /\ op \in Launches => on \subseteq on'
         /\ joinable' \subseteq Helpers
<1>1. CASE op \notin Changing /\ UNCHANGED flagVars
  <2>1. /\ \A x \in Services : op # Clear(x)
        /\ \A h \in Helpers : op # Join(h)
        /\ op # Call("unbind") /\ op \notin Launches
    BY <1>1 DEF Changing, Clears, Joins
  <2> QED
    BY <1>1, <2>1 DEF flagVars, Types, ValueTypes
<1>2. ASSUME NEW f \in {"start", "start_checker", "start_accept", "api_start"}, op = Call(f)
      PROVE  /\ op \in Launches /\ op # Call("unbind")
             /\ \A x \in Services : op # Clear(x)
             /\ \A h \in Helpers : op # Join(h)
  BY <1>2, Kinds DEF Launches
<1>3. CASE op = Call("start") /\ on' = on \cup {"server"} /\ joinable' = joinable /\ bound' \in Ports
  BY <1>2, <1>3 DEF Types, ValueTypes
<1>4. CASE /\ op = Call("start_checker")
           /\ on' = on \cup {"checker"} /\ joinable' = joinable \cup {"checker"} /\ bound' = bound
  BY <1>2, <1>4, Flags DEF Types, ValueTypes, Helpers
<1>5. CASE /\ op = Call("start_accept")
           /\ on' = on /\ joinable' = joinable \cup {"accept"} /\ bound' = bound
  BY <1>2, <1>5, Flags DEF Types, ValueTypes, Helpers
<1>6. CASE op = Call("api_start") /\ UNCHANGED flagVars
  BY <1>2, <1>6 DEF Types, ValueTypes, flagVars
<1>7. CASE /\ op = Call("api_start")
           /\ on' = on \cup {"api"} /\ joinable' = joinable \cup {"listen"} /\ bound' = bound
  BY <1>2, <1>7, Flags DEF Types, ValueTypes, Helpers
<1>8. ASSUME NEW x \in Services, op = Clear(x), on' = on \ {x}, joinable' = joinable, bound' = bound
      PROVE  /\ op \notin Launches /\ op # Call("unbind")
             /\ \A y \in Services : op = Clear(y) <=> y = x
             /\ \A h \in Helpers : op # Join(h)
  <2>1. \A y : Clear(x) = Clear(y) => y = x
    BY DEF Clear
  <2> QED
    BY <1>8, <2>1, Kinds DEF Launches
<1>9. ASSUME NEW k \in Helpers, op = Join(k), on' = on, joinable' = joinable \ {k}, bound' = bound
      PROVE  /\ op \notin Launches /\ op # Call("unbind")
             /\ \A y \in Services : op # Clear(y)
             /\ \A h \in Helpers : op = Join(h) <=> h = k
  <2>1. \A h : Join(k) = Join(h) => h = k
    BY DEF Join
  <2> QED
    BY <1>9, <2>1, Kinds DEF Launches
<1>10. CASE op = Call("unbind") /\ on' = on /\ joinable' = joinable /\ bound' = "none"
  <2>1. /\ op \notin Launches
        /\ \A x \in Services : op # Clear(x)
        /\ \A h \in Helpers : op # Join(h)
    BY <1>10, Kinds DEF Launches
  <2> QED
    BY <1>10, <2>1 DEF Types, ValueTypes
<1>11. CASE \E x \in Services : op = Clear(x) /\ on' = on \ {x} /\ joinable' = joinable /\ bound' = bound
  BY <1>8, <1>11 DEF Types, ValueTypes
<1>12. CASE \E h \in Helpers : op = Join(h) /\ on' = on /\ joinable' = joinable \ {h} /\ bound' = bound
  BY <1>9, <1>12 DEF Types, ValueTypes
<1> QED
  BY <1>1, <1>3, <1>4, <1>5, <1>6, <1>7, <1>10, <1>11, <1>12 DEF Effect

LEMMA CleanMoves ==
  ASSUME Types, WhoOK, Moves("main"), Effect(Head(main)),
         \A h \in Helpers : Head(main) = Destroy(h) => h \notin joinable,
         Clean(main, on, joinable, bound)
  PROVE  Clean(main', on', joinable', bound')
<1> DEFINE q == main
           op == Head(q)
           w == main'
<1>1. /\ q \in Seq(TypedOps) /\ q # <<>> /\ Tail(q) \in Seq(TypedOps)
      /\ Members(q) = {op} \cup Members(Tail(q)) /\ "main" \in Threads
  BY MovesList DEF main, Threads
<1>2. PICK ops \in Seq(TypedOps) :
         /\ Expands(op, ops) /\ w = ops \o Tail(q)
         /\ Members(w) = Members(ops) \cup Members(Tail(q))
  BY <1>1, MovesList DEF main
<1>3. Proper(q) /\ StartOK
  BY DEF WhoOK, MainOK
<1>4. Effect(op)
  OBVIOUS
<1>5. /\ FlagsAhead(q, on) /\ JoinsAhead(q, on, joinable) /\ UnbindAhead(q, on, bound)
      /\ ClearsAhead(q) /\ ExitAhead(q) /\ AcceptFirst(q, on)
  BY DEF Clean
<1> HIDE DEF q, w
<1>6. /\ Len(q) \in Nat \ {0} /\ Len(ops) \in Nat /\ op = q[1]
      /\ Len(w) = Len(ops) + Len(q) - 1
      /\ \A i \in 1 .. Len(ops) : w[i] = ops[i]
      /\ \A i \in 2 .. Len(q) : w[Len(ops) + i - 1] = q[i]
  BY <1>1, <1>2, Replaced
<1> HIDE DEF op
<1>7. /\ \A A, B : Ahead(ops, A, B) => Ahead(w, A, B)
      /\ \A A, B : Ahead(q, A, B) /\ op \notin A /\ Members(ops) \cap B = {} => Ahead(w, A, B)
      /\ \A A, B : Ahead(q, A, B) /\ op \notin A => op \notin B
  BY <1>1, <1>2, AheadReplaced DEF op
<1>8. \A o \in Members(Tail(q)) : o \notin Clears
  <2>1. \A i \in 1 .. Len(Tail(q)) : Tail(q)[i] = q[i + 1] /\ i + 1 \in 1 .. Len(q) /\ i + 1 # 1
    <3>1. /\ Len(Tail(q)) = Len(q) - 1 /\ \A i \in 1 .. Len(Tail(q)) : Tail(q)[i] = q[i + 1]
      BY <1>1, HeadTailProperties
    <3> QED
      BY <1>6, <3>1
  <2> QED
    BY <1>3, <2>1 DEF Proper, Members
<1>9. CASE op = Call("exit")
  <2>1. Tail(q) = <<>>
    BY <1>1, <1>3, <1>9, LastOne DEF op
  <2>2. ops = ExitBody
    <3>1. op[1] = "exit"
      BY <1>9, Kinds
    <3>2. op \notin Plain
      BY <3>1, Kinds DEF Plain
    <3> QED
      BY <1>2, <1>9, <3>1, <3>2, Kinds DEF Expands
  <2>3. w = ExitBody
    BY <1>2, <2>1, <2>2, ConcatEmptySeq
  <2>4. UNCHANGED flagVars
    BY <1>4, <1>9, NotChanging, NoEffect
  <2>5. Len(q) = 1
    BY <1>1, <1>3, <1>9, LastOne DEF op
  <2>6. \A A, B : Ahead(q, A, B) => Call("exit") \in A
    <3> SUFFICES ASSUME NEW A, NEW B, Ahead(q, A, B) PROVE Call("exit") \in A
      OBVIOUS
    <3>1. PICK i \in 1 .. Len(q) : q[i] \in A
      BY DEF Ahead
    <3>2. i = 1
      BY <2>5, <3>1
    <3> QED
      BY <1>6, <1>9, <3>1, <3>2
  <2>7. \A h \in Helpers : Call("exit") # Join(h)
    BY Kinds
  <2>8. joinable \subseteq Helpers
    BY DEF Types, ValueTypes
  <2>9. \A h \in joinable : FlagOf[h] \in on
    BY <1>5, <2>6, <2>7, <2>8 DEF JoinsAhead
  <2>10. bound # "none" => "server" \in on
    <3>1. Call("exit") # Call("unbind")
      BY Kinds
    <3> QED
      BY <1>5, <2>6, <3>1 DEF UnbindAhead
  <2>11. FlagsAhead(w, on')
    <3> SUFFICES ASSUME NEW h \in Helpers PROVE Ahead(w, Stopping(h), Last(h))
      BY DEF FlagsAhead
    <3> QED
      BY <2>3, ExitStops
  <2>12. Members(w) \cap (Clears \cup Launches \cup {Call("start_accept")}) = {}
    <3>1. saved \in Saved
      BY DEF Types, ValueTypes
    <3>2. \A o \in Members(w) : o[1] \in {"stop", "destroy", "end"}
      BY <2>3, <3>1, BodyMembers, Kinds
    <3>3. \A o \in Clears \cup Launches : o[1] \notin {"stop", "destroy", "end"}
      BY Kinds DEF Launches
    <3>4. Call("start_accept") \in Launches
      BY DEF Launches
    <3> QED
      BY <3>2, <3>3, <3>4
  <2>13. ClearsAhead(w)
    BY <2>12, Flags DEF ClearsAhead, Clears, Services
  <2>14. AcceptFirst(w, on')
    BY <2>12 DEF AcceptFirst, Members
  <2> QED
    BY <2>4, <2>9, <2>10, <2>11, <2>12, <2>13, <2>14
       DEF Clean, JoinsAhead, UnbindAhead, ExitAhead, flagVars, w
<1>10. CASE op # Call("exit")
  <2>1. /\ Members(ops) \cap (Destroys \cup {Call("end"), Call("exit")}) = {}
        /\ op # Call("start") => Members(ops) \cap Launches = {}
        /\ op \notin Stops => Members(ops) \cap Clears = {}
        /\ op \notin Stops \cup {Call("read"), Call("cli")} => Members(ops) \cap Hindrances = {}
    BY <1>2, <1>10, OpsHold
  <2>2. \A h \in Helpers : Members(ops) \cap Last(h) = {}
    BY <2>1 DEF Last, Destroys
  <2>3. \A A : \A h \in Helpers : Ahead(q, A, Last(h)) /\ op \notin A => Ahead(w, A, Last(h))
    BY <1>7, <2>2
  <2>4. joinable \subseteq Helpers /\ on \subseteq Services /\ "none" \notin Ports
    BY ProcessAssumption DEF Types, ValueTypes, Texts
  <2>5. ExitAhead(w)
    <3>1. CASE Ahead(q, {Call("exit")}, Destroys \cup {Call("end")})
      <4>1. Ahead(w, {Call("exit")}, Destroys \cup {Call("end")})
        BY <1>7, <1>10, <2>1, <3>1
      <4> QED
        BY <4>1 DEF ExitAhead
    <3>2. CASE Members(q) \cap Launches = {}
      <4>1. op # Call("start") /\ Members(Tail(q)) \cap Launches = {}
        BY <1>1, <3>2 DEF Launches, op
      <4> QED
        BY <1>2, <2>1, <4>1 DEF ExitAhead
    <3> QED
      BY <1>5, <3>1, <3>2 DEF ExitAhead
  <2>6. op \in Launches => \A h \in Helpers : Ahead(w, Stopping(h), Last(h))
    <3> SUFFICES ASSUME op \in Launches, NEW h \in Helpers PROVE Ahead(w, Stopping(h), Last(h))
      OBVIOUS
    <3>1. op \in Members(q)
      BY <1>1 DEF op
    <3>2. Ahead(q, {Call("exit")}, Destroys \cup {Call("end")})
      BY <1>5, <3>1 DEF ExitAhead
    <3>3. Ahead(w, {Call("exit")}, Destroys \cup {Call("end")})
      BY <1>7, <1>10, <2>1, <3>2
    <3> QED
      BY <3>3, AheadWeaker DEF Stopping, Last, Destroys
  <2>7. /\ \A x \in Services : op = Clear(x) => x \notin on'
        /\ \A x \in Services : x \in on /\ x \notin on' => op = Clear(x)
        /\ \A h \in Helpers : op = Join(h) => h \notin joinable'
        /\ op = Call("unbind") => bound' = "none"
        /\ op \notin Launches =>
              on' \subseteq on /\ joinable' \subseteq joinable /\ (bound = "none" => bound' = "none")
        /\ \A h \in joinable' \ joinable :
              op \in Launches /\ (FlagOf[h] \in on' \/ (op = Call("start_accept") /\ h = "accept"))
        /\ bound = "none" /\ bound' # "none" => "server" \in on' /\ op = Call("start")
        /\ op \in Launches => on \subseteq on'
        /\ joinable' \subseteq Helpers
    BY <1>4, Effects
  <2>8. FlagsAhead(w, on')
    <3> SUFFICES ASSUME NEW h \in Helpers, FlagOf[h] \in on' PROVE Ahead(w, Stopping(h), Last(h))
      BY DEF FlagsAhead
    <3>1. CASE op \in Launches
      BY <2>6, <3>1
    <3>2. CASE op \notin Launches
      <4>1. FlagOf[h] \in on /\ Ahead(q, Stopping(h), Last(h))
        BY <1>5, <2>7, <3>2 DEF FlagsAhead
      <4>2. CASE op \notin Stopping(h)
        BY <2>3, <4>1, <4>2
      <4>3. CASE op = Stop(FlagOf[h])
        <5>1. ops = StopBody(FlagOf[h])
          BY <1>2, <4>1, <4>3, StopExpands, Flags
        <5>2. Ahead(w, {Clear(FlagOf[h])}, Last(h))
          BY <1>7, <5>1, StopBodyAhead
        <5> QED
          BY <5>2, AheadWeaker DEF Stopping
      <4>4. CASE op = Clear(FlagOf[h])
        BY <2>7, <4>4, Flags
      <4> QED
        BY <1>10, <4>2, <4>3, <4>4 DEF Stopping
    <3> QED
      BY <3>1, <3>2
  <2>9. JoinsAhead(w, on', joinable')
    <3> SUFFICES ASSUME NEW h \in joinable' PROVE FlagOf[h] \in on' \/ Ahead(w, {Join(h)}, Last(h))
      BY DEF JoinsAhead
    <3>1. CASE h \notin joinable
      <4>1. op \in Launches /\ (FlagOf[h] \in on' \/ (op = Call("start_accept") /\ h = "accept"))
        BY <2>7, <3>1
      <4>2. op = Call("start_accept") => "server" \in on
        <5> SUFFICES ASSUME op = Call("start_accept") PROVE "server" \in on
          OBVIOUS
        <5>1. 1 \in 1 .. Len(q) /\ q[1] = Call("start_accept")
          BY <1>6
        <5> QED
          BY <1>5, <5>1 DEF AcceptFirst
      <4>3. on \subseteq on'
        BY <2>7, <4>1
      <4> QED
        BY <4>1, <4>2, <4>3, Flags
    <3>2. CASE h \in joinable /\ FlagOf[h] \notin on'
      <4>1. h \in Helpers /\ op # Join(h)
        BY <2>4, <2>7, <3>2
      <4>2. CASE FlagOf[h] \in on
        <5>1. op = Clear(FlagOf[h]) /\ op \in Members(q)
          BY <1>1, <2>4, <2>7, <3>2, <4>2 DEF op
        <5>2. Ahead(q, {Join(h)}, Last(h))
          BY <1>5, <4>1, <5>1 DEF ClearsAhead
        <5> QED
          BY <2>3, <4>1, <5>2
      <4>3. CASE FlagOf[h] \notin on
        <5>1. Ahead(q, {Join(h)}, Last(h))
          BY <1>5, <3>2, <4>3 DEF JoinsAhead
        <5> QED
          BY <2>3, <4>1, <5>1
      <4> QED
        BY <4>2, <4>3
    <3> QED
      BY <3>1, <3>2
  <2>10. UnbindAhead(w, on', bound')
    <3> SUFFICES ASSUME bound' # "none", "server" \notin on' PROVE Ahead(w, {Call("unbind")}, {Call("end")})
      BY DEF UnbindAhead
    <3>1. bound # "none" /\ op # Call("unbind")
      BY <2>7
    <3>2. Ahead(q, {Call("unbind")}, {Call("end")})
      <4>1. CASE "server" \in on
        <5>1. op = Clear("server") /\ op \in Members(q)
          BY <1>1, <2>7, <4>1 DEF op, Services
        <5> QED
          BY <1>5, <5>1 DEF ClearsAhead
      <4>2. CASE "server" \notin on
        BY <1>5, <3>1, <4>2 DEF UnbindAhead
      <4> QED
        BY <4>1, <4>2
    <3> QED
      BY <1>7, <2>1, <3>1, <3>2
  <2>11. ClearsAhead(w)
    <3>1. ASSUME NEW x \in Services, Clear(x) \in Members(w) PROVE ops = StopBody(x)
      <4>1. Clear(x) \in Members(ops)
        BY <1>2, <1>8, <3>1 DEF Clears
      <4>2. PICK y \in Services : op = Stop(y)
        BY <2>1, <4>1 DEF Clears, Stops
      <4>3. ops # <<>>
        BY <4>1 DEF Members
      <4>4. ops = StopBody(y)
        BY <1>2, <4>2, <4>3, StopExpands
      <4> QED
        BY <4>1, <4>4, StopBodyAhead
    <3>2. \A h \in Helpers : Clear(FlagOf[h]) \in Members(w) => Ahead(w, {Join(h)}, Last(h))
      BY <1>7, <3>1, StopBodyAhead, Flags
    <3>3. Clear("server") \in Members(w) => Ahead(w, {Call("unbind")}, {Call("end")})
      BY <1>7, <3>1, StopBodyAhead DEF Services
    <3> QED
      BY <3>2, <3>3 DEF ClearsAhead
  <2>12. AcceptFirst(w, on')
    <3> DEFINE a == Call("start_accept")
    <3>1. CASE op = Call("start")
      <4>1. "server" \in on'
        BY <1>4, <3>1, StartEffect
      <4>2. a \notin Members(Tail(q))
        <5>1. Call("start") \in Members(q)
          BY <1>1, <3>1 DEF op
        <5>2. /\ q = Main[kind] \/ (kind = "console" /\ q = Tail(ConsoleMain))
              /\ kind \in {"console", "service"}
          BY <1>3, <5>1 DEF StartOK, q, Types, ValueTypes
        <5>3. Main["console"] = ConsoleMain /\ Main["service"] = ServiceMain
          BY DEF Main
        <5>4. \A o \in Members(Tail(q)) : o \in {Call("api_start"), Call("cli"), Stop("api"), Call("restore"),
                                            Call("exit"), Call("wait"), Stop("server")}
          BY <3>1, <5>2, <5>3, MainForms DEF op
        <5> QED
          BY <5>4, Kinds
      <4>3. Members(ops) \cap Hindrances = {}
        <5>1. op \notin Stops \cup {Call("read"), Call("cli")}
          BY <3>1, Kinds
        <5> QED
          BY <2>1, <5>1
      <4>4. AcceptFirst(ops \o Tail(q), on')
        BY <1>1, <4>1, <4>2, <4>3, FirstAdded
      <4> QED
        BY <1>2, <4>4
    <3>2. CASE op # Call("start") /\ a \notin Members(q)
      <4>1. a \notin Members(w)
        BY <1>1, <1>2, <2>1, <3>2 DEF Launches
      <4> QED
        BY <4>1 DEF AcceptFirst, Members
    <3>3. CASE op # Call("start") /\ a \in Members(q)
      <4>1. PICK i \in 1 .. Len(q) : q[i] = a
        BY <3>3 DEF Members
      <4>2. "server" \in on /\ \A j \in 1 .. i - 1 : q[j] \notin Hindrances
        BY <1>5, <4>1 DEF AcceptFirst
      <4>3. a \notin Hindrances /\ a # Call("cli") /\ Stop("api") \in Hindrances
        <5>1. \A o \in Hindrances : o[1] \in {"stop", "clear", "read"}
          BY Kinds DEF Hindrances
        <5>2. a[1] = "start_accept" /\ Call("cli")[1] = "cli"
          BY Kinds
        <5>3. Stop("api") \in Hindrances
          BY DEF Hindrances, Stops, Services
        <5> QED
          BY <5>1, <5>2, <5>3
      <4>4. op \notin Hindrances
        <5>1. CASE i = 1
          BY <1>6, <4>1, <4>3, <5>1
        <5>2. CASE i # 1
          BY <1>6, <4>2, <5>2
        <5> QED
          BY <5>1, <5>2
      <4>5. op # Call("cli")
        <5> SUFFICES ASSUME op = Call("cli") PROVE FALSE
          OBVIOUS
        <5>1. /\ 1 \in 1 .. Len(q) /\ q[1] = Call("cli")
          BY <1>6
        <5>2. Len(q) = 1 + 3 /\ q[1 + 1] = Stop("api")
          BY <1>3, <5>1 DEF Proper
        <5>3. i # 1 /\ i # 2
          BY <4>1, <4>3, <5>1, <5>2
        <5>4. 2 \in 1 .. i - 1
          BY <4>1, <5>2, <5>3
        <5> QED
          BY <4>2, <4>3, <5>2, <5>4
      <4>6. Members(ops) \cap (Hindrances \cup {a}) = {}
        BY <2>1, <3>3, <4>4, <4>5 DEF Hindrances, Launches
      <4>7. "server" \in on'
        <5>1. op # Clear("server")
          BY <4>4 DEF Hindrances, Clears, Services
        <5> QED
          BY <2>7, <4>2, <5>1 DEF Services
      <4>8. AcceptFirst(ops \o Tail(q), on')
        BY <1>1, <1>5, <4>6, <4>7, FirstKept
      <4> QED
        BY <1>2, <4>8
    <3> QED
      BY <3>1, <3>2, <3>3
  <2> QED
    BY <2>5, <2>8, <2>9, <2>10, <2>11, <2>12 DEF Clean, w
<1> QED
  BY <1>9, <1>10

LEMMA CleanStarts == ASSUME ProcessInit PROVE CleanOK
<1>1. on = {} /\ joinable = {} /\ bound = "none" /\ kind \in {"console", "service"} /\ todo = Begun(kind)
  BY DEF ProcessInit
<1>2. main = Main[kind]
  BY <1>1 DEF Begun, Threads, main
<1> DEFINE q == main
<1>3. q = ConsoleMain \/ q = ServiceMain
  BY <1>1, <1>2 DEF Main
<1>4. /\ ConsoleMain = <<Call("init"), Call("start"), Call("api_start"), Call("cli"), Stop("api"),
                         Call("restore"), Call("exit")>>
      /\ ServiceMain = <<Call("start"), Call("api_start"), Call("wait"), Stop("api"), Stop("server"),
                         Call("exit")>>
  BY DEF ConsoleMain, ServiceMain
<1> HIDE DEF q
<1>5. /\ Len(q) \in 1 .. 7 /\ q[Len(q)] = Call("exit")
      /\ \A i \in 1 .. Len(q) : q[i][1] \in {"init", "start", "api_start", "cli", "wait", "stop", "restore", "exit"}
  <2>1. CASE q = ConsoleMain
    <3>1. \A i \in 1 .. 7 : ConsoleMain[i][1] \in {"init", "start", "api_start", "cli", "stop", "restore", "exit"}
      BY <1>4, Kinds
    <3>2. Len(ConsoleMain) = 7 /\ ConsoleMain[7] = Call("exit")
      BY <1>4
    <3> QED
      BY <2>1, <3>1, <3>2
  <2>2. CASE q = ServiceMain
    <3>1. \A i \in 1 .. 6 : ServiceMain[i][1] \in {"start", "api_start", "wait", "stop", "exit"}
      BY <1>4, Kinds
    <3>2. Len(ServiceMain) = 6 /\ ServiceMain[6] = Call("exit")
      BY <1>4
    <3> QED
      BY <2>2, <3>1, <3>2
  <2> QED
    BY <1>3, <2>1, <2>2
<1>6. /\ \A o \in Clears : o[1] = "clear"
      /\ \A o \in Destroys \cup {Call("end")} : o[1] \in {"destroy", "end"}
      /\ Call("start_accept")[1] = "start_accept"
  BY Kinds
<1>7. ClearsAhead(q)
  BY <1>5, <1>6, Flags DEF ClearsAhead, Members, Clears, Services
<1>8. ExitAhead(q)
  <2>1. \A j \in 1 .. Len(q) - 1 : q[j] \notin Destroys \cup {Call("end")}
    BY <1>5, <1>6
  <2>2. Len(q) \in 1 .. Len(q)
    BY <1>5
  <2> QED
    BY <1>5, <2>1, <2>2 DEF ExitAhead, Ahead
<1>9. AcceptFirst(q, on)
  BY <1>5, <1>6 DEF AcceptFirst
<1>10. FlagsAhead(q, on) /\ JoinsAhead(q, on, joinable) /\ UnbindAhead(q, on, bound)
  BY <1>1 DEF FlagsAhead, JoinsAhead, UnbindAhead
<1> QED
  BY <1>7, <1>8, <1>9, <1>10 DEF CleanOK, Clean, q

LEMMA CleanNoBind ==
  ASSUME Types, WhoOK, At("main", Call("start")), main' = AfterNoBind, UNCHANGED flagVars
  PROVE  Clean(main', on', joinable', bound')
<1>1. on = {} /\ joinable = {} /\ bound = "none"
  <2>1. main # <<>> /\ Head(main) = Call("start")
    BY AtHead DEF main
  <2>2. Call("start") \in Members(main)
    BY <2>1, HeadIsTyped DEF main, Threads, Types
  <2> QED
    BY <2>2 DEF WhoOK, StartOK
<1> DEFINE w == main'
<1>2. \A i \in 1 .. Len(w) : w[i][1] \in {"restore", "exit"}
  <2>1. Call("restore")[1] = "restore" /\ Call("exit")[1] = "exit"
    BY Kinds
  <2>2. w = <<Call("restore"), Call("exit")>> \/ w = <<Call("exit")>>
    BY DEF AfterNoBind
  <2> QED
    BY <2>1, <2>2
<1> HIDE DEF w
<1>3. /\ \A o \in Clears : o[1] = "clear"
      /\ \A o \in Launches \cup {Call("start_accept")} : o[1] \notin {"restore", "exit"}
  BY Kinds DEF Launches
<1>4. ClearsAhead(w)
  BY <1>2, <1>3, Flags DEF ClearsAhead, Members, Clears, Services
<1>5. ExitAhead(w)
  BY <1>2, <1>3 DEF ExitAhead, Members
<1>6. AcceptFirst(w, on')
  BY <1>2, <1>3 DEF AcceptFirst
<1>7. FlagsAhead(w, on') /\ JoinsAhead(w, on', joinable') /\ UnbindAhead(w, on', bound')
  BY <1>1 DEF FlagsAhead, JoinsAhead, UnbindAhead, flagVars
<1> QED
  BY <1>4, <1>5, <1>6, <1>7 DEF Clean, w

LEMMA CleanEof ==
  ASSUME Types, WhoOK, CliEof("main"), UNCHANGED flagVars, Clean(main, on, joinable, bound)
  PROVE  Clean(main', on', joinable', bound')
<1> DEFINE q == main
           w == Tail(Tail(q))
<1>1. "main" \in Threads /\ ListTypes
  BY DEF Threads, Types
<1>2. q \in Seq(TypedOps) /\ Len(q) > 1 /\ todo' = [todo EXCEPT !["main"] = w]
  BY <1>1, EofList, MainIsRead DEF main, WhoOK
<1>3. main' = w
  BY <1>1, <1>2 DEF main, ListTypes
<1>4. Proper(q) /\ Head(q) = Call("read") /\ q # <<>>
  BY AtHead DEF WhoOK, MainOK, CliEof, main
<1>5. /\ FlagsAhead(q, on) /\ JoinsAhead(q, on, joinable) /\ UnbindAhead(q, on, bound)
      /\ ClearsAhead(q) /\ ExitAhead(q) /\ AcceptFirst(q, on)
  BY DEF Clean
<1> HIDE DEF q
<1>6. /\ Len(q) \in Nat /\ Len(w) = Len(q) - 2 /\ \A i \in 1 .. Len(q) - 2 : w[i] = q[i + 2]
  BY <1>2, TailTail, LenProperties
<1>7. 1 \in 1 .. Len(q) /\ q[1] = Call("read") /\ q[2] = Call("cli")
  <2>1. q[1] = Head(q) /\ 1 \in 1 .. Len(q)
    BY <1>2, <1>4
  <2> QED
    BY <1>4, <2>1 DEF Proper
<1>8. \A A, B : Ahead(q, A, B) /\ q[1] \notin A /\ q[2] \notin A => Ahead(w, A, B)
  BY <1>2, AheadTail
<1> HIDE DEF w
<1>9. Members(w) \subseteq Members(q)
  <2>1. \A i \in 1 .. Len(w) : i + 2 \in 1 .. Len(q) /\ w[i] = q[i + 2]
    BY <1>6
  <2> QED
    BY <2>1 DEF Members
<1>10. /\ \A h : q[1] \notin Stopping(h) /\ q[2] \notin Stopping(h)
       /\ \A h : q[1] # Join(h) /\ q[2] # Join(h)
       /\ q[1] # Call("unbind") /\ q[2] # Call("unbind") /\ q[1] # Call("exit") /\ q[2] # Call("exit")
  BY <1>7, Kinds DEF Stopping
<1>11. FlagsAhead(w, on)
  BY <1>5, <1>8, <1>10 DEF FlagsAhead
<1>12. JoinsAhead(w, on, joinable)
  BY <1>5, <1>8, <1>10 DEF JoinsAhead
<1>13. UnbindAhead(w, on, bound)
  BY <1>5, <1>8, <1>10 DEF UnbindAhead
<1>14. ClearsAhead(w)
  BY <1>5, <1>8, <1>9, <1>10 DEF ClearsAhead
<1>15. ExitAhead(w)
  BY <1>5, <1>8, <1>9, <1>10 DEF ExitAhead
<1>16. AcceptFirst(w, on)
  <2>1. q[1] \in Hindrances
    BY <1>7 DEF Hindrances
  <2>2. ASSUME NEW i \in 1 .. Len(w), w[i] = Call("start_accept") PROVE FALSE
    <3>1. i + 2 \in 1 .. Len(q) /\ q[i + 2] = Call("start_accept") /\ 1 \in 1 .. (i + 2) - 1
      BY <1>6, <2>2
    <3> QED
      BY <1>5, <2>1, <3>1 DEF AcceptFirst
  <2> QED
    BY <2>2 DEF AcceptFirst
<1> QED
  BY <1>3, <1>11, <1>12, <1>13, <1>14, <1>15, <1>16 DEF Clean, flagVars

\* Nothing happens to a process that has ended.
LEMMA Dead == ASSUME [ProcessNext]_processVars, proc # "up" PROVE UNCHANGED processVars
<1>1. ASSUME NEW t \in Threads, ThreadStep(t) PROVE FALSE
  BY <1>1 DEF ThreadStep, RegStep, Save, RegToggle, RegWrite, Restore, Restored, ServerStep, StartFails,
     Start, NoApi, StopDisable, Unbind, Launch, StopTest, StopClear, JoinEnds, JoinTwice, DestroyThread,
     MainStep, CliTest, ServiceWait, Exit, End, Proceed, At, Writing
<1>2. /\ ~CliCommand("main") /\ ~CliEof("main") /\ ~ServiceStop /\ ~Crash
      /\ \A c \in ConfigFile : ~CliReload("main", c)
      /\ \A t \in ApiThreads : ~ApiRequest(t)
      /\ \A k \in {"ctrl", "close"} : ~ConsoleEvent(k)
  BY DEF CliCommand, CliEof, ServiceStop, Crash, CliReload, ApiRequest, ConsoleEvent, At
<1> QED
  BY <1>1, <1>2 DEF ProcessNext

LEMMA UpBefore == ASSUME [ProcessNext]_processVars, proc' = "up" PROVE proc = "up"
<1> SUFFICES ASSUME proc # "up" PROVE FALSE
  OBVIOUS
<1>1. UNCHANGED processVars
  BY Dead
<1> QED
  BY <1>1 DEF processVars

LEMMA CleanStep ==
  ASSUME Types, WhoOK, CleanOK, [ProcessNext]_processVars
  PROVE  CleanOK'
<1> SUFFICES ASSUME proc' = "up", NoEvent' PROVE Clean(main', on', joinable', bound')
  BY DEF CleanOK, Clean, FlagsAhead, JoinsAhead, UnbindAhead, ClearsAhead, ExitAhead, AcceptFirst,
     Ahead, Stopping, Last, Members, Hindrances, Launches, Stops, Clears, Destroys, FlagOf
<1>1. NoEvent
  BY SeenGrows DEF NoEvent
<1>2. proc = "up"
  BY UpBefore
<1>3. Clean(main, on, joinable, bound)
  BY <1>1, <1>2 DEF CleanOK
<1>4. CASE main' = main /\ UNCHANGED flagVars
  BY <1>3, <1>4 DEF flagVars
<1> QED
  BY <1>3, <1>4, MainEffects, CleanMoves, CleanNoBind, CleanEof

\* What main is about to do is not the end, and no thread is destroyed, while
\* something is still on.
LEMMA NothingLeft ==
  ASSUME Types, Clean(main, on, joinable, bound), At("main", Call("end"))
  PROVE  on = {} /\ joinable = {} /\ bound = "none"
<1> DEFINE q == main
<1>1. q \in Seq(TypedOps) /\ q # <<>> /\ Head(q) = Call("end")
  BY AtHead, HeadIsTyped DEF main, Threads, Types
<1>2. /\ FlagsAhead(q, on) /\ JoinsAhead(q, on, joinable) /\ UnbindAhead(q, on, bound)
  BY DEF Clean
<1>3. on \subseteq Services /\ joinable \subseteq Helpers
  BY DEF Types, ValueTypes
<1> HIDE DEF q
<1>4. \A A, B : Ahead(q, A, B) /\ Call("end") \notin A => Call("end") \notin B
  BY <1>1, EmptySeq, AheadReplaced
<1>5. /\ \A h : Call("end") \notin Stopping(h) /\ Call("end") # Join(h) /\ Call("end") \in Last(h)
      /\ Call("end") # Call("unbind")
  BY Kinds DEF Stopping, Last
<1>6. \A h \in Helpers : FlagOf[h] \notin on
  BY <1>2, <1>4, <1>5 DEF FlagsAhead
<1>7. on = {}
  BY <1>3, <1>6, Flags
<1>8. joinable = {}
  BY <1>2, <1>3, <1>4, <1>5, <1>6 DEF JoinsAhead
<1>9. bound = "none"
  BY <1>2, <1>4, <1>5, <1>7 DEF UnbindAhead
<1> QED
  BY <1>7, <1>8, <1>9

LEMMA NotDestroyed ==
  ASSUME Types, Clean(main, on, joinable, bound), NEW h \in Helpers, At("main", Destroy(h))
  PROVE  h \notin joinable
<1> DEFINE q == main
<1>1. q \in Seq(TypedOps) /\ q # <<>> /\ Head(q) = Destroy(h)
  BY AtHead, HeadIsTyped DEF main, Threads, Types
<1>2. FlagsAhead(q, on) /\ JoinsAhead(q, on, joinable)
  BY DEF Clean
<1> HIDE DEF q
<1>3. \A A, B : Ahead(q, A, B) /\ Destroy(h) \notin A => Destroy(h) \notin B
  BY <1>1, EmptySeq, AheadReplaced
<1>4. Destroy(h) \notin Stopping(h) /\ Destroy(h) # Join(h) /\ Destroy(h) \in Last(h)
  BY Kinds DEF Stopping, Last
<1>5. FlagOf[h] \notin on
  BY <1>2, <1>3, <1>4 DEF FlagsAhead
<1> QED
  BY <1>2, <1>3, <1>4, <1>5 DEF JoinsAhead

LEMMA WhoEnds ==
  ASSUME Types, [ProcessNext]_processVars, proc = "up", proc' \in {"gone", "aborted"}
  PROVE  \E t \in Threads : \/ End(t)
                            \/ \E h \in Helpers : JoinTwice(t, h)
                            \/ \E h \in Helpers : DestroyThread(t, h) /\ h \in joinable
<1>1. proc' # proc /\ proc' # "crashed"
  OBVIOUS
<1>2. ~UNCHANGED processVars
  BY <1>1 DEF processVars
<1>3. /\ ~CliCommand("main") /\ ~CliEof("main") /\ ~ServiceStop /\ ~Crash
      /\ \A c \in ConfigFile : ~CliReload("main", c)
      /\ \A t \in ApiThreads : ~ApiRequest(t)
      /\ \A k \in {"ctrl", "close"} : ~ConsoleEvent(k)
  BY <1>1 DEF CliCommand, CliEof, ServiceStop, Crash, CliReload, ApiRequest, ConsoleEvent
<1>4. PICK t \in Threads : ThreadStep(t)
  BY <1>2, <1>3 DEF ProcessNext
<1>5. ~RegStep(t)
  BY <1>1, RegMoves DEF Moves
<1>6. CASE MainStep(t)
  BY <1>1, <1>6 DEF MainStep, CliTest, ServiceWait, Exit, Proceed
<1>7. CASE ServerStep(t)
  <2>1. /\ ~StartFails(t) /\ ~Start(t) /\ ~NoApi(t) /\ ~StopDisable(t) /\ ~Unbind(t)
        /\ \A f, flag, h : ~Launch(t, f, flag, h)
        /\ \A x \in Services : ~StopTest(t, x) /\ ~StopClear(t, x)
        /\ \A h \in Helpers : ~JoinEnds(t, h)
    BY <1>1 DEF StartFails, Start, NoApi, StopDisable, Unbind, Launch, StopTest, StopClear, JoinEnds, Proceed
  <2>2. \A h \in Helpers : DestroyThread(t, h) => h \in joinable
    BY <1>1 DEF DestroyThread
  <2> QED
    BY <1>7, <2>1, <2>2 DEF ServerStep
<1> QED
  BY <1>4, <1>5, <1>6, <1>7 DEF ThreadStep

LEMMA EndsStep ==
  ASSUME Types, WhoOK, CleanOK, EndsCleanly, [ProcessNext]_processVars
  PROVE  EndsCleanly'
<1> SUFFICES ASSUME proc' \in {"gone", "aborted"}, seen' \cap {"ctrl", "close"} = {}
    PROVE  proc' = "gone" /\ on' = {} /\ joinable' = {} /\ bound' = "none"
  BY DEF EndsCleanly
<1>1. NoEvent
  BY SeenGrows DEF NoEvent
<1>2. CASE proc # "up"
  <2>1. UNCHANGED processVars
    BY <1>2, Dead
  <2> QED
    BY <2>1 DEF EndsCleanly, processVars, flagVars, histVars
<1>3. CASE proc = "up"
  <2>1. Clean(main, on, joinable, bound)
    BY <1>1, <1>3 DEF CleanOK
  <2>2. PICK t \in Threads : \/ End(t)
                             \/ \E h \in Helpers : JoinTwice(t, h)
                             \/ \E h \in Helpers : DestroyThread(t, h) /\ h \in joinable
    BY <1>3, WhoEnds
  <2>3. \A o : \A u \in Threads \ {"main"} : At(u, o) => o[1] \in {"toggle", "init"}
    <3> SUFFICES ASSUME NEW u \in Threads \ {"main"}, NEW o, At(u, o) PROVE o[1] \in {"toggle", "init"}
      OBVIOUS
    <3>1. todo[u] # <<>> /\ Head(todo[u]) = o
      BY AtHead
    <3>2. o \in ApiOps
      BY <1>1, <3>1, NotMainOnly
    <3> QED
      BY <3>2, Kinds DEF ApiOps
  <2>4. CASE End(t)
    <3>1. At(t, Call("end")) /\ proc' = "gone" /\ UNCHANGED flagVars
      BY <2>4 DEF End
    <3>2. t = "main"
      BY <2>3, <3>1, Kinds
    <3> QED
      BY <2>1, <3>1, <3>2, NothingLeft DEF flagVars
  <2>5. ASSUME NEW h \in Helpers, JoinTwice(t, h) PROVE FALSE
    <3>1. \E u \in Threads \ {t} : At(u, Join(h)) /\ At(t, Join(h))
      BY <2>5 DEF JoinTwice
    <3> QED
      BY <2>3, <3>1, Kinds
  <2>6. ASSUME NEW h \in Helpers, DestroyThread(t, h), h \in joinable PROVE FALSE
    <3>1. At(t, Destroy(h))
      BY <2>6 DEF DestroyThread
    <3>2. t = "main"
      BY <2>3, <3>1, Kinds
    <3> QED
      BY <2>1, <2>6, <3>1, <3>2, NotDestroyed
  <2> QED
    BY <2>2, <2>4, <2>5, <2>6
<1> QED
  BY <1>2, <1>3

-----------------------------------------------------------------------------
(* A process that no console event has reached ends with its listeners      *)
(* closed and its threads joined, and never aborts (EndsCleanly): whichever *)
(* way it ends, each flag that is set comes to a stop() before the static   *)
(* objects are destroyed, and stop() joins before it returns.               *)
THEOREM EndsCleanlyCorrect == ProcessSpec => []EndsCleanly
<1> DEFINE Inv == CleanOK /\ EndsCleanly
<1>1. ProcessInit => Inv
  <2>1. ProcessInit => EndsCleanly
    BY DEF ProcessInit, EndsCleanly
  <2> QED
    BY <2>1, CleanStarts
<1>2. Invariant /\ Inv /\ [ProcessNext]_processVars => Inv'
  BY CleanStep, EndsStep DEF Invariant
<1> QED
  BY <1>1, <1>2, InvariantCorrect, PTL DEF ProcessSpec

-----------------------------------------------------------------------------
(* The settings come back.                                                 *)

\* Steps that leave the settings, what is saved and what is restored alone.
Others == Stops \cup Clears \cup Joins \cup Destroys
          \cup {Call(f) : f \in {"start", "api_start", "cli", "read", "exit", "end", "wait",
                                 "start_checker", "start_accept", "stop_disable", "unbind"}}

LEMMA OthersDiffer ==
  ASSUME NEW o \in Others
  PROVE  /\ o \notin Writes /\ o \notin Toggles
         /\ o # Call("init") /\ o # Call("restore") /\ o # Call("restored")
<1>1. o[1] \notin {"toggle", "write", "init", "restore", "restored"}
  BY Kinds DEF Others
<1> QED
  BY <1>1, Kinds

\* t does one of these, and nobody else's list changes.
Aside(t) ==
    /\ todo[t] # <<>> /\ Head(todo[t]) \in Others
    /\ \A u \in Threads \ {t} : todo'[u] = todo[u]

LEMMA ThenAlone ==
  ASSUME ListTypes, NEW t \in Threads, NEW op \in Others, At(t, op), NEW q, todo' = [todo EXCEPT ![t] = q]
  PROVE  Aside(t)
BY DEF ListTypes, Aside, At

LEMMA OtherThreadSteps ==
  ASSUME Types, NEW t \in Threads, ServerStep(t) \/ MainStep(t), proc' = "up"
  PROVE  Aside(t) /\ UNCHANGED <<reg, saved, restored, seen, found>>
<1>1. ListTypes
  BY DEF Types
<1>2. UNCHANGED <<reg, saved, restored, seen, found>>
  BY DEF ServerStep, StartFails, Start, NoApi, StopDisable, Unbind, Launch, StopTest, StopClear, JoinEnds,
     JoinTwice, DestroyThread, MainStep, CliTest, ServiceWait, Exit, End, Proceed, regVars, histVars, lifeVars
<1>3. \E op \in Others : \E q : At(t, op) /\ todo' = [todo EXCEPT ![t] = q]
  <2>1. /\ \A f \in {"start", "api_start", "cli", "read", "exit", "end", "wait",
                      "start_checker", "start_accept", "stop_disable", "unbind"} : Call(f) \in Others
        /\ \A x \in Services : Stop(x) \in Others /\ Clear(x) \in Others
        /\ \A h \in Helpers : Join(h) \in Others /\ Destroy(h) \in Others
    BY DEF Others, Stops, Clears, Joins, Destroys
  <2>2. CASE MainStep(t)
    <3>1. CliTest(t) \/ ServiceWait(t) \/ Exit(t)
      BY <2>2 DEF MainStep, End
    <3>2. \E f \in {"cli", "wait", "exit"} : \E q : At(t, Call(f)) /\ todo' = [todo EXCEPT ![t] = q]
      BY <3>1 DEF CliTest, ServiceWait, Exit, Proceed, Then
    <3> QED
      BY <2>1, <3>2
  <2>3. CASE ServerStep(t)
    <3>1. CASE \/ StartFails(t) \/ Start(t) \/ NoApi(t) \/ StopDisable(t) \/ Unbind(t)
               \/ Launch(t, "start_checker", {"checker"}, "checker")
               \/ Launch(t, "start_accept", {}, "accept")
               \/ Launch(t, "api_start", {"api"}, "listen")
      <4>1. \E f \in {"start", "api_start", "stop_disable", "unbind", "start_checker", "start_accept"} : \E q :
                At(t, Call(f)) /\ todo' = [todo EXCEPT ![t] = q]
        BY <3>1 DEF StartFails, Start, NoApi, StopDisable, Unbind, Launch, Proceed, Then
      <4> QED
        BY <2>1, <4>1
    <3>2. CASE \E x \in Services : StopTest(t, x) \/ StopClear(t, x)
      <4>1. \E x \in Services : \E q : (At(t, Stop(x)) \/ At(t, Clear(x))) /\ todo' = [todo EXCEPT ![t] = q]
        BY <3>2 DEF StopTest, StopClear, Proceed, Then
      <4> QED
        BY <2>1, <4>1
    <3>3. CASE \E h \in Helpers : JoinEnds(t, h) \/ JoinTwice(t, h) \/ DestroyThread(t, h)
      <4>1. \E h \in Helpers : \E q : (At(t, Join(h)) \/ At(t, Destroy(h))) /\ todo' = [todo EXCEPT ![t] = q]
        BY <3>3 DEF JoinEnds, JoinTwice, DestroyThread, Abort, Then
      <4> QED
        BY <2>1, <4>1
    <3> QED
      BY <2>3, <3>1, <3>2, <3>3 DEF ServerStep
  <2> QED
    BY <2>2, <2>3
<1> QED
  BY <1>1, <1>2, <1>3, ThenAlone

\* What a step does to the settings and to their history.
LEMMA WhoRestores ==
  ASSUME Types, [ProcessNext]_processVars, proc' = "up"
  PROVE  /\ found' = found
         /\ \/ \E t \in Threads : RegStep(t)
            \/ /\ UNCHANGED <<reg, saved, restored>>
               /\ \/ UNCHANGED todo
                  \/ \E t \in Threads : Aside(t)
                  \/ \E t \in ApiThreads : ApiRequest(t)
                  \/ \E k \in {"ctrl", "close"} : ConsoleEvent(k)
<1>1. "main" \in Threads /\ ListTypes
  BY DEF Threads, Types
<1>2. Call("read") \in Others
  BY DEF Others
<1>3. CASE UNCHANGED processVars
  BY <1>3 DEF processVars, lifeVars, regVars, histVars
<1>4. ASSUME NEW t \in Threads, ThreadStep(t)
      PROVE  /\ found' = found
             /\ RegStep(t) \/ (UNCHANGED <<reg, saved, restored>> /\ Aside(t))
  <2>1. CASE RegStep(t)
    BY <2>1 DEF RegStep, Save, RegToggle, RegWrite, Restore, Restored, lifeVars
  <2>2. CASE ServerStep(t) \/ MainStep(t)
    BY <2>2, OtherThreadSteps
  <2> QED
    BY <1>4, <2>1, <2>2 DEF ThreadStep
<1>5. CASE CliCommand("main") \/ CliEof("main") \/ \E c \in ConfigFile : CliReload("main", c)
  <2>1. UNCHANGED <<found, reg, saved, restored>>
    BY <1>5 DEF CliCommand, CliEof, CliReload, lifeVars, regVars, histVars
  <2>2. At("main", Call("read")) /\ \E q : todo' = [todo EXCEPT !["main"] = q]
    BY <1>5 DEF CliCommand, CliEof, CliReload, Then
  <2>3. Aside("main")
    BY <1>1, <1>2, <2>2, ThenAlone
  <2> QED
    BY <1>1, <2>1, <2>3
<1>6. CASE \E t \in ApiThreads : ApiRequest(t)
  BY <1>6 DEF ApiRequest, lifeVars, regVars, histVars
<1>7. CASE \E k \in {"ctrl", "close"} : ConsoleEvent(k)
  BY <1>7 DEF ConsoleEvent, lifeVars, regVars
<1>8. CASE ServiceStop
  BY <1>8 DEF ServiceStop, lifeVars, regVars, histVars
<1>9. ~Crash
  BY DEF Crash
<1> QED
  BY <1>3, <1>4, <1>5, <1>6, <1>7, <1>8, <1>9 DEF ProcessNext

\* Where an operation on a list came from.
LEMMA NewOps ==
  ASSUME Types, NEW op, NEW ops, Expands(op, ops), NEW o \in Members(ops)
  PROVE  /\ o \in Writes => \/ /\ op = Call("restore") /\ saved.have
                               /\ o \in {Write("enable", saved.enable), Write("server", saved.server),
                                         Write("override", saved.override)}
                            \/ op = Call("stop_disable") /\ o = Write("enable", "off")
         /\ o = Call("restored") => op = Call("restore") /\ saved.have
         /\ o # Call("start") /\ o # Call("restore")
         /\ o = Call("cli") => op = Call("cli") /\ "server" \in on
         /\ o = Call("stop_disable") => "server" \in on
<1> DEFINE Result == /\ o \in Writes => \/ /\ op = Call("restore") /\ saved.have
                                           /\ o \in {Write("enable", saved.enable), Write("server", saved.server),
                                                     Write("override", saved.override)}
                                        \/ op = Call("stop_disable") /\ o = Write("enable", "off")
                     /\ o = Call("restored") => op = Call("restore") /\ saved.have
                     /\ o # Call("start") /\ o # Call("restore")
                     /\ o = Call("cli") => op = Call("cli") /\ "server" \in on
                     /\ o = Call("stop_disable") => "server" \in on
<1>1. saved \in Saved /\ conf.port \in Ports /\ conf.sysproxy \in BOOLEAN
  BY DEF Types, ValueTypes, ConfigFile
<1>2. ASSUME o[1] \notin {"write", "restored", "start", "restore", "cli", "stop_disable"} PROVE Result
  BY <1>2, Kinds
<1>3. \A p \in ApiOps : p[1] \in {"toggle", "init"}
  BY Kinds DEF ApiOps
<1>4. CASE ops = <<>>
  BY <1>1, <1>4, BodyMembers
<1>5. CASE ops = ExitBody
  <2>1. o[1] \in {"stop", "destroy", "end"}
    BY <1>1, <1>5, BodyMembers, Kinds
  <2> QED
    BY <1>2, <2>1
<1>6. CASE op = Call("restore") /\ ops = IF saved.have THEN RestoreBody ELSE <<>>
  <2>1. CASE ~saved.have
    BY <1>4, <1>6, <2>1
  <2>2. CASE saved.have
    <3>1. o \in {Write("enable", saved.enable), Write("server", saved.server),
                 Write("override", saved.override), Call("restored")}
      BY <1>1, <1>6, <2>2, BodyMembers
    <3>2. o[1] \in {"write", "restored"}
      BY <3>1, Kinds
    <3>3. o \in Writes => o # Call("restored")
      BY Kinds
    <3>4. o \notin {Call("start"), Call("restore"), Call("cli"), Call("stop_disable")}
      BY <3>2, Kinds
    <3> QED
      BY <1>6, <2>2, <3>1, <3>3, <3>4
  <2> QED
    BY <2>1, <2>2
<1>7. CASE ops = (IF conf.sysproxy THEN Enable(conf.port) ELSE <<>>)
                 \o <<Call("start_checker"), Call("start_accept")>>
  <2>1. Members(ops) \subseteq ApiOps \cup {Call("start_checker"), Call("start_accept")}
    BY <1>1, <1>7, StartMembers
  <2>2. o[1] \in {"toggle", "init", "start_checker", "start_accept"}
    BY <1>3, <2>1, Kinds
  <2> QED
    BY <1>2, <2>2
<1>8. CASE \/ ops = Enable(conf.port) \/ ops = Disable \/ ops = <<Stop("server")>>
  <2>1. Members(Disable) \subseteq ApiOps
    BY <1>1, BodyMembers DEF ApiOps, Toggles
  <2>2. o[1] \in {"toggle", "init", "stop"}
    BY <1>1, <1>3, <1>8, <2>1, EnableMembers, BodyMembers, Kinds
  <2> QED
    BY <1>2, <2>2
<1>9. CASE op = Call("cli") /\ ops = <<Call("read"), Call("cli")>> /\ "server" \in on
  <2>1. o[1] \in {"read", "cli"}
    BY <1>1, <1>9, BodyMembers, Kinds
  <2> QED
    BY <1>9, <2>1, Kinds
<1>10. CASE op = Call("stop_disable") /\ ops = <<Write("enable", "off")>>
  <2>1. o = Write("enable", "off")
    BY <1>1, <1>10, BodyMembers
  <2> QED
    BY <1>10, <2>1, Kinds
<1>11. ASSUME NEW x \in Services, x \in on, ops = StopBody(x) PROVE Result
  <2>1. CASE x = "server"
    <3>1. o[1] \in {"clear", "stop", "stop_disable", "unbind", "join"}
      BY <1>1, <1>11, <2>1, BodyMembers, Kinds
    <3> QED
      BY <1>11, <2>1, <3>1, Kinds
  <2>2. CASE x = "api"
    <3>1. o[1] \in {"clear", "join"}
      BY <1>1, <1>11, <2>2, BodyMembers, Kinds
    <3> QED
      BY <1>2, <3>1
  <2>3. CASE x = "checker"
    <3>1. o[1] \in {"clear", "join"}
      BY <1>1, <1>11, <2>3, BodyMembers, Kinds
    <3> QED
      BY <1>2, <3>1
  <2> QED
    BY <2>1, <2>2, <2>3 DEF Services
<1>12. Result
  BY <1>4, <1>5, <1>6, <1>7, <1>8, <1>9, <1>10, <1>11 DEF Expands
<1> QED
  BY <1>12

\* What becomes of one thread's list.
LEMMA ListSteps ==
  ASSUME Types, WhoOK, [ProcessNext]_processVars, proc' = "up", NEW t \in Threads
  PROVE  \/ todo'[t] = todo[t]
         \/ Moves(t)
         \/ t = "main" /\ At("main", Call("start")) /\ todo'[t] = AfterNoBind
         \/ t = "main" /\ CliEof("main")
         \/ /\ t \in ApiThreads /\ todo[t] = <<>> /\ Members(todo'[t]) \subseteq ApiOps
            /\ todo'[t] \in {Enable(conf.port), Disable}
         \/ /\ t = "ctrl" /\ todo[t] = <<>> /\ saved.have
            /\ \E k \in {"ctrl", "close"} : todo'[t] = EventBody(k) /\ seen' = seen \cup {k}
<1>1. /\ ListTypes /\ "main" \notin ApiThreads /\ "ctrl" \notin ApiThreads /\ ApiOK
      /\ "main" \in Threads /\ "ctrl" \in Threads /\ Threads = {"main", "ctrl"} \cup ApiThreads
  BY ProcessAssumption DEF Types, Threads, WhoOK
<1>2. Listing
  BY WhoMoves
<1>3. CASE t = "main"
  <2>1. \/ main' = main \/ Moves("main") \/ (At("main", Call("start")) /\ main' = AfterNoBind)
        \/ CliEof("main")
    BY <1>2, MainStays
  <2> QED
    BY <1>3, <2>1 DEF main
<1>4. CASE t # "main"
  <2>1. CASE UNCHANGED <<todo, proc>>
    BY <2>1
  <2>2. ASSUME NEW u \in Threads, Moves(u) PROVE todo'[t] = todo[t] \/ Moves(t)
    BY <2>2, MovesList
  <2>3. ASSUME NEW u \in Threads, At(u, Call("start")), todo' = [todo EXCEPT ![u] = AfterNoBind]
        PROVE  todo'[t] = todo[t]
    <3>1. u = "main"
      <4>1. todo[u] # <<>> /\ Head(todo[u]) = Call("start")
        BY <2>3, AtHead
      <4>2. Call("start") \in MainOnly
        BY DEF MainOnly
      <4> QED
        BY <4>1, <4>2, NotMainOnly
    <3> QED
      BY <1>4, <2>3, <3>1
  <2>4. CASE CliEof("main")
    BY <1>4, <2>4 DEF CliEof
  <2>5. ASSUME NEW u \in ApiThreads, ApiRequest(u)
        PROVE  \/ todo'[t] = todo[t]
               \/ /\ t \in ApiThreads /\ todo[t] = <<>> /\ Members(todo'[t]) \subseteq ApiOps
                  /\ todo'[t] \in {Enable(conf.port), Disable}
    <3>1. \E f : todo' = [todo EXCEPT ![u] = f]
      BY <2>5 DEF ApiRequest
    <3>2. CASE t # u
      BY <3>1, <3>2
    <3>3. CASE t = u
      <4>1. ApiOK'
        BY <1>1, <1>2, ApiStep
      <4>2. todo[u] = <<>> /\ todo'[u] \in {Enable(conf.port), Disable}
        BY <1>1, <2>5 DEF ApiRequest, ListTypes
      <4> QED
        BY <2>5, <3>3, <4>1, <4>2 DEF ApiOK
    <3> QED
      BY <3>2, <3>3
  <2>6. ASSUME NEW k \in {"ctrl", "close"}, ConsoleEvent(k)
        PROVE  \/ todo'[t] = todo[t]
               \/ /\ t = "ctrl" /\ todo[t] = <<>> /\ saved.have
                  /\ \E j \in {"ctrl", "close"} : todo'[t] = EventBody(j) /\ seen' = seen \cup {j}
    <3>1. todo["ctrl"] = <<>> /\ saved.have /\ todo' = [todo EXCEPT !["ctrl"] = EventBody(k)] /\ seen' = seen \cup {k}
      BY <2>6 DEF ConsoleEvent, EventBody
    <3>2. todo'["ctrl"] = EventBody(k)
      BY <1>1, <3>1 DEF ListTypes
    <3> QED
      BY <3>1, <3>2
  <2> QED
    BY <1>2, <2>1, <2>2, <2>3, <2>4, <2>5, <2>6 DEF Listing
<1> QED
  BY <1>3, <1>4

LEMMA Newcomers ==
  ASSUME Types, WhoOK, [ProcessNext]_processVars, proc' = "up",
         NEW t \in Threads, NEW o \in Members(todo'[t])
  PROVE  \/ o \in Members(todo[t])
         \/ /\ o \in Writes => \/ /\ At(t, Call("restore")) /\ saved.have
                                  /\ o \in {Write("enable", saved.enable), Write("server", saved.server),
                                            Write("override", saved.override)}
                               \/ At(t, Call("stop_disable")) /\ o = Write("enable", "off")
            /\ o = Call("restored") => At(t, Call("restore")) /\ saved.have
            /\ o # Call("start") /\ o # Call("cli")
            /\ o = Call("stop_disable") => "server" \in on
<1> DEFINE New == /\ o \in Writes => \/ /\ At(t, Call("restore")) /\ saved.have
                                        /\ o \in {Write("enable", saved.enable), Write("server", saved.server),
                                                  Write("override", saved.override)}
                                     \/ At(t, Call("stop_disable")) /\ o = Write("enable", "off")
                  /\ o = Call("restored") => At(t, Call("restore")) /\ saved.have
                  /\ o # Call("start") /\ o # Call("cli")
                  /\ o = Call("stop_disable") => "server" \in on
<1>1. ASSUME o[1] \notin {"write", "restored", "start", "cli", "stop_disable"} PROVE New
  BY <1>1, Kinds
<1>2. CASE todo'[t] = todo[t]
  BY <1>2
<1>3. CASE Moves(t)
  <2>1. PICK ops \in Seq(TypedOps) : /\ Expands(Head(todo[t]), ops)
                                     /\ Members(todo'[t]) = Members(ops) \cup Members(Tail(todo[t]))
    BY <1>3, MovesList
  <2>2. Members(todo[t]) = {Head(todo[t])} \cup Members(Tail(todo[t]))
    BY <1>3, MovesList
  <2>3. \A op : Head(todo[t]) = op => At(t, op)
    BY <1>3 DEF Moves, At
  <2>4. CASE o \in Members(ops)
    BY <2>1, <2>2, <2>3, <2>4, NewOps
  <2> QED
    BY <2>1, <2>2, <2>4
<1>4. CASE t = "main" /\ At("main", Call("start")) /\ todo'[t] = AfterNoBind
  <2>1. AfterNoBind = <<Call("restore"), Call("exit")>> \/ AfterNoBind = <<Call("exit")>>
    BY DEF AfterNoBind
  <2> DEFINE a == Call("restore")
             b == Call("exit")
  <2>2. a[1] = "restore" /\ b[1] = "exit"
    BY Kinds
  <2> HIDE DEF a, b
  <2>3. Members(<<a, b>>) = {a, b} /\ Members(<<b>>) = {b}
    BY DEF Members
  <2>4. o \in {a, b}
    BY <1>4, <2>1, <2>3 DEF a, b
  <2> QED
    BY <1>1, <2>2, <2>4
<1>5. CASE t = "main" /\ CliEof("main")
  <2>1. ListTypes /\ ReadOK
    BY MainIsRead DEF Types, WhoOK
  <2>2. /\ Len(todo["main"]) > 1 /\ todo["main"] \in Seq(TypedOps)
        /\ todo' = [todo EXCEPT !["main"] = Tail(Tail(todo["main"]))]
    BY <1>5, <2>1, EofList
  <2>3. todo'[t] = Tail(Tail(todo[t]))
    BY <1>5, <2>1, <2>2 DEF ListTypes
  <2> DEFINE q == todo[t]
             r == Tail(Tail(q))
  <2>4. /\ r \in Seq(TypedOps) /\ Len(r) = Len(q) - 2 /\ \A i \in 1 .. Len(q) - 2 : r[i] = q[i + 2]
        /\ Len(q) \in Nat
    BY <1>5, <2>2, TailTail, LenProperties
  <2> HIDE DEF q, r
  <2>5. \A i \in 1 .. Len(r) : i + 2 \in 1 .. Len(q) /\ r[i] = q[i + 2]
    BY <2>4
  <2>6. Members(r) \subseteq Members(q)
    BY <2>5 DEF Members
  <2> QED
    BY <2>3, <2>6 DEF q, r
<1>6. CASE t \in ApiThreads /\ Members(todo'[t]) \subseteq ApiOps
  <2>1. o[1] \in {"toggle", "init"}
    BY <1>6, Kinds DEF ApiOps
  <2> QED
    BY <1>1, <2>1
<1>7. ASSUME NEW k, todo'[t] = EventBody(k) PROVE New
  <2> DEFINE a == Call("restore")
             b == Stop("api")
             c == Stop("server")
             d == Call("end")
  <2>1. a[1] = "restore" /\ b[1] = "stop" /\ c[1] = "stop" /\ d[1] = "end"
    BY Kinds
  <2>2. EventBody(k) = <<a, b, c>> \/ EventBody(k) = <<a, b, c, d>>
    BY EventForms
  <2> HIDE DEF a, b, c, d
  <2>3. Members(<<a, b, c>>) \subseteq {a, b, c, d} /\ Members(<<a, b, c, d>>) \subseteq {a, b, c, d}
    BY DEF Members
  <2>4. o \in {a, b, c, d}
    BY <1>7, <2>2, <2>3
  <2> QED
    BY <1>1, <2>1, <2>4
<1> QED
  BY <1>2, <1>3, <1>4, <1>5, <1>6, <1>7, ListSteps

-----------------------------------------------------------------------------
\* Before init() nothing has happened; it saves what the process found.
FreshOK ==
    kind = "console" /\ proc = "up" /\ ~saved.have =>
        /\ main = ConsoleMain /\ reg = found
        /\ \A t \in Threads \ {"main"} : todo[t] = <<>>
        /\ \A t \in Threads : restored[t] = "no"
SavedOK ==
    kind = "console" /\ saved.have =>
        /\ saved.enable = found.enable /\ saved.server = ReadText(found.server)
        /\ saved.override = ReadText(found.override)

LEMMA SavedOnce ==
  ASSUME [ProcessNext]_processVars
  PROVE  /\ found' = found
         /\ saved' = saved \/ \E t \in Threads : Save(t)
<1>1. ASSUME NEW t \in Threads, RegStep(t) PROVE found' = found /\ (saved' = saved \/ Save(t))
  BY <1>1 DEF RegStep, Save, RegToggle, RegWrite, Restore, Restored, lifeVars, regVars
<1>2. ASSUME NEW t \in Threads, ServerStep(t) \/ MainStep(t) PROVE found' = found /\ saved' = saved
  BY <1>2 DEF ServerStep, StartFails, Start, NoApi, StopDisable, Unbind, Launch, StopTest, StopClear, JoinEnds,
     JoinTwice, DestroyThread, MainStep, CliTest, ServiceWait, Exit, End, Proceed, regVars, lifeVars
<1>3. CASE CliCommand("main") \/ CliEof("main") \/ (\E c \in ConfigFile : CliReload("main", c))
           \/ (\E t \in ApiThreads : ApiRequest(t)) \/ (\E k \in {"ctrl", "close"} : ConsoleEvent(k))
           \/ ServiceStop \/ Crash
  BY <1>3 DEF CliCommand, CliEof, CliReload, ApiRequest, ConsoleEvent, ServiceStop, Crash, regVars, lifeVars
<1>4. CASE UNCHANGED processVars
  BY <1>4 DEF processVars, regVars, lifeVars
<1> QED
  BY <1>1, <1>2, <1>3, <1>4 DEF ProcessNext, ThreadStep

LEMMA ConsoleBegins ==
  /\ ConsoleMain # <<>> /\ Head(ConsoleMain) = Call("init") /\ Call("start") \in Members(ConsoleMain)
  /\ Members(ConsoleMain) \cap Writes = {} /\ Call("restored") \notin Members(ConsoleMain)
<1> DEFINE a == Call("init")
           b == Call("start")
           c == Call("api_start")
           d == Call("cli")
           e == Stop("api")
           f == Call("restore")
           g == Call("exit")
<1>1. ConsoleMain = <<a, b, c, d, e, f, g>>
  BY DEF ConsoleMain
<1>2. \A o \in {a, b, c, d, e, f, g} : o[1] \notin {"write", "restored"}
  BY Kinds
<1> HIDE DEF a, b, c, d, e, f, g
<1>3. Members(<<a, b, c, d, e, f, g>>) = {a, b, c, d, e, f, g} /\ Head(<<a, b, c, d, e, f, g>>) = a
      /\ <<a, b, c, d, e, f, g>> # <<>>
  BY DEF Members
<1>4. Members(ConsoleMain) = {a, b, c, d, e, f, g} /\ Head(ConsoleMain) = a /\ ConsoleMain # <<>>
  BY <1>1, <1>3
<1>5. Members(ConsoleMain) \cap Writes = {} /\ Call("restored") \notin Members(ConsoleMain)
  BY <1>2, <1>4, Kinds
<1> QED
  BY <1>4, <1>5 DEF a, b

LEMMA FreshStep ==
  ASSUME Types, WhoOK, FreshOK, SavedOK, [ProcessNext]_processVars
  PROVE  FreshOK' /\ SavedOK'
<1>1. /\ kind' = kind /\ found' = found /\ saved \in Saved /\ ListTypes
      /\ "main" \in Threads /\ ApiThreads \subseteq Threads
      /\ "main" \notin ApiThreads
  BY WhoMoves, SavedOnce, ProcessAssumption DEF Types, ValueTypes, Threads
<1>2. SavedOK'
  <2>1. CASE saved' = saved
    BY <1>1, <2>1 DEF SavedOK
  <2>2. ASSUME NEW t \in Threads, Save(t), saved' # saved PROVE SavedOK'
    <3>1. ~saved.have /\ proc = "up"
      BY <2>2 DEF Save, At
    <3>2. saved' = [have |-> TRUE, enable |-> reg.enable, server |-> ReadText(reg.server),
                    override |-> ReadText(reg.override)]
      BY <2>2, <3>1 DEF Save
    <3>3. /\ saved'.enable = reg.enable /\ saved'.server = ReadText(reg.server)
          /\ saved'.override = ReadText(reg.override)
      BY <3>2
    <3>4. kind = "console" => reg = found
      BY <3>1 DEF FreshOK
    <3> QED
      BY <1>1, <3>3, <3>4 DEF SavedOK, ReadText
  <2> QED
    BY <2>1, <2>2, SavedOnce
<1>3. FreshOK'
  <2> SUFFICES ASSUME kind = "console", proc' = "up", ~saved'.have PROVE FreshOK'
    BY <1>1 DEF FreshOK
  <2>1. \A t \in Threads : ~Save(t)
    <3> SUFFICES ASSUME NEW t \in Threads, Save(t) PROVE FALSE
      OBVIOUS
    <3>1. saved' = IF saved.have THEN saved
                   ELSE [have |-> TRUE, enable |-> reg.enable, server |-> ReadText(reg.server),
                         override |-> ReadText(reg.override)]
      BY DEF Save
    <3> QED
      BY <3>1
  <2>2. saved' = saved /\ ~saved.have /\ proc = "up"
    BY <2>1, SavedOnce, UpBefore
  <2>3. /\ main = ConsoleMain /\ reg = found /\ \A t \in Threads \ {"main"} : todo[t] = <<>>
        /\ \A t \in Threads : restored[t] = "no"
    BY <2>2 DEF FreshOK
  <2>4. \A t \in Threads : todo[t] # <<>> => t = "main" /\ Head(todo[t]) = Call("init")
    BY <2>3, ConsoleBegins DEF main
  <2>5. ~\E t \in Threads : RegStep(t)
    <3> SUFFICES ASSUME NEW t \in Threads, RegStep(t) PROVE FALSE
      OBVIOUS
    <3>1. RegToggle(t) \/ RegWrite(t) \/ Restore(t) \/ Restored(t)
      BY <2>1 DEF RegStep
    <3>2. todo[t] # <<>> /\ Head(todo[t])[1] \in {"toggle", "write", "restore", "restored"}
      BY <3>1, Kinds DEF RegToggle, RegWrite, Restore, Restored, Writing, At
    <3> QED
      BY <2>4, <3>2, Kinds
  <2>6. ~\E t \in Threads : Aside(t)
    BY <2>4, OthersDiffer DEF Aside
  <2>7. ~\E t \in ApiThreads : ApiRequest(t)
    BY <2>3, ConsoleBegins DEF ApiRequest, WhoOK, StartOK
  <2>8. ~\E k \in {"ctrl", "close"} : ConsoleEvent(k)
    BY <2>2 DEF ConsoleEvent
  <2>9. UNCHANGED <<reg, saved, restored, todo>>
    BY <2>5, <2>6, <2>7, <2>8, WhoRestores
  <2> QED
    BY <1>1, <2>3, <2>9 DEF FreshOK, main, ConsoleMain, Call, Stop
<1> QED
  BY <1>2, <1>3

-----------------------------------------------------------------------------
\* A thread with something to do whose list changes does its first operation.
LEMMA Doing ==
  ASSUME Types, [ProcessNext]_processVars, proc' = "up", NEW t \in Threads, todo[t] # <<>>, todo'[t] # todo[t]
  PROVE  RegStep(t) \/ Aside(t)
<1>1. ListTypes /\ ApiThreads \subseteq Threads /\ "ctrl" \in Threads
  BY DEF Types, Threads
<1>2. ASSUME NEW u \in Threads, RegStep(u) PROVE RegStep(t)
  BY <1>2, RegMoves, MovesList
<1>3. ASSUME NEW u \in Threads, Aside(u) PROVE Aside(t)
  BY <1>3 DEF Aside
<1>4. ~\E u \in ApiThreads : ApiRequest(u)
  BY <1>1 DEF ApiRequest, ListTypes
<1>5. ~\E k \in {"ctrl", "close"} : ConsoleEvent(k)
  BY <1>1 DEF ConsoleEvent, ListTypes
<1> QED
  BY <1>2, <1>3, <1>4, <1>5, WhoRestores

LEMMA AtRestore ==
  ASSUME Types, [ProcessNext]_processVars, proc' = "up", NEW t \in Threads, At(t, Call("restore")),
         todo'[t] # todo[t]
  PROVE  Restore(t)
<1>1. todo[t] # <<>> /\ Head(todo[t]) = Call("restore")
  BY AtHead
<1>2. ~Aside(t)
  BY <1>1, OthersDiffer DEF Aside
<1>3. RegStep(t)
  BY <1>1, <1>2, Doing
<1>4. ~Save(t) /\ ~Restored(t) /\ ~RegToggle(t) /\ ~RegWrite(t)
  BY <1>1, Kinds DEF Save, Restored, RegToggle, RegWrite, At, Writing
<1> QED
  BY <1>3, <1>4 DEF RegStep

\* What becomes of the history of the restores.
LEMMA HistorySteps ==
  ASSUME Types, [ProcessNext]_processVars, proc' = "up"
  PROVE  \/ restored' = restored /\ ~\E t \in Threads : RegToggle(t)
         \/ \E t \in Threads : /\ RegToggle(t)
                               /\ \A u \in Threads : restored'[u] = IF restored[u] = "no" THEN "no" ELSE "spoilt"
         \/ \E t \in Threads : /\ Restore(t) /\ saved.have /\ restored'[t] = "going"
                               /\ \A u \in Threads \ {t} : restored'[u] = restored[u]
         \/ \E t \in Threads : /\ Restored(t) /\ restored[t] = "going" /\ restored'[t] = "done"
                               /\ \A u \in Threads \ {t} : restored'[u] = restored[u]
<1>1. DOMAIN restored = Threads /\ restored = [t \in Threads |-> restored[t]]
  BY DEF Types, ValueTypes
<1>2. ASSUME NEW t \in Threads, RegToggle(t)
      PROVE  \A u \in Threads : restored'[u] = IF restored[u] = "no" THEN "no" ELSE "spoilt"
  BY <1>2 DEF RegToggle
<1>3. CASE \E t \in Threads : RegToggle(t)
  BY <1>2, <1>3
<1>4. CASE ~\E t \in Threads : RegToggle(t)
  <2>1. CASE UNCHANGED restored
    BY <1>4, <2>1
  <2>2. CASE \E t \in Threads : Restore(t)
    <3>1. PICK t \in Threads : Restore(t)
      BY <2>2
    <3>2. restored' = [restored EXCEPT ![t] = IF saved.have THEN "going" ELSE @]
      BY <3>1 DEF Restore
    <3>3. CASE saved.have
      BY <1>1, <3>1, <3>2, <3>3
    <3>4. CASE ~saved.have
      BY <1>1, <1>4, <3>2, <3>4
    <3> QED
      BY <3>3, <3>4
  <2>3. CASE \E t \in Threads : Restored(t)
    <3>1. PICK t \in Threads : Restored(t)
      BY <2>3
    <3>2. restored' = [restored EXCEPT ![t] = IF @ = "going" THEN "done" ELSE @]
      BY <3>1 DEF Restored
    <3>3. CASE restored[t] = "going"
      BY <1>1, <3>1, <3>2, <3>3
    <3>4. CASE restored[t] # "going"
      BY <1>1, <1>4, <3>2, <3>4
    <3> QED
      BY <3>3, <3>4
  <2>4. CASE \E t \in Threads : Save(t) \/ RegWrite(t)
    BY <1>4, <2>4 DEF Save, RegWrite, histVars
  <2> QED
    BY <1>4, <2>1, <2>2, <2>3, <2>4, WhoRestores DEF RegStep
<1> QED
  BY <1>3, <1>4

-----------------------------------------------------------------------------
\* Every write on a list puts back what was saved, or switches off.
Kept == {Write("enable", saved.enable), Write("enable", "off"), Write("server", saved.server),
         Write("override", saved.override)}
WritesOK == \A t \in Threads : Members(todo[t]) \cap Writes \subseteq Kept

\* A thread in the middle of a restore() has begun it.
BegunOK == \A t \in Threads : restored[t] = "no" => Call("restored") \notin Members(todo[t])

\* Only the main thread and that of a console event restore.
CalmOK == (\A t \in ApiThreads : restored[t] = "no") /\ (NoEvent => restored["ctrl"] = "no")

ListsOK == kind = "console" /\ proc = "up" => WritesOK /\ BegunOK /\ CalmOK

LEMMA ListsStep ==
  ASSUME Types, WhoOK, FreshOK, ListsOK, [ProcessNext]_processVars
  PROVE  ListsOK'
<1>1. /\ kind' = kind /\ saved \in Saved /\ ListTypes /\ "main" \in Threads /\ "ctrl" \in Threads
      /\ ApiThreads \subseteq Threads /\ "main" \notin ApiThreads /\ "ctrl" \notin ApiThreads
  BY WhoMoves, ProcessAssumption DEF Types, ValueTypes, Threads
<1> SUFFICES ASSUME kind = "console", proc' = "up" PROVE WritesOK' /\ BegunOK' /\ CalmOK'
  BY <1>1 DEF ListsOK
<1>2. proc = "up" /\ WritesOK /\ BegunOK /\ CalmOK
  BY UpBefore DEF ListsOK
<1>3. ~saved.have => /\ \A t \in Threads : Members(todo[t]) \cap Writes = {}
                     /\ \A t \in Threads : ~At(t, Call("restore")) /\ ~At(t, Call("stop_disable"))
  <2> SUFFICES ASSUME ~saved.have, NEW t \in Threads
               PROVE  Members(todo[t]) \cap Writes = {} /\ ~At(t, Call("restore")) /\ ~At(t, Call("stop_disable"))
    OBVIOUS
  <2>1. main = ConsoleMain /\ \A u \in Threads \ {"main"} : todo[u] = <<>>
    BY <1>2 DEF FreshOK
  <2>2. CASE t = "main"
    <3>1. todo[t] = ConsoleMain
      BY <2>1, <2>2 DEF main
    <3> QED
      BY <3>1, ConsoleBegins, Kinds DEF At
  <2>3. CASE t # "main"
    BY <1>1, <2>1, <2>3, BodyMembers DEF At
  <2> QED
    BY <2>2, <2>3
<1>4. WritesOK'
  <2> SUFFICES ASSUME NEW t \in Threads, NEW o \in Members(todo'[t]), o \in Writes PROVE o \in Kept'
    BY DEF WritesOK, Writes
  <2>1. \/ o \in Members(todo[t])
        \/ /\ At(t, Call("restore")) /\ saved.have
           /\ o \in {Write("enable", saved.enable), Write("server", saved.server), Write("override", saved.override)}
        \/ At(t, Call("stop_disable")) /\ o = Write("enable", "off")
    BY <1>2, Newcomers
  <2>2. saved.have
    BY <1>3, <2>1
  <2>3. saved' = saved
    BY <2>2, SavedOnce DEF Save
  <2>4. o \in Kept
    BY <1>2, <2>1 DEF WritesOK, Kept
  <2> QED
    BY <2>3, <2>4 DEF Kept
<1>5. BegunOK'
  <2> SUFFICES ASSUME NEW t \in Threads, restored'[t] = "no", Call("restored") \in Members(todo'[t]) PROVE FALSE
    BY DEF BegunOK, Call
  <2>1. restored[t] = "no"
    BY HistorySteps
  <2>2. Call("restored") \notin Members(todo[t])
    BY <1>2, <2>1 DEF BegunOK
  <2>3. At(t, Call("restore")) /\ saved.have
    BY <1>2, <2>2, Newcomers
  <2>4. Restore(t)
    BY <2>2, <2>3, AtRestore
  <2>5. restored'[t] = "going"
    BY <2>3, <2>4 DEF Restore, Types, ValueTypes
  <2> QED
    BY <2>5
<1>6. CalmOK'
  <2>1. ASSUME NEW t \in Threads, restored[t] = "no", restored'[t] # "no"
        PROVE  At(t, Call("restore"))
    BY <2>1, HistorySteps DEF Restore
  <2>2. ASSUME NEW t \in ApiThreads PROVE restored'[t] = "no"
    <3>1. restored[t] = "no"
      BY <1>2 DEF CalmOK
    <3>2. Call("restore") \notin ApiOps
      BY Kinds DEF ApiOps
    <3>3. ~At(t, Call("restore"))
      BY <1>1, <3>2, AtHead, NotMainOnly
    <3> QED
      BY <1>1, <2>1, <3>1, <3>3
  <2>3. ASSUME NoEvent' PROVE restored'["ctrl"] = "no"
    <3>1. NoEvent
      BY <2>3, SeenGrows DEF NoEvent
    <3>2. restored["ctrl"] = "no" /\ todo["ctrl"] = <<>>
      BY <1>2, <3>1 DEF CalmOK, WhoOK, CtrlOK, ctrl
    <3> QED
      BY <1>1, <2>1, <3>2 DEF At
  <2> QED
    BY <2>2, <2>3 DEF CalmOK, NoEvent
<1> QED
  BY <1>4, <1>5, <1>6

-----------------------------------------------------------------------------
\* After main's restore() comes exit() and nothing between.
ExitLast == Call("restore") \in Members(main) => main[Len(main)] = Call("exit")

LEMMA NoBindList ==
  ASSUME kind = "console"
  PROVE  /\ AfterNoBind = <<Call("restore"), Call("exit")>>
         /\ Members(AfterNoBind) = {Call("restore"), Call("exit")}
         /\ AfterNoBind[Len(AfterNoBind)] = Call("exit")
<1> DEFINE a == Call("restore")
           b == Call("exit")
<1>1. AfterNoBind = <<a, b>>
  BY DEF AfterNoBind
<1> HIDE DEF a, b
<1>2. Members(<<a, b>>) = {a, b} /\ <<a, b>>[Len(<<a, b>>)] = b
  BY DEF Members
<1> QED
  BY <1>1, <1>2 DEF a, b

LEMMA ExitLastStep ==
  ASSUME Types, WhoOK, ExitLast, [ProcessNext]_processVars, proc' = "up", kind = "console"
  PROVE  ExitLast'
<1>1. Listing /\ ListTypes /\ "main" \in Threads /\ ReadOK /\ main \in Seq(TypedOps)
  BY WhoMoves, MainIsRead DEF Types, Threads, WhoOK, ListTypes, main
<1> SUFFICES ASSUME Call("restore") \in Members(main') PROVE main'[Len(main')] = Call("exit")
  BY DEF ExitLast, Call
<1>2. CASE main' = main
  BY <1>2 DEF ExitLast
<1>3. CASE Moves("main")
  <2>1. PICK ops \in Seq(TypedOps) : /\ Expands(Head(main), ops) /\ main' = ops \o Tail(main)
                                     /\ Members(main') = Members(ops) \cup Members(Tail(main))
                                     /\ Members(main) = {Head(main)} \cup Members(Tail(main))
    BY <1>1, <1>3, MovesList DEF main
  <2>2. main # <<>>
    BY <1>3 DEF Moves, main
  <2>3. Call("restore") \notin Members(ops)
    BY <2>1, NewOps
  <2>4. Call("restore") \in Members(Tail(main)) /\ Call("restore") \in Members(main)
    BY <2>1, <2>3
  <2>5. main[Len(main)] = Call("exit")
    BY <2>4 DEF ExitLast
  <2> DEFINE q == main
             r == Tail(main)
             w == ops \o r
  <2>6. /\ Len(q) \in Nat \ {0} /\ Len(ops) \in Nat
        /\ Len(w) = Len(ops) + Len(q) - 1
        /\ \A i \in 2 .. Len(q) : w[Len(ops) + i - 1] = q[i]
    BY <1>1, <2>2, Replaced
  <2>7. Len(r) = Len(q) - 1
    BY <1>1, <2>2, HeadTailProperties
  <2>8. Len(r) # 0
    <3>1. r # <<>>
      BY <2>4, BodyMembers DEF Types, ValueTypes
    <3>2. r \in Seq(TypedOps)
      BY <1>1, <2>2, HeadTailProperties
    <3> QED
      BY <3>1, <3>2, EmptySeq
  <2> HIDE DEF q, r, w
  <2>9. Len(q) >= 2
    BY <2>6, <2>7, <2>8
  <2>10. w[Len(w)] = q[Len(q)]
    BY <2>6, <2>9
  <2> QED
    BY <2>1, <2>5, <2>10 DEF q, r, w
<1>4. CASE main' = AfterNoBind
  BY <1>4, NoBindList
<1>5. CASE CliEof("main")
  <2>1. /\ Len(main) > 1 /\ main \in Seq(TypedOps) /\ main[1] = Call("read") /\ main[2] = Call("cli")
        /\ todo' = [todo EXCEPT !["main"] = Tail(Tail(main))]
    BY <1>1, <1>5, EofList DEF main
  <2>2. todo'["main"] = Tail(Tail(main))
    BY <1>1, <2>1 DEF ListTypes
  <2> DEFINE q == main
             r == Tail(Tail(main))
             a == Call("restore")
  <2>3. /\ Len(r) = Len(q) - 2 /\ \A i \in 1 .. Len(q) - 2 : r[i] = q[i + 2]
        /\ Len(q) \in Nat
    BY <2>1, TailTail, LenProperties
  <2>4. r[Len(r)] = q[Len(q)] /\ a \in Members(q)
    <3>1. a \in Members(r)
      BY <2>2 DEF main
    <3> HIDE DEF q, r, a
    <3>2. PICK i \in 1 .. Len(r) : r[i] = a
      BY <3>1 DEF Members
    <3>3. i + 2 \in 1 .. Len(q) /\ q[i + 2] = a
      BY <2>3, <3>2
    <3>4. Len(r) \in 1 .. Len(q) - 2
      BY <2>3, <3>2
    <3> QED
      BY <2>3, <3>3, <3>4 DEF Members
  <2> QED
    BY <2>2, <2>4 DEF ExitLast, main
<1> QED
  BY <1>1, <1>2, <1>3, <1>4, <1>5, MainStays

\* What is left when main comes to its restore(), and when it tests the flag.
LEMMA LeftAtRestore ==
  ASSUME Types, WhoOK, ExitLast, At("main", Call("restore"))
  PROVE  Members(main) = {Call("restore"), Call("exit")} /\ Members(Tail(main)) = {Call("exit")}
<1>1. main \in Seq(TypedOps) /\ main # <<>> /\ Head(main) = Call("restore") /\ Proper(main)
  BY AtHead DEF Types, Threads, ListTypes, WhoOK, MainOK, main
<1> DEFINE a == Call("restore")
           b == Call("exit")
           q == main
           r == Tail(main)
<1>2. Len(q) \in Nat \ {0} /\ q[1] = a /\ Len(r) = Len(q) - 1 /\ \A i \in 1 .. Len(r) : r[i] = q[i + 1]
  BY <1>1, HeadTailProperties, EmptySeq, LenProperties
<1>3. Len(q) = 2
  <2>1. 1 \in 1 .. Len(q)
    BY <1>2
  <2>2. q[1] = a => Len(q) = 1 + 1
    BY <1>1, <2>1 DEF Proper
  <2>3. q[1] = a
    BY <1>2
  <2> HIDE DEF q, a
  <2>4. 1 + 1 = 2
    OBVIOUS
  <2> QED
    BY <2>2, <2>3, <2>4
<1>4. a \in Members(q)
  BY <1>2 DEF Members
<1>5. q[2] = b
  BY <1>3, <1>4 DEF ExitLast
<1> HIDE DEF q, r, a, b
<1>6. Len(r) = 1 /\ r[1] = b
  BY <1>2, <1>3, <1>5
<1>7. Members(q) = {a, b} /\ Members(r) = {b}
  BY <1>2, <1>3, <1>5, <1>6 DEF Members
<1> QED
  BY <1>7 DEF a, b, q, r

LEMMA LeftAtTest ==
  ASSUME Types, WhoOK, ExitLast, At("main", Call("cli"))
  PROVE  Members(Tail(main)) = {Stop("api"), Call("restore"), Call("exit")}
<1>1. main \in Seq(TypedOps) /\ main # <<>> /\ Head(main) = Call("cli") /\ Proper(main)
  BY AtHead DEF Types, Threads, ListTypes, WhoOK, MainOK, main
<1> DEFINE a == Call("restore")
           b == Call("exit")
           c == Stop("api")
           q == main
           r == Tail(main)
<1>2. Len(q) \in Nat \ {0} /\ q[1] = Call("cli") /\ Len(r) = Len(q) - 1 /\ \A i \in 1 .. Len(r) : r[i] = q[i + 1]
  BY <1>1, HeadTailProperties, EmptySeq, LenProperties
<1>3. Len(q) = 4 /\ q[2] = c /\ q[3] = a
  <2>1. 1 \in 1 .. Len(q)
    BY <1>2
  <2>2. q[1] = Call("cli") => Len(q) = 1 + 3 /\ q[1 + 1] = c /\ q[1 + 2] = a
    BY <1>1, <2>1 DEF Proper
  <2>3. q[1] = Call("cli")
    BY <1>2
  <2> HIDE DEF q, a, c
  <2>4. 1 + 3 = 4 /\ 1 + 1 = 2 /\ 1 + 2 = 3
    OBVIOUS
  <2> QED
    BY <2>2, <2>3, <2>4
<1>4. a \in Members(q)
  BY <1>3 DEF Members
<1>5. q[4] = b
  BY <1>3, <1>4 DEF ExitLast
<1> HIDE DEF q, r, a, b, c
<1>6. Len(r) = 3 /\ r[1] = c /\ r[2] = a /\ r[3] = b
  BY <1>2, <1>3, <1>5
<1>7. Members(r) = {c, a, b}
  BY <1>6 DEF Members
<1> QED
  BY <1>7 DEF a, b, c, r

-----------------------------------------------------------------------------
\* main has no loop before it and no server to start.
Past == Members(main) \cap {Call("cli"), Call("start")} = {}

\* The server is stopped, main will not switch the proxy off, and what it
\* writes is what was saved.  So it is past the loop, after quit.
Settled ==
    /\ "server" \notin on /\ Call("stop_disable") \notin Members(main)
    /\ \A v \in {"on", "off"} : Write("enable", v) \in Members(main) => v = saved.enable
QuitOK ==
    kind = "console" /\ proc = "up" =>
       /\ seen \subseteq {"quit"} /\ Past => Settled
       /\ restored["main"] # "no" => Past

LEMMA PastStays ==
  ASSUME Types, WhoOK, [ProcessNext]_processVars, proc' = "up", kind = "console", Past
  PROVE  Past'
<1>1. "main" \in Threads
  BY DEF Threads
<1>2. \A o \in Members(todo'["main"]) :
         o \in Members(todo["main"]) \/ (o # Call("start") /\ o # Call("cli"))
  BY <1>1, Newcomers
<1>3. Members(todo'["main"]) \cap {Call("cli"), Call("start")} = {}
  BY <1>2 DEF Past, main
<1> QED
  BY <1>3 DEF Past, main, Call

LEMMA NotServerAgain ==
  ASSUME Types, WhoOK, [ProcessNext]_processVars, proc' = "up", Past, "server" \notin on
  PROVE  "server" \notin on'
<1>1. "main" \in Threads /\ ListTypes
  BY DEF Threads, Types
<1>2. ASSUME NEW t \in Threads, todo[t] # <<>>, Head(todo[t]) = Call("start") PROVE FALSE
  <2>1. Call("start") \in MainOnly
    BY DEF MainOnly
  <2>2. t = "main"
    BY <1>2, <2>1, NotMainOnly
  <2>3. Call("start") \in Members(main)
    BY <1>1, <1>2, <2>2, HeadIsTyped DEF main
  <2> QED
    BY <2>3 DEF Past
<1> QED
  BY <1>2, FlagSteps DEF flagVars

LEMMA SettledStays ==
  ASSUME Types, WhoOK, FreshOK, [ProcessNext]_processVars, proc' = "up", kind = "console", Past, Settled
  PROVE  Settled'
<1>1. "main" \in Threads /\ ListTypes
  BY DEF Threads, Types
<1>2. "server" \notin on'
  BY NotServerAgain DEF Settled
<1>3. saved.have /\ saved' = saved
  <2>1. main # ConsoleMain
    BY ConsoleBegins DEF Past
  <2>2. saved.have
    BY <2>1, UpBefore DEF FreshOK
  <2> QED
    BY <2>2, SavedOnce DEF Save
<1>4. Call("stop_disable") \notin Members(todo'["main"])
  <2>1. Call("stop_disable") \notin Members(todo["main"]) /\ "server" \notin on
    BY DEF Settled, main
  <2> QED
    BY <1>1, <2>1, Newcomers
<1>5. ASSUME NEW v \in {"on", "off"}, Write("enable", v) \in Members(todo'["main"]) PROVE v = saved.enable
  <2>1. Write("enable", v) \in Writes
    BY DEF Writes
  <2>2. CASE Write("enable", v) \in Members(todo["main"])
    BY <2>2 DEF Settled, main
  <2>3. CASE Write("enable", v) \in {Write("enable", saved.enable), Write("server", saved.server),
                                     Write("override", saved.override)}
    BY <2>3 DEF Write
  <2>4. CASE At("main", Call("stop_disable"))
    <3>1. Call("stop_disable") \in Members(main)
      BY <1>1, <2>4, AtHead, HeadIsTyped DEF main
    <3> QED
      BY <3>1 DEF Settled
  <2> QED
    BY <1>1, <1>5, <2>1, <2>2, <2>3, <2>4, Newcomers
<1> QED
  BY <1>2, <1>3, <1>4, <1>5 DEF Settled, main, Call, Write

\* How main comes past its loop.
LEMMA BecomesPast ==
  ASSUME Types, WhoOK, FreshOK, ExitLast, [ProcessNext]_processVars, proc' = "up", kind = "console",
         seen' \subseteq {"quit"}, ~Past, Past'
  PROVE  Settled'
<1>1. "main" \in Threads /\ ListTypes /\ main \in Seq(TypedOps) /\ proc = "up" /\ saved \in Saved
  BY UpBefore DEF Threads, Types, ValueTypes, ListTypes, main
<1>2. NoEvent'
  BY DEF NoEvent
<1>3. main' # main
  BY DEF Past, Call
<1>4. ~CliEof("main")
  BY DEF CliEof
<1>5. ASSUME on' = on, "server" \notin on, NEW q, main' = q, Call("stop_disable") \notin Members(q),
             Members(q) \cap Writes = {}
      PROVE  Settled'
  <2>1. Call("stop_disable") \notin Members(main') /\ Members(main') \cap Writes = {}
    BY <1>5
  <2>2. \A v \in {"on", "off"} : Write("enable", v) \in Writes
    BY DEF Writes
  <2> QED
    BY <1>5, <2>1, <2>2 DEF Settled, Call, Write
<1>6. CASE At("main", Call("start")) /\ main' = AfterNoBind /\ UNCHANGED flagVars
  <2>1. Members(AfterNoBind) = {Call("restore"), Call("exit")}
    BY NoBindList
  <2>2. Call("stop_disable") \notin Members(AfterNoBind) /\ Members(AfterNoBind) \cap Writes = {}
    BY <2>1, Kinds
  <2>3. Call("start") \in Members(main)
    BY <1>1, <1>6, AtHead, HeadIsTyped DEF main
  <2>4. on = {}
    BY <2>3 DEF WhoOK, StartOK
  <2> QED
    BY <1>5, <1>6, <2>2, <2>4 DEF flagVars
<1>7. CASE Moves("main") /\ Effect(Head(main))
  <2>1. PICK ops \in Seq(TypedOps) : /\ Expands(Head(main), ops) /\ main' = ops \o Tail(main)
                                     /\ Members(main') = Members(ops) \cup Members(Tail(main))
                                     /\ Members(main) = {Head(main)} \cup Members(Tail(main))
    BY <1>1, <1>7, MovesList DEF main
  <2>2. main # <<>> /\ Tail(main) \in Seq(TypedOps)
    BY <1>1, <1>7, HeadTailProperties DEF Moves, main
  <2>3. Members(main') \cap {Call("cli"), Call("start")} = {}
    BY DEF Past, Call
  <2>4. Head(main) = Call("cli") \/ Head(main) = Call("start")
    BY <2>1, <2>3 DEF Past
  <2>5. CASE Head(main) = Call("start")
    <3>1. Call("start") \in Members(main)
      BY <2>1, <2>5
    <3>2. main = Tail(ConsoleMain)
      BY <2>5, <3>1, MainForms DEF WhoOK, StartOK, Main
    <3>3. Call("cli") \in Members(Tail(main))
      BY <3>2, MainForms
    <3> QED
      BY <2>1, <2>3, <3>3
  <2>6. CASE Head(main) = Call("cli")
    <3>1. ops = IF "server" \in on THEN <<Call("read"), Call("cli")>> ELSE <<>>
      <4>1. /\ Call("cli")[1] = "cli" /\ Call("cli") \notin Plain
            /\ Call("cli") \notin {Call("restore"), Call("start"), Call("stop_disable"), Call("read"), Call("exit")}
            /\ \A x \in Services : Call("cli") # Stop(x)
        BY Kinds DEF Plain
      <4> QED
        BY <2>1, <2>6, <4>1 DEF Expands
    <3>2. "server" \notin on
      <4>1. Call("cli") \notin Members(ops)
        BY <2>1, <2>3
      <4> QED
        BY <1>1, <3>1, <4>1, BodyMembers
    <3>3. main' = Tail(main)
      BY <2>1, <2>2, <3>1, <3>2, ConcatEmptySeq
    <3>4. At("main", Call("cli"))
      BY <1>1, <2>2, <2>6 DEF At, main
    <3>5. Members(Tail(main)) = {Stop("api"), Call("restore"), Call("exit")}
      BY <3>4, LeftAtTest
    <3>6. Call("stop_disable") \notin Members(Tail(main)) /\ Members(Tail(main)) \cap Writes = {}
      BY <3>5, Kinds
    <3>7. on' = on
      BY <1>7, <2>6, NoEffect, NotChanging DEF flagVars
    <3> QED
      BY <1>5, <3>2, <3>3, <3>6, <3>7
  <2> QED
    BY <2>4, <2>5, <2>6
<1> QED
  BY <1>2, <1>3, <1>4, <1>6, <1>7, MainEffects

LEMMA QuitStep ==
  ASSUME Types, WhoOK, FreshOK, kind = "console" /\ proc = "up" => ExitLast, QuitOK, [ProcessNext]_processVars
  PROVE  QuitOK'
<1>1. kind' = kind
  BY WhoMoves
<1> SUFFICES ASSUME kind = "console", proc' = "up"
             PROVE  /\ seen' \subseteq {"quit"} /\ Past' => Settled'
                    /\ restored'["main"] # "no" => Past'
  BY <1>1 DEF QuitOK
<1>2. proc = "up" /\ ExitLast /\ (seen \subseteq {"quit"} /\ Past => Settled) /\ (restored["main"] # "no" => Past)
  BY UpBefore DEF QuitOK
<1>3. ASSUME seen' \subseteq {"quit"}, Past' PROVE Settled'
  <2>1. seen \subseteq {"quit"}
    BY <1>3, SeenGrows
  <2>2. CASE Past
    BY <1>2, <2>1, <2>2, SettledStays
  <2>3. CASE ~Past
    BY <1>2, <1>3, <2>3, BecomesPast
  <2> QED
    BY <2>2, <2>3
<1>4. ASSUME restored'["main"] # "no" PROVE Past'
  <2>1. "main" \in Threads
    BY DEF Threads
  <2>2. CASE restored["main"] # "no"
    BY <1>2, <2>2, PastStays
  <2>3. CASE restored["main"] = "no"
    <3>1. At("main", Call("restore"))
      BY <1>4, <2>1, <2>3, HistorySteps DEF Restore
    <3>2. Members(main) = {Call("restore"), Call("exit")}
      BY <1>2, <3>1, LeftAtRestore
    <3>3. Past
      BY <3>2, Kinds DEF Past
    <3> QED
      BY <3>3, PastStays
  <2> QED
    BY <2>2, <2>3
<1> QED
  BY <1>3, <1>4

-----------------------------------------------------------------------------
(* How far a restore() has come, whatever others write meanwhile.          *)

EnableBack   == /\ reg.enable \in {saved.enable, "off"}
                /\ seen \subseteq {"quit"} => reg.enable = saved.enable
ServerBack   == reg.server = saved.server
OverrideBack == reg.override = saved.override

\* What is back before the n-th operation of restore().
BackTo(n) == /\ n >= 2 => EnableBack
             /\ n >= 3 => ServerBack
             /\ n >= 4 => OverrideBack

\* The list begins with the operations of restore() from the n-th.
Left(q, n) == Len(q) >= 5 - n /\ \A i \in n .. 4 : q[i - n + 1] = RestoreBody[i]

ProgressOK ==
    kind = "console" /\ proc = "up" =>
    \A t \in Threads :
       /\ restored[t] = "going" => \E n \in 1 .. 4 : Left(todo[t], n) /\ BackTo(n)
       /\ restored[t] = "done" => BackTo(5)

Going == WhoOK /\ FreshOK /\ ListsOK /\ QuitOK /\ kind = "console"

\* Writes of restore() and stop() undo nothing that is back.
LEMMA WritesKeep ==
  ASSUME Types, Going, proc = "up", NEW t \in Threads, restored[t] # "no", NEW u \in Threads, RegWrite(u)
  PROVE  /\ reg.enable \in {saved.enable, "off"} => reg'.enable \in {saved.enable, "off"}
         /\ seen \subseteq {"quit"} /\ reg.enable = saved.enable => reg'.enable = saved.enable
         /\ ServerBack => reg'.server = saved.server
         /\ OverrideBack => reg'.override = saved.override
<1>1. /\ ListTypes /\ ValueTypes /\ "main" \in Threads /\ "ctrl" \in Threads
      /\ Threads = {"main", "ctrl"} \cup ApiThreads
  BY DEF Types, Threads
<1> DEFINE o == Head(todo[u])
<1>2. o \in Writes /\ o \in Members(todo[u]) /\ reg' = Written(u) /\ todo[u] # <<>>
  BY <1>1, WritingHead, HeadIsTyped DEF RegWrite
<1>3. o \in Kept
  BY <1>2 DEF Going, ListsOK, WritesOK
<1>4. ASSUME seen \subseteq {"quit"}, NEW v \in {"on", "off"}, o = Write("enable", v) PROVE v = saved.enable
  <2>1. NoEvent
    BY <1>4 DEF NoEvent
  <2>2. t = "main"
    BY <1>1, <2>1 DEF Going, ListsOK, CalmOK
  <2>3. Past /\ Settled
    BY <1>4, <2>2 DEF Going, QuitOK
  <2>4. o[1] = "write"
    BY <1>2, Kinds
  <2>5. u = "main"
    <3>1. u \notin ApiThreads
      <4>1. \A p \in ApiOps : p[1] \in {"toggle", "init"}
        BY Kinds DEF ApiOps
      <4>2. o \notin ApiOps
        BY <2>4, <4>1
      <4> QED
        BY <1>2, <4>2 DEF Going, WhoOK, ApiOK
    <3>2. u # "ctrl"
      BY <1>2, <2>1 DEF Going, WhoOK, CtrlOK, ctrl
    <3> QED
      BY <1>1, <3>1, <3>2
  <2> QED
    BY <1>2, <1>4, <2>3, <2>5 DEF Settled, main
<1>5. /\ \A v : o = Write("enable", v) => reg'.enable = v /\ reg'.server = reg.server /\ reg'.override = reg.override
      /\ \A v : o = Write("server", v) => reg'.server = v /\ reg'.enable = reg.enable /\ reg'.override = reg.override
      /\ \A v : o = Write("override", v) => reg'.override = v /\ reg'.enable = reg.enable /\ reg'.server = reg.server
  BY <1>1, <1>2, WrittenFields
<1>6. saved.enable \in {"on", "off"}
  BY <1>1 DEF ValueTypes, Saved
<1>7. CASE o = Write("enable", saved.enable)
  BY <1>5, <1>7 DEF ServerBack, OverrideBack
<1>8. CASE o = Write("enable", "off")
  <2>1. /\ reg'.enable = "off" /\ reg'.server = reg.server /\ reg'.override = reg.override
    BY <1>5, <1>8
  <2>2. seen \subseteq {"quit"} => "off" = saved.enable
    BY <1>4, <1>8
  <2> QED
    BY <2>1, <2>2 DEF ServerBack, OverrideBack
<1>9. CASE o = Write("server", saved.server)
  BY <1>5, <1>9 DEF ServerBack, OverrideBack
<1>10. CASE o = Write("override", saved.override)
  BY <1>5, <1>10 DEF ServerBack, OverrideBack
<1> QED
  BY <1>3, <1>7, <1>8, <1>9, <1>10 DEF Kept

LEMMA SavedIsKept ==
  ASSUME Going, [ProcessNext]_processVars, proc = "up", NEW t \in Threads, restored[t] # "no"
  PROVE  saved.have /\ saved' = saved /\ RestoreBody' = RestoreBody
<1>1. saved.have
  BY DEF Going, FreshOK
<1>2. saved' = saved
  BY <1>1, SavedOnce DEF Save
<1> QED
  BY <1>1, <1>2 DEF RestoreBody, Write, Call

LEMMA BackStays ==
  ASSUME Types, Going, [ProcessNext]_processVars, proc' = "up", ~\E u \in Threads : RegToggle(u),
         NEW t \in Threads, restored[t] # "no", NEW n \in 1 .. 5, BackTo(n)
  PROVE  BackTo(n)'
<1>1. proc = "up" /\ saved' = saved /\ seen \subseteq seen'
  BY UpBefore, SavedIsKept, SeenGrows
<1>2. CASE reg' = reg
  BY <1>1, <1>2 DEF BackTo, EnableBack, ServerBack, OverrideBack
<1>3. ASSUME NEW u \in Threads, RegWrite(u) PROVE BackTo(n)'
  <2>1. /\ reg.enable \in {saved.enable, "off"} => reg'.enable \in {saved.enable, "off"}
        /\ seen \subseteq {"quit"} /\ reg.enable = saved.enable => reg'.enable = saved.enable
        /\ ServerBack => reg'.server = saved.server
        /\ OverrideBack => reg'.override = saved.override
    BY <1>1, <1>3, WritesKeep
  <2>2. EnableBack => EnableBack'
    BY <1>1, <2>1 DEF EnableBack
  <2>3. (ServerBack => ServerBack') /\ (OverrideBack => OverrideBack')
    BY <1>1, <2>1 DEF ServerBack, OverrideBack
  <2> QED
    BY <2>2, <2>3 DEF BackTo
<1>4. ASSUME NEW u \in Threads, Save(u) \/ Restore(u) \/ Restored(u) PROVE reg' = reg
  BY <1>4 DEF Save, Restore, Restored, regVars
<1> QED
  BY <1>2, <1>3, <1>4, WhoRestores DEF RegStep

LEMMA RestoreForms ==
  ASSUME saved \in Saved
  PROVE  /\ RestoreBody \in Seq(TypedOps) /\ Len(RestoreBody) = 4
         /\ RestoreBody[1] = Write("enable", saved.enable) /\ RestoreBody[2] = Write("server", saved.server)
         /\ RestoreBody[3] = Write("override", saved.override) /\ RestoreBody[4] = Call("restored")
         /\ \A i \in 1 .. 3 : RestoreBody[i] \in Writes
<1> DEFINE a == Write("enable", saved.enable)
           b == Write("server", saved.server)
           c == Write("override", saved.override)
           d == Call("restored")
<1>1. RestoreBody = <<a, b, c, d>>
  BY DEF RestoreBody
<1>2. a \in Writes /\ b \in Writes /\ c \in Writes
  BY DEF Writes, Saved
<1> HIDE DEF a, b, c, d
<1>3. Len(RestoreBody) = 4 /\ RestoreBody[1] = a /\ RestoreBody[2] = b /\ RestoreBody[3] = c /\ RestoreBody[4] = d
  BY <1>1
<1>4. \A i \in 1 .. 3 : RestoreBody[i] \in Writes
  <2> SUFFICES ASSUME NEW i \in 1 .. 3 PROVE RestoreBody[i] \in Writes
    OBVIOUS
  <2>1. i = 1 \/ i = 2 \/ i = 3
    OBVIOUS
  <2> QED
    BY <1>2, <1>3, <2>1
<1>5. RestoreBody \in Seq(TypedOps)
  BY BodyTypes
<1> QED
  BY <1>3, <1>4, <1>5 DEF a, b, c, d

\* What is left of a restore() begins with its next operation.
LEMMA LeftHead ==
  ASSUME NEW q \in Seq(TypedOps), saved \in Saved, NEW n \in 1 .. 4, Left(q, n)
  PROVE  /\ q # <<>> /\ Head(q) = RestoreBody[n]
         /\ n < 4 => Left(Tail(q), n + 1)
<1>1. Len(q) \in Nat /\ Len(q) >= 5 - n
  BY LenProperties DEF Left
<1>2. q # <<>> /\ Head(q) = q[1]
  BY <1>1, HeadTailProperties, EmptySeq
<1>3. n \in n .. 4 /\ n - n + 1 = 1
  OBVIOUS
<1>4. q[1] = RestoreBody[n]
  BY <1>3 DEF Left
<1>5. ASSUME n < 4 PROVE Left(Tail(q), n + 1)
  <2> DEFINE r == Tail(q)
  <2>1. Len(r) = Len(q) - 1 /\ \A i \in 1 .. Len(r) : r[i] = q[i + 1]
    BY <1>2, HeadTailProperties
  <2> HIDE DEF r
  <2>2. Len(r) >= 5 - (n + 1)
    BY <1>1, <2>1
  <2>3. ASSUME NEW i \in n + 1 .. 4 PROVE r[i - (n + 1) + 1] = RestoreBody[i]
    <3>1. i - n \in 1 .. Len(r) /\ i \in n .. 4 /\ i - (n + 1) + 1 = i - n
      BY <1>1, <2>1
    <3>2. r[i - n] = q[i - n + 1] /\ q[i - n + 1] = RestoreBody[i]
      BY <2>1, <3>1 DEF Left
    <3> QED
      BY <3>1, <3>2
  <2>4. Left(r, n + 1)
    BY <2>2, <2>3 DEF Left
  <2> QED
    BY <2>4 DEF r
<1> QED
  BY <1>2, <1>4, <1>5

LEMMA LeftAll ==
  ASSUME saved \in Saved, NEW q \in Seq(TypedOps), q # <<>>
  PROVE  Left(RestoreBody \o Tail(q), 1)
<1> DEFINE w == RestoreBody \o Tail(q)
<1>1. /\ Len(q) \in Nat \ {0} /\ Len(w) = 4 + Len(q) - 1 /\ \A i \in 1 .. 4 : w[i] = RestoreBody[i]
  <2>1. RestoreBody \in Seq(TypedOps) /\ Len(RestoreBody) = 4
    BY RestoreForms
  <2> DEFINE p == RestoreBody
  <2> HIDE DEF p
  <2>2. p \in Seq(TypedOps) /\ q \in Seq(TypedOps) /\ q # <<>>
    BY <2>1 DEF p
  <2>4. Len(p) = 4
    BY <2>1 DEF p
  <2> HIDE DEF w
  <2>3. /\ Len(q) \in Nat \ {0} /\ Len(p \o Tail(q)) = Len(p) + Len(q) - 1
        /\ \A i \in 1 .. Len(p) : (p \o Tail(q))[i] = p[i]
    BY <2>2, Replaced
  <2> QED
    BY <2>3, <2>4 DEF p, w
<1> HIDE DEF w
<1>2. Len(w) >= 5 - 1
  BY <1>1
<1>3. \A i \in 1 .. 4 : w[i - 1 + 1] = RestoreBody[i]
  <2> SUFFICES ASSUME NEW i \in 1 .. 4 PROVE w[i - 1 + 1] = RestoreBody[i]
    OBVIOUS
  <2>1. i - 1 + 1 = i
    OBVIOUS
  <2> QED
    BY <1>1, <2>1
<1> QED
  BY <1>2, <1>3 DEF Left, w

\* A thread in the middle of restore() stays in the middle or goes on with it.
LEMMA GoesOn ==
  ASSUME Types, Going, [ProcessNext]_processVars, proc' = "up", ~\E u \in Threads : RegToggle(u),
         NEW t \in Threads, restored[t] = "going", restored'[t] = "going",
         NEW n \in 1 .. 4, Left(todo[t], n), BackTo(n)
  PROVE  \E m \in 1 .. 4 : Left(todo[t], m)' /\ BackTo(m)'
<1>1. /\ saved \in Saved /\ ListTypes /\ todo[t] \in Seq(TypedOps) /\ proc = "up" /\ ValueTypes
      /\ saved' = saved /\ RestoreBody' = RestoreBody
  BY UpBefore, SavedIsKept DEF Types, ValueTypes, ListTypes
<1>2. todo[t] # <<>> /\ Head(todo[t]) = RestoreBody[n] /\ (n < 4 => Left(Tail(todo[t]), n + 1))
  BY <1>1, LeftHead
<1>3. BackTo(n)'
  BY <1>1, BackStays
<1>4. CASE todo'[t] = todo[t]
  <2>1. Left(todo[t], n)'
    BY <1>1, <1>4 DEF Left
  <2> QED
    BY <1>3, <2>1
<1>5. CASE todo'[t] # todo[t]
  <2>1. RestoreBody[n] \in Writes \cup {Call("restored")}
    <3>1. n \in 1 .. 3 \/ n = 4
      OBVIOUS
    <3> QED
      BY <1>1, <3>1, RestoreForms
  <2>2. ~Aside(t)
    BY <1>2, <2>1, OthersDiffer DEF Aside
  <2>3. RegStep(t)
    BY <1>2, <1>5, <2>2, Doing
  <2>4. CASE n = 4
    <3>1. Head(todo[t]) = Call("restored")
      BY <1>1, <1>2, <2>4, RestoreForms
    <3>2. Restored(t)
      BY <2>3, <3>1, Kinds DEF RegStep, Save, RegToggle, RegWrite, Restore, At, Writing
    <3>3. restored'[t] = "done"
      BY <3>2 DEF Restored, Types, ValueTypes
    <3> QED
      BY <3>3
  <2>5. CASE n \in 1 .. 3
    <3>1. Head(todo[t]) \in Writes
      BY <1>1, <1>2, <2>5, RestoreForms
    <3>2. RegWrite(t)
      <4>1. Head(todo[t])[1] = "write"
        BY <3>1, Kinds
      <4> QED
        BY <2>3, <4>1, Kinds DEF RegStep, Save, RegToggle, Restore, Restored, At, Writing
    <3>3. todo'[t] = <<>> \o Tail(todo[t]) /\ reg' = Written(t)
      <4>1. Then(t, <<>>) /\ <<>> \in Seq(TypedOps)
        BY <1>1, <3>2, BodyTypes DEF RegWrite
      <4> QED
        BY <1>1, <1>2, <3>2, <4>1, ThenTypes DEF RegWrite
    <3>4. todo'[t] = Tail(todo[t])
      BY <1>1, <1>2, <3>3, ConcatEmptySeq, HeadTailProperties
    <3>5. Left(todo'[t], n + 1)
      BY <1>2, <2>5, <3>4
    <3>6. Left(todo[t], n + 1)'
      BY <1>1, <3>5 DEF Left
    <3>7. /\ n = 1 => Head(todo[t]) = Write("enable", saved.enable)
          /\ n = 2 => Head(todo[t]) = Write("server", saved.server)
          /\ n = 3 => Head(todo[t]) = Write("override", saved.override)
      BY <1>1, <1>2, RestoreForms
    <3>8. /\ n = 1 => reg'.enable = saved.enable
          /\ n = 2 => reg'.server = saved.server
          /\ n = 3 => reg'.override = saved.override
      BY <1>1, <3>1, <3>3, <3>7, WrittenFields
    <3>9. /\ n = 1 => EnableBack'
          /\ n = 2 => ServerBack'
          /\ n = 3 => OverrideBack'
      BY <1>1, <3>8 DEF EnableBack, ServerBack, OverrideBack
    <3>10. BackTo(n + 1)'
      <4>1. (n + 1 >= 2 => EnableBack') /\ (n + 1 >= 3 => ServerBack') /\ (n + 1 >= 4 => OverrideBack')
        BY <1>3, <2>5, <3>9 DEF BackTo
      <4> QED
        BY <4>1 DEF BackTo
    <3>11. n + 1 \in 1 .. 4
      BY <2>5
    <3> QED
      BY <3>6, <3>10, <3>11
  <2> QED
    BY <2>4, <2>5
<1> QED
  BY <1>4, <1>5

LEMMA ProgressStep ==
  ASSUME Types, WhoOK, FreshOK, ListsOK, QuitOK, ProgressOK, [ProcessNext]_processVars
  PROVE  ProgressOK'
<1>1. kind' = kind
  BY WhoMoves
<1> SUFFICES ASSUME kind = "console", proc' = "up", NEW t \in Threads
             PROVE  /\ restored'[t] = "going" => \E n \in 1 .. 4 : Left(todo[t], n)' /\ BackTo(n)'
                    /\ restored'[t] = "done" => BackTo(5)'
  BY <1>1 DEF ProgressOK
<1>2. /\ Going /\ proc = "up" /\ saved \in Saved /\ ListTypes
      /\ \A u \in Threads : todo[u] \in Seq(TypedOps)
  BY UpBefore DEF Going, Types, ValueTypes, ListTypes
<1>3. /\ restored[t] = "going" => \E n \in 1 .. 4 : Left(todo[t], n) /\ BackTo(n)
      /\ restored[t] = "done" => BackTo(5)
  BY <1>2 DEF ProgressOK
<1>4. CASE \E u \in Threads : RegToggle(u)
  <2>1. restored'[t] \in {"no", "spoilt"}
    BY <1>4 DEF RegToggle
  <2> QED
    BY <2>1
<1>5. CASE ~\E u \in Threads : RegToggle(u)
  <2>1. CASE restored'[t] = restored[t]
    <3>1. ASSUME restored'[t] = "going" PROVE \E n \in 1 .. 4 : Left(todo[t], n)' /\ BackTo(n)'
      <4>1. PICK n \in 1 .. 4 : Left(todo[t], n) /\ BackTo(n)
        BY <1>3, <2>1, <3>1
      <4> QED
        BY <1>2, <1>5, <2>1, <3>1, <4>1, GoesOn
    <3>2. ASSUME restored'[t] = "done" PROVE BackTo(5)'
      <4>1. BackTo(5) /\ restored[t] # "no" /\ 5 \in 1 .. 5
        BY <1>3, <2>1, <3>2
      <4> QED
        BY <1>2, <1>5, <4>1, BackStays
    <3> QED
      BY <3>1, <3>2
  <2>2. CASE Restore(t) /\ saved.have /\ restored'[t] = "going"
    <3>1. Then(t, RestoreBody) /\ todo[t] # <<>>
      BY <2>2 DEF Restore, At
    <3>2. todo'[t] = RestoreBody \o Tail(todo[t])
      BY <1>2, <3>1, RestoreForms, ThenTypes
    <3>3. Left(todo'[t], 1)
      BY <1>2, <3>1, <3>2, LeftAll
    <3>4. saved' = saved
      BY <2>2 DEF Restore, regVars
    <3>5. RestoreBody' = RestoreBody
      BY <3>4 DEF RestoreBody, Write, Call
    <3>6. Left(todo[t], 1)'
      BY <3>3, <3>5 DEF Left
    <3>7. BackTo(1)'
      BY DEF BackTo
    <3> QED
      BY <2>2, <3>6, <3>7
  <2>3. CASE Restored(t) /\ restored[t] = "going" /\ restored'[t] = "done"
    <3>1. PICK n \in 1 .. 4 : Left(todo[t], n) /\ BackTo(n)
      BY <1>3, <2>3
    <3>2. Head(todo[t]) = RestoreBody[n]
      BY <1>2, <3>1, LeftHead
    <3>3. Head(todo[t])[1] = "restored"
      BY <2>3, Kinds DEF Restored, At
    <3>4. n = 4
      <4>1. n \notin 1 .. 3
        BY <1>2, <3>2, <3>3, RestoreForms, Kinds
      <4> QED
        BY <4>1
    <3>5. BackTo(5)
      BY <3>1, <3>4 DEF BackTo
    <3>6. BackTo(5)'
      BY <1>2, <1>5, <2>3, <3>5, BackStays
    <3> QED
      BY <2>3, <3>6
  <2> QED
    BY <1>5, <2>1, <2>2, <2>3, HistorySteps
<1> QED
  BY <1>4, <1>5

-----------------------------------------------------------------------------
\* A thread that may end the process has restored, or does so first.
Finishes == {Call("exit"), Call("end")}
Restores == {Call("restore"), Call("restored")}
Guarded(t) ==
    \/ restored[t] \in {"done", "spoilt"}
    \/ Ahead(todo[t], Restores, Finishes)
    \/ Members(todo[t]) \cap Finishes = {}
GuardedOK == kind = "console" /\ proc = "up" => Guarded("main") /\ Guarded("ctrl")

LEMMA EofMembers ==
  ASSUME ListTypes, ReadOK, CliEof("main")
  PROVE  /\ todo'["main"] = Tail(Tail(todo["main"]))
         /\ Members(todo'["main"]) \subseteq Members(todo["main"])
<1>1. /\ Len(todo["main"]) > 1 /\ todo["main"] \in Seq(TypedOps)
      /\ todo' = [todo EXCEPT !["main"] = Tail(Tail(todo["main"]))]
  BY EofList
<1>2. todo'["main"] = Tail(Tail(todo["main"]))
  BY <1>1 DEF ListTypes, Threads
<1> DEFINE q == todo["main"]
           r == Tail(Tail(q))
<1>3. /\ Len(r) = Len(q) - 2 /\ \A i \in 1 .. Len(q) - 2 : r[i] = q[i + 2]
      /\ Len(q) \in Nat
  BY <1>1, TailTail, LenProperties
<1> HIDE DEF q, r
<1>4. \A i \in 1 .. Len(r) : i + 2 \in 1 .. Len(q) /\ r[i] = q[i + 2]
  BY <1>3
<1>5. Members(r) \subseteq Members(q)
  BY <1>4 DEF Members
<1> QED
  BY <1>2, <1>5 DEF q, r

\* A thread that does not move keeps its standing or has it spoilt.
LEMMA StandingKept ==
  ASSUME Types, ListsOK, kind = "console", [ProcessNext]_processVars, proc' = "up", NEW t \in Threads,
         restored[t] \in {"done", "spoilt"}, ~Restore(t)
  PROVE  restored'[t] \in {"done", "spoilt"}
BY HistorySteps

LEMMA GuardedMoves ==
  ASSUME Types, WhoOK, ListsOK, kind = "console", [ProcessNext]_processVars, proc' = "up", NEW t \in Threads,
         Guarded(t), Moves(t), ~Restore(t), ~Restored(t), todo'[t] # todo[t]
  PROVE  Guarded(t)'
<1>1. proc = "up" /\ ListTypes
  BY UpBefore DEF Types
<1>2. PICK ops \in Seq(TypedOps) : /\ Expands(Head(todo[t]), ops) /\ todo'[t] = ops \o Tail(todo[t])
                                   /\ Members(todo'[t]) = Members(ops) \cup Members(Tail(todo[t]))
                                   /\ Members(todo[t]) = {Head(todo[t])} \cup Members(Tail(todo[t]))
  BY MovesList
<1>3. todo[t] \in Seq(TypedOps) /\ todo[t] # <<>>
  BY MovesList
<1>4. CASE restored[t] \in {"done", "spoilt"}
  BY <1>4, StandingKept DEF Guarded
<1>5. Head(todo[t]) \notin Restores
  <2>1. ~At(t, Call("restore"))
    BY AtRestore
  <2>2. ~At(t, Call("restored"))
    <3> SUFFICES ASSUME At(t, Call("restored")) PROVE FALSE
      OBVIOUS
    <3>1. ~Aside(t)
      BY OthersDiffer DEF Aside, At
    <3>2. RegStep(t)
      BY <1>3, <3>1, Doing
    <3> QED
      BY <3>2, Kinds DEF RegStep, Save, RegToggle, RegWrite, Restore, At, Writing
  <2> QED
    BY <1>1, <1>3, <2>1, <2>2 DEF At, Restores
<1>6. Head(todo[t]) \notin Finishes => Members(ops) \cap Finishes = {}
  BY <1>2, OpsHold DEF Finishes
<1>7. CASE Ahead(todo[t], Restores, Finishes)
  <2>1. Head(todo[t]) \notin Finishes
    BY <1>3, <1>5, <1>7, AheadReplaced
  <2>2. Ahead(ops \o Tail(todo[t]), Restores, Finishes)
    BY <1>3, <1>5, <1>6, <1>7, <2>1, AheadReplaced
  <2>3. Ahead(todo'[t], Restores, Finishes)
    BY <1>2, <2>2
  <2> QED
    BY <2>3 DEF Guarded, Ahead, Restores, Finishes, Call
<1>8. CASE Members(todo[t]) \cap Finishes = {}
  <2>1. Members(todo'[t]) \cap Finishes = {}
    BY <1>2, <1>6, <1>8
  <2> QED
    BY <2>1 DEF Guarded, Members, Finishes, Call
<1> QED
  BY <1>4, <1>7, <1>8 DEF Guarded

LEMMA GuardedStep ==
  ASSUME Types, WhoOK, FreshOK, ListsOK, GuardedOK, [ProcessNext]_processVars
  PROVE  GuardedOK'
<1>1. kind' = kind /\ "main" \in Threads /\ "ctrl" \in Threads /\ ListTypes /\ ReadOK
      /\ "main" \notin ApiThreads /\ "ctrl" \notin ApiThreads
  BY WhoMoves, MainIsRead, ProcessAssumption DEF Threads, Types, WhoOK
<1> SUFFICES ASSUME kind = "console", proc' = "up", NEW t \in {"main", "ctrl"}
             PROVE  Guarded(t)'
  BY <1>1 DEF GuardedOK
<1>2. proc = "up" /\ Guarded(t) /\ t \in Threads /\ t \notin ApiThreads /\ saved \in Saved
  BY <1>1, UpBefore DEF GuardedOK, Types, ValueTypes
<1>3. Ahead(todo'[t], Restores, Finishes) => Guarded(t)'
  BY DEF Guarded, Ahead, Restores, Finishes, Call
<1>4. Members(todo'[t]) \cap Finishes = {} => Guarded(t)'
  BY DEF Guarded, Members, Finishes, Call
<1>5. ASSUME NEW q, q[1] = Call("restore"), Len(q) \in Nat \ {0} PROVE Ahead(q, Restores, Finishes)
  <2>1. 1 \in 1 .. Len(q) /\ 1 .. 1 - 1 = {} /\ q[1] \in Restores
    BY <1>5 DEF Restores
  <2> QED
    BY <2>1 DEF Ahead
<1>6. CASE Restore(t)
  <2>1. At(t, Call("restore")) /\ Then(t, IF saved.have THEN RestoreBody ELSE <<>>)
    BY <1>6 DEF Restore
  <2>2. todo[t] # <<>> /\ todo[t] \in Seq(TypedOps) /\ Head(todo[t]) = Call("restore")
    BY <1>1, <1>2, <2>1, AtHead DEF ListTypes
  <2>3. saved.have
    <3> SUFFICES ASSUME ~saved.have PROVE FALSE
      OBVIOUS
    <3>1. main = ConsoleMain /\ \A u \in Threads \ {"main"} : todo[u] = <<>>
      BY <1>2 DEF FreshOK
    <3>2. t = "main" /\ todo[t] = ConsoleMain
      BY <1>2, <2>2, <3>1 DEF main
    <3> QED
      BY <2>2, <3>2, ConsoleBegins, Kinds
  <2>4. RestoreBody \in Seq(TypedOps) /\ Then(t, RestoreBody)
    BY <1>2, <2>1, <2>3, RestoreForms
  <2>5. todo'[t] = RestoreBody \o Tail(todo[t])
    BY <1>1, <1>2, <2>2, <2>4, ThenTypes
  <2>6. Ahead(RestoreBody, Restores, Finishes)
    <3> DEFINE w == RestoreBody
    <3>1. /\ Len(w) = 4 /\ w[4] = Call("restored") /\ \A i \in 1 .. 3 : w[i] \in Writes
      BY <1>2, RestoreForms
    <3> HIDE DEF w
    <3>2. 4 \in 1 .. Len(w) /\ w[4] \in Restores
      BY <3>1 DEF Restores
    <3>3. \A o \in Writes : o \notin Finishes
      BY Kinds DEF Finishes
    <3>4. \A j \in 1 .. 4 - 1 : w[j] \notin Finishes
      BY <3>1, <3>3
    <3>5. Ahead(w, Restores, Finishes)
      BY <3>2, <3>4 DEF Ahead
    <3> QED
      BY <3>5 DEF w
  <2>7. Ahead(RestoreBody \o Tail(todo[t]), Restores, Finishes)
    BY <2>2, <2>4, <2>6, AheadReplaced
  <2> QED
    BY <1>3, <2>5, <2>7
<1>7. CASE Restored(t)
  <2>1. At(t, Call("restored")) /\ restored' = [restored EXCEPT ![t] = IF @ = "going" THEN "done" ELSE @]
    BY <1>7 DEF Restored
  <2>2. Call("restored") \in Members(todo[t])
    BY <1>1, <1>2, <2>1, AtHead, HeadIsTyped
  <2>3. restored[t] # "no"
    BY <1>2, <2>2 DEF ListsOK, BegunOK
  <2>4. restored'[t] \in {"done", "spoilt"}
    BY <1>2, <2>1, <2>3 DEF Types, ValueTypes
  <2> QED
    BY <2>4 DEF Guarded
<1>8. CASE ~Restore(t) /\ ~Restored(t)
  <2>1. CASE restored[t] \in {"done", "spoilt"}
    BY <1>2, <1>8, <2>1, StandingKept DEF Guarded
  <2>2. CASE todo'[t] = todo[t] /\ restored[t] \notin {"done", "spoilt"}
    <3>1. Ahead(todo[t], Restores, Finishes) \/ Members(todo[t]) \cap Finishes = {}
      BY <1>2, <2>2 DEF Guarded
    <3>2. Ahead(todo'[t], Restores, Finishes) \/ Members(todo'[t]) \cap Finishes = {}
      BY <2>2, <3>1
    <3> QED
      BY <1>3, <1>4, <3>2
  <2>3. CASE Moves(t) /\ todo'[t] # todo[t]
    BY <1>2, <1>8, <2>3, GuardedMoves
  <2>4. CASE todo'[t] = AfterNoBind
    <3>1. AfterNoBind = <<Call("restore"), Call("exit")>>
      BY NoBindList
    <3>2. todo'[t][1] = Call("restore") /\ Len(todo'[t]) \in Nat \ {0}
      BY <2>4, <3>1
    <3> QED
      BY <1>3, <1>5, <3>2
  <2>5. ASSUME NEW k, todo'[t] = EventBody(k) PROVE Guarded(t)'
    <3>1. \/ todo'[t] = <<Call("restore"), Stop("api"), Stop("server")>>
          \/ todo'[t] = <<Call("restore"), Stop("api"), Stop("server"), Call("end")>>
      BY <2>5, EventForms
    <3>2. todo'[t][1] = Call("restore") /\ Len(todo'[t]) \in Nat \ {0}
      BY <3>1
    <3> QED
      BY <1>3, <1>5, <3>2
  <2>6. CASE t = "main" /\ CliEof("main") /\ restored[t] \notin {"done", "spoilt"}
    <3>1. todo'[t] = Tail(Tail(todo[t])) /\ Members(todo'[t]) \subseteq Members(todo[t])
      BY <1>1, <2>6, EofMembers
    <3>2. CASE Members(todo[t]) \cap Finishes = {}
      BY <1>4, <3>1, <3>2
    <3>3. CASE Ahead(todo[t], Restores, Finishes)
      <4>1. /\ Len(todo[t]) > 1 /\ todo[t] \in Seq(TypedOps)
            /\ todo[t][1] = Call("read") /\ todo[t][2] = Call("cli")
        BY <1>1, <2>6, EofList
      <4>2. todo[t][1] \notin Restores /\ todo[t][2] \notin Restores
        BY <4>1, Kinds DEF Restores
      <4>3. Ahead(Tail(Tail(todo[t])), Restores, Finishes)
        BY <3>3, <4>1, <4>2, AheadTail
      <4> QED
        BY <1>3, <3>1, <4>3
    <3> QED
      BY <1>2, <2>6, <3>2, <3>3 DEF Guarded
  <2> QED
    BY <1>2, <2>1, <2>2, <2>3, <2>4, <2>5, <2>6, ListSteps
<1> QED
  BY <1>6, <1>7, <1>8

-----------------------------------------------------------------------------
\* What a process that has ended leaves.
EndedOK == Ended /\ kind = "console" /\ ~Spoilt => saved.have /\ BackTo(5)

LEMMA EndedStep ==
  ASSUME Types, WhoOK, FreshOK, ProgressOK, GuardedOK, EndedOK, [ProcessNext]_processVars
  PROVE  EndedOK'
<1>1. kind' = kind /\ "main" \in Threads /\ "ctrl" \in Threads /\ ListTypes
      /\ Threads = {"main", "ctrl"} \cup ApiThreads
  BY WhoMoves DEF Threads, Types
<1> SUFFICES ASSUME proc' = "gone", kind = "console", ~Spoilt' PROVE saved'.have /\ BackTo(5)'
  BY <1>1 DEF EndedOK, Ended
<1>2. CASE proc # "up"
  <2>1. UNCHANGED processVars
    BY <1>2, Dead
  <2>2. UNCHANGED <<reg, saved, proc, kind, seen, restored>>
    BY <2>1 DEF processVars, lifeVars, regVars, histVars
  <2>3. saved.have /\ BackTo(5)
    <3>1. ~Spoilt
      BY <2>2 DEF Spoilt
    <3> QED
      BY <2>2, <3>1 DEF EndedOK, Ended
  <2> QED
    BY <2>2, <2>3 DEF BackTo, EnableBack, ServerBack, OverrideBack
<1>3. CASE proc = "up"
  <2>1. PICK t \in Threads : End(t)
    BY <1>3, WhoEnds DEF JoinTwice, DestroyThread, Abort
  <2>2. UNCHANGED <<reg, saved, seen, restored>>
    BY <2>1 DEF End, regVars, histVars
  <2>3. todo[t] # <<>> /\ Head(todo[t]) = Call("end") /\ todo[t] \in Seq(TypedOps)
        /\ Head(todo[t]) \in Members(todo[t])
    BY <1>1, <2>1, AtHead, HeadIsTyped DEF End
  <2>4. t \in {"main", "ctrl"}
    <3>1. Call("end") \notin ApiOps
      BY Kinds DEF ApiOps
    <3>2. t \notin ApiThreads
      BY <2>3, <3>1 DEF WhoOK, ApiOK
    <3> QED
      BY <1>1, <3>2
  <2>5. Guarded(t)
    BY <1>3, <2>4 DEF GuardedOK
  <2>6. Call("end") \notin Restores /\ Call("end") \in Finishes
    BY Kinds DEF Restores, Finishes
  <2>7. restored[t] \in {"done", "spoilt"}
    <3>1. ~Ahead(todo[t], Restores, Finishes)
      BY <2>3, <2>6, AheadReplaced
    <3>2. Members(todo[t]) \cap Finishes # {}
      BY <2>3, <2>6
    <3> QED
      BY <2>5, <3>1, <3>2 DEF Guarded
  <2>8. PICK u \in Threads : restored[u] = "done"
    BY <2>2, <2>7 DEF Spoilt
  <2>9. BackTo(5) /\ saved.have
    BY <1>3, <2>8 DEF ProgressOK, FreshOK
  <2> QED
    BY <2>2, <2>9 DEF BackTo, EnableBack, ServerBack, OverrideBack
<1> QED
  BY <1>2, <1>3

\* The inductive invariant of the restores, relative to Invariant.
RestoreInv ==
    /\ FreshOK /\ SavedOK /\ ListsOK /\ QuitOK
    /\ kind = "console" /\ proc = "up" => ExitLast
    /\ ProgressOK /\ GuardedOK /\ EndedOK

LEMMA RestoreInit == ASSUME ProcessInit PROVE RestoreInv
<1>1. /\ main = Main[kind] /\ \A t \in Threads \ {"main"} : todo[t] = <<>>
      /\ "main" \in Threads /\ "ctrl" \in Threads /\ "ctrl" # "main"
      /\ ~saved.have /\ reg = found /\ proc = "up" /\ \A t \in Threads : restored[t] = "no"
      /\ "main" \notin ApiThreads /\ ApiThreads \subseteq Threads
  BY ProcessAssumption DEF ProcessInit, Begun, Threads, NotSaved, main
<1>2. kind = "console" => main = ConsoleMain
  BY <1>1 DEF Main
<1>3. Members(<<>>) = {}
  BY DEF Members
<1> DEFINE a == Call("init")
           b == Call("start")
           c == Call("api_start")
           d == Call("cli")
           e == Stop("api")
           f == Call("restore")
           g == Call("exit")
<1>4. ConsoleMain = <<a, b, c, d, e, f, g>>
  BY DEF ConsoleMain
<1>5. a \notin Finishes /\ b \notin Finishes /\ c \notin Finishes /\ d \notin Finishes /\ e \notin Finishes
      /\ f \in Restores
  BY Kinds DEF Finishes, Restores
<1> HIDE DEF a, b, c, d, e, f, g
<1>6. ConsoleMain[Len(ConsoleMain)] = g
  BY <1>4
<1>7. Ahead(ConsoleMain, Restores, Finishes)
  <2>1. /\ Len(ConsoleMain) = 7 /\ ConsoleMain[6] = f
        /\ ConsoleMain[1] = a /\ ConsoleMain[2] = b /\ ConsoleMain[3] = c /\ ConsoleMain[4] = d
        /\ ConsoleMain[5] = e
    BY <1>4
  <2>2. \A j \in 1 .. 6 - 1 : ConsoleMain[j] \notin Finishes
    <3> SUFFICES ASSUME NEW j \in 1 .. 6 - 1 PROVE ConsoleMain[j] \notin Finishes
      OBVIOUS
    <3>1. j = 1 \/ j = 2 \/ j = 3 \/ j = 4 \/ j = 5
      OBVIOUS
    <3> QED
      BY <1>5, <2>1, <3>1
  <2>3. 6 \in 1 .. Len(ConsoleMain) /\ ConsoleMain[6] \in Restores
    BY <1>5, <2>1
  <2> QED
    BY <2>2, <2>3 DEF Ahead
<1>8. FreshOK /\ SavedOK /\ ProgressOK /\ EndedOK
  BY <1>1, <1>2 DEF FreshOK, SavedOK, ProgressOK, EndedOK, Ended
<1>9. ListsOK
  <2> SUFFICES ASSUME kind = "console" PROVE WritesOK /\ BegunOK /\ CalmOK
    BY DEF ListsOK
  <2>1. \A t \in Threads : Members(todo[t]) \cap Writes = {} /\ Call("restored") \notin Members(todo[t])
    <3> SUFFICES ASSUME NEW t \in Threads
                 PROVE  Members(todo[t]) \cap Writes = {} /\ Call("restored") \notin Members(todo[t])
      OBVIOUS
    <3>1. CASE t = "main"
      <4>1. todo[t] = ConsoleMain
        BY <1>2, <3>1 DEF main
      <4> QED
        BY <4>1, ConsoleBegins
    <3>2. CASE t # "main"
      BY <1>1, <1>3, <3>2
    <3> QED
      BY <3>1, <3>2
  <2> QED
    BY <1>1, <2>1 DEF WritesOK, BegunOK, CalmOK
<1>10. QuitOK
  BY <1>1, <1>2, ConsoleBegins DEF QuitOK, Past
<1>11. kind = "console" => ExitLast
  BY <1>2, <1>6 DEF ExitLast, g
<1>12. GuardedOK
  <2>1. todo["ctrl"] = <<>>
    BY <1>1
  <2>2. kind = "console" => todo["main"] = ConsoleMain
    BY <1>2 DEF main
  <2> QED
    BY <1>3, <1>7, <2>1, <2>2 DEF GuardedOK, Guarded
<1> QED
  BY <1>8, <1>9, <1>10, <1>11, <1>12 DEF RestoreInv

LEMMA RestoreStep ==
  ASSUME Invariant, RestoreInv, [ProcessNext]_processVars
  PROVE  RestoreInv'
<1>1. Types /\ WhoOK
  BY DEF Invariant
<1>2. FreshOK' /\ SavedOK' /\ ListsOK' /\ QuitOK' /\ ProgressOK' /\ GuardedOK' /\ EndedOK'
  BY <1>1, FreshStep, ListsStep, QuitStep, ProgressStep, GuardedStep, EndedStep DEF RestoreInv
<1>3. ASSUME kind' = "console", proc' = "up" PROVE ExitLast'
  <2>1. kind = "console" /\ proc = "up"
    BY <1>1, <1>3, WhoMoves, UpBefore
  <2> QED
    BY <1>1, <1>3, <2>1, ExitLastStep DEF RestoreInv
<1> QED
  BY <1>2, <1>3 DEF RestoreInv

LEMMA RestoreCorrect == ProcessSpec => []RestoreInv
<1>1. ProcessInit => RestoreInv
  BY RestoreInit
<1>2. Invariant /\ RestoreInv /\ [ProcessNext]_processVars => RestoreInv'
  BY RestoreStep
<1> QED
  BY <1>1, <1>2, InvariantCorrect, PTL DEF ProcessSpec

\* What a console process leaves once a restore() is done that no toggle has
\* overlapped or followed.
LEMMA ReadAsFound ==
  ASSUME RestoreInv, Types, Ended, kind = "console", ~Spoilt
  PROVE  /\ AsFound("server") /\ AsFound("override")
         /\ reg.enable \in {found.enable, "off"}
         /\ seen \subseteq {"quit"} => reg.enable = found.enable
<1>1. saved.have /\ EnableBack /\ ServerBack /\ OverrideBack
  BY DEF RestoreInv, EndedOK, BackTo
<1>2. /\ saved.enable = found.enable /\ saved.server = ReadText(found.server)
      /\ saved.override = ReadText(found.override)
  BY <1>1 DEF RestoreInv, SavedOK
<1>3. reg.server = ReadText(found.server) /\ reg.override = ReadText(found.override)
  BY <1>1, <1>2 DEF ServerBack, OverrideBack
<1>4. AsFound("server") /\ AsFound("override")
  BY <1>3 DEF AsFound, ReadText
<1> QED
  BY <1>1, <1>2, <1>4 DEF EnableBack

\* The server and the bypass list come back where they could be read, and no
\* proxy is switched on that was off (ServerRestored), whatever exit a console
\* process takes and however the threads of console events and of the API come
\* between its steps: once a thread is in its restore(), every write of
\* another puts back the same or switches off, and a toggle is seen as one.
\* A text longer than the buffer of init() is not read, and not promised.
THEOREM ServerRestoredCorrect == ProcessSpec => []ServerRestored
<1>1. Invariant /\ RestoreInv => ServerRestored
  BY ReadAsFound DEF ServerRestored, Invariant
<1> QED
  BY <1>1, InvariantCorrect, RestoreCorrect, PTL

\* After quit, or a failed start, the switch is as it was found as well
\* (QuitRestores): when main has left its loop, nobody is left to stop the
\* server, so no write of stop() comes after those of restore().  As above,
\* texts longer than the buffer are not promised.
THEOREM QuitRestoresCorrect == ProcessSpec => []QuitRestores
<1>1. Invariant /\ RestoreInv => QuitRestores
  BY ReadAsFound DEF QuitRestores, Invariant
<1> QED
  BY <1>1, InvariantCorrect, RestoreCorrect, PTL

-----------------------------------------------------------------------------
(* Toggles come in the order of enable().                                  *)

EnableOn == Toggle("enable", "on")
ServerToggles == {Toggle("server", p) : p \in Ports}
Whole == Toggle("override", "rift")
Enables == {EnableOn, Whole} \cup ServerToggles

\* What enable() writes is written in its order and to its end.
Orderly(q) ==
    \A i \in 1 .. Len(q) :
       /\ q[i] = EnableOn => i < Len(q) /\ q[i + 1] \in ServerToggles
       /\ q[i] \in ServerToggles => i < Len(q) /\ q[i + 1] = Whole
       /\ q[i] = Whole /\ i > 1 => q[i - 1] \in ServerToggles

LEMMA EnablesDiffer ==
  /\ EnableOn \notin ServerToggles /\ Whole \notin ServerToggles /\ EnableOn # Whole
  /\ Toggle("enable", "off") \notin Enables
  /\ \A o \in Enables : o[1] = "toggle"
<1>1. \A o \in ServerToggles : o[1] = "toggle" /\ o[2] = "server"
  BY DEF ServerToggles, Toggle
<1>2. EnableOn[2] = "enable" /\ Whole[2] = "override" /\ EnableOn[1] = "toggle" /\ Whole[1] = "toggle"
      /\ EnableOn[3] = "on"
  BY DEF EnableOn, Whole, Toggle
<1>3. Toggle("enable", "off")[2] = "enable" /\ Toggle("enable", "off")[3] = "off"
  BY DEF Toggle
<1> QED
  BY <1>1, <1>2, <1>3 DEF Enables

LEMMA OrderlyReplaced ==
  ASSUME NEW q \in Seq(TypedOps), q # <<>>, NEW ops \in Seq(TypedOps), Orderly(q), Orderly(ops),
         ops = <<>> \/ q[1] \notin ServerToggles
  PROVE  Orderly(ops \o Tail(q))
<1> DEFINE w == ops \o Tail(q)
           k == Len(ops)
           n == Len(q)
<1>1. /\ n \in Nat \ {0} /\ k \in Nat /\ Len(w) = k + n - 1
      /\ \A i \in 1 .. k : w[i] = ops[i]
      /\ \A i \in 2 .. n : w[k + i - 1] = q[i]
  BY Replaced
<1>2. ops = <<>> => k = 0
  OBVIOUS
<1>3. /\ \A i \in 1 .. k : /\ ops[i] = EnableOn => i < k /\ ops[i + 1] \in ServerToggles
                           /\ ops[i] \in ServerToggles => i < k /\ ops[i + 1] = Whole
                           /\ ops[i] = Whole /\ i > 1 => ops[i - 1] \in ServerToggles
      /\ \A i \in 1 .. n : /\ q[i] = EnableOn => i < n /\ q[i + 1] \in ServerToggles
                           /\ q[i] \in ServerToggles => i < n /\ q[i + 1] = Whole
                           /\ q[i] = Whole /\ i > 1 => q[i - 1] \in ServerToggles
  BY DEF Orderly
<1>4. SUFFICES ASSUME NEW i \in 1 .. Len(w)
               PROVE  /\ w[i] = EnableOn => i < Len(w) /\ w[i + 1] \in ServerToggles
                      /\ w[i] \in ServerToggles => i < Len(w) /\ w[i + 1] = Whole
                      /\ w[i] = Whole /\ i > 1 => w[i - 1] \in ServerToggles
  BY DEF Orderly
<1> HIDE DEF w, k, n
<1>5. CASE i <= k
  <2>1. i \in 1 .. k /\ w[i] = ops[i] /\ k <= Len(w)
    BY <1>1, <1>5
  <2>2. (i < k => i < Len(w) /\ w[i + 1] = ops[i + 1]) /\ (i > 1 => w[i - 1] = ops[i - 1])
    BY <1>1, <1>5
  <2> QED
    BY <1>3, <2>1, <2>2
<1>6. CASE i > k
  <2> DEFINE j == i - k + 1
  <2>1. j \in 2 .. n /\ k + j - 1 = i
    BY <1>1, <1>6
  <2>2. w[i] = q[j]
    BY <1>1, <2>1
  <2>3. j < n => i < Len(w) /\ w[i + 1] = q[j + 1]
    <3> SUFFICES ASSUME j < n PROVE i < Len(w) /\ w[i + 1] = q[j + 1]
      OBVIOUS
    <3>1. j + 1 \in 2 .. n /\ k + (j + 1) - 1 = i + 1 /\ i < Len(w)
      BY <1>1, <1>6
    <3> QED
      BY <1>1, <3>1
  <2>4. j > 2 => w[i - 1] = q[j - 1]
    <3> SUFFICES ASSUME j > 2 PROVE w[i - 1] = q[j - 1]
      OBVIOUS
    <3>1. j - 1 \in 2 .. n /\ k + (j - 1) - 1 = i - 1
      BY <1>1, <2>1
    <3> QED
      BY <1>1, <3>1
  <2>5. j = 2 => i = k + 1 /\ q[j - 1] = q[1]
    BY <1>1
  <2> HIDE DEF j
  <2>6. j \in 1 .. n /\ j > 1
    BY <1>1, <2>1
  <2>7. /\ q[j] = EnableOn => j < n /\ q[j + 1] \in ServerToggles
        /\ q[j] \in ServerToggles => j < n /\ q[j + 1] = Whole
        /\ q[j] = Whole => q[j - 1] \in ServerToggles
    BY <1>3, <2>6
  <2>8. ASSUME w[i] = Whole, i > 1 PROVE w[i - 1] \in ServerToggles
    <3>1. q[j - 1] \in ServerToggles
      BY <2>2, <2>7, <2>8
    <3>2. CASE j = 2
      BY <1>1, <1>2, <2>5, <2>8, <3>1, <3>2
    <3>3. CASE j # 2
      BY <2>1, <2>4, <3>1, <3>3
    <3> QED
      BY <3>2, <3>3
  <2> QED
    BY <2>2, <2>3, <2>7, <2>8
<1> QED
  BY <1>1, <1>5, <1>6

LEMMA OrderlyTail ==
  ASSUME NEW q \in Seq(TypedOps), Len(q) > 1, Orderly(q)
  PROVE  Orderly(Tail(Tail(q)))
<1> DEFINE r == Tail(Tail(q))
           n == Len(q)
<1>1. n \in Nat /\ Len(r) = n - 2 /\ \A i \in 1 .. n - 2 : r[i] = q[i + 2]
  BY TailTail, LenProperties
<1>2. \A i \in 1 .. n : /\ q[i] = EnableOn => i < n /\ q[i + 1] \in ServerToggles
                        /\ q[i] \in ServerToggles => i < n /\ q[i + 1] = Whole
                        /\ q[i] = Whole /\ i > 1 => q[i - 1] \in ServerToggles
  BY DEF Orderly
<1>3. SUFFICES ASSUME NEW i \in 1 .. Len(r)
               PROVE  /\ r[i] = EnableOn => i < Len(r) /\ r[i + 1] \in ServerToggles
                      /\ r[i] \in ServerToggles => i < Len(r) /\ r[i + 1] = Whole
                      /\ r[i] = Whole /\ i > 1 => r[i - 1] \in ServerToggles
  BY DEF Orderly
<1> HIDE DEF r, n
<1> DEFINE j == i + 2
<1>4. /\ j \in 1 .. n /\ j > 1 /\ r[i] = q[j]
      /\ j < n => i < Len(r) /\ r[i + 1] = q[j + 1]
      /\ i > 1 => r[i - 1] = q[j - 1]
  <2>1. j \in 1 .. n /\ j > 1 /\ r[i] = q[j] /\ (j < n => i < Len(r))
    BY <1>1
  <2>2. j < n => r[i + 1] = q[j + 1]
    <3> SUFFICES ASSUME j < n PROVE r[i + 1] = q[j + 1]
      OBVIOUS
    <3>1. i + 1 \in 1 .. n - 2 /\ (i + 1) + 2 = j + 1
      BY <1>1
    <3> QED
      BY <1>1, <3>1
  <2>3. i > 1 => r[i - 1] = q[j - 1]
    <3> SUFFICES ASSUME i > 1 PROVE r[i - 1] = q[j - 1]
      OBVIOUS
    <3>1. i - 1 \in 1 .. n - 2 /\ (i - 1) + 2 = j - 1
      BY <1>1
    <3> QED
      BY <1>1, <3>1
  <2> QED
    BY <2>1, <2>2, <2>3
<1> HIDE DEF j
<1> QED
  BY <1>2, <1>4

LEMMA NoEnables ==
  ASSUME NEW q, Members(q) \cap Enables = {}
  PROVE  Orderly(q)
BY DEF Orderly, Members, Enables

\* The lists that enable() builds, alone and in start().
LEMMA OrderlyForms ==
  ASSUME NEW i, NEW e, NEW s \in ServerToggles, NEW w, NEW c, NEW a, e = EnableOn, w = Whole,
         i \notin Enables, c \notin Enables, a \notin Enables
  PROVE  /\ \A q \in {<<e, s, w>>, <<i, e, s, w>>, <<e, s, w, c, a>>, <<i, e, s, w, c, a>>} :
               Orderly(q) /\ q[1] # Whole
<1>1. /\ e \notin ServerToggles /\ w \notin ServerToggles /\ e # w /\ s # e /\ s # w
      /\ i # e /\ i # w /\ i \notin ServerToggles
      /\ c # e /\ c # w /\ c \notin ServerToggles
      /\ a # e /\ a # w /\ a \notin ServerToggles
  BY EnablesDiffer DEF Enables
<1>2. Orderly(<<e, s, w>>)
  <2> DEFINE q == <<e, s, w>>
  <2>1. Len(q) = 3 /\ q[1] = e /\ q[2] = s /\ q[3] = w
    OBVIOUS
  <2> HIDE DEF q
  <2>2. \A j \in 1 .. Len(q) : j = 1 \/ j = 2 \/ j = 3
    BY <2>1
  <2>3. Orderly(q)
    BY <1>1, <2>1, <2>2 DEF Orderly
  <2> QED
    BY <2>3 DEF q
<1>3. Orderly(<<i, e, s, w>>)
  <2> DEFINE q == <<i, e, s, w>>
  <2>1. Len(q) = 4 /\ q[1] = i /\ q[2] = e /\ q[3] = s /\ q[4] = w
    OBVIOUS
  <2> HIDE DEF q
  <2>2. \A j \in 1 .. Len(q) : j = 1 \/ j = 2 \/ j = 3 \/ j = 4
    BY <2>1
  <2>3. Orderly(q)
    BY <1>1, <2>1, <2>2 DEF Orderly
  <2> QED
    BY <2>3 DEF q
<1>4. Orderly(<<e, s, w, c, a>>)
  <2> DEFINE q == <<e, s, w, c, a>>
  <2>1. Len(q) = 5 /\ q[1] = e /\ q[2] = s /\ q[3] = w /\ q[4] = c /\ q[5] = a
    OBVIOUS
  <2> HIDE DEF q
  <2>2. \A j \in 1 .. Len(q) : j = 1 \/ j = 2 \/ j = 3 \/ j = 4 \/ j = 5
    BY <2>1
  <2>3. Orderly(q)
    BY <1>1, <2>1, <2>2 DEF Orderly
  <2> QED
    BY <2>3 DEF q
<1>5. Orderly(<<i, e, s, w, c, a>>)
  <2> DEFINE q == <<i, e, s, w, c, a>>
  <2>1. Len(q) = 6 /\ q[1] = i /\ q[2] = e /\ q[3] = s /\ q[4] = w /\ q[5] = c /\ q[6] = a
    OBVIOUS
  <2> HIDE DEF q
  <2>2. \A j \in 1 .. Len(q) : j = 1 \/ j = 2 \/ j = 3 \/ j = 4 \/ j = 5 \/ j = 6
    BY <2>1
  <2>3. Orderly(q)
    BY <1>1, <2>1, <2>2 DEF Orderly
  <2> QED
    BY <2>3 DEF q
<1>6. /\ <<e, s, w>>[1] = e /\ <<i, e, s, w>>[1] = i
      /\ <<e, s, w, c, a>>[1] = e /\ <<i, e, s, w, c, a>>[1] = i
  OBVIOUS
<1> QED
  BY <1>1, <1>2, <1>3, <1>4, <1>5, <1>6

LEMMA EnableOrderly ==
  ASSUME Types
  PROVE  /\ Orderly(Enable(conf.port)) /\ Enable(conf.port)[1] # Whole
         /\ LET ops == (IF conf.sysproxy THEN Enable(conf.port) ELSE <<>>)
                       \o <<Call("start_checker"), Call("start_accept")>>
            IN  Orderly(ops) /\ ops[1] # Whole
<1>1. saved \in Saved /\ conf.port \in Ports /\ conf.sysproxy \in BOOLEAN
  BY DEF Types, ValueTypes, ConfigFile
<1> DEFINE i == Call("init")
           e == Toggle("enable", "on")
           s == Toggle("server", conf.port)
           w == Toggle("override", "rift")
           c == Call("start_checker")
           a == Call("start_accept")
           ops == (IF conf.sysproxy THEN Enable(conf.port) ELSE <<>>)
                  \o <<Call("start_checker"), Call("start_accept")>>
<1>2. i \notin Enables /\ c \notin Enables /\ a \notin Enables
  BY EnablesDiffer, Kinds
<1>3. s \in ServerToggles /\ e = EnableOn /\ w = Whole
  BY <1>1 DEF ServerToggles, EnableOn, Whole
<1>4. Enable(conf.port) \in {<<e, s, w>>, <<i, e, s, w>>}
  BY <1>1, EnableForms
<1>5. ops \in {<<c, a>>, <<e, s, w, c, a>>, <<i, e, s, w, c, a>>}
  BY <1>1, StartForms
<1> HIDE DEF i, e, s, w, c, a, ops
<1>6. /\ \A q \in {<<e, s, w>>, <<i, e, s, w>>, <<e, s, w, c, a>>, <<i, e, s, w, c, a>>} :
            Orderly(q) /\ q[1] # Whole
  BY <1>2, <1>3, OrderlyForms
<1>7. Orderly(<<c, a>>) /\ <<c, a>>[1] # Whole
  <2>1. Members(<<c, a>>) = {c, a}
    BY DEF Members
  <2>2. c # Whole
    BY <1>2 DEF Enables
  <2> QED
    BY <1>2, <2>1, <2>2, NoEnables
<1>8. Orderly(Enable(conf.port)) /\ Enable(conf.port)[1] # Whole
  BY <1>4, <1>6
<1>9. Orderly(ops) /\ ops[1] # Whole
  BY <1>5, <1>6, <1>7
<1> QED
  BY <1>8, <1>9 DEF ops

\* Whatever an operation leads to is in order, and no write of enable() leads
\* to anything.
LEMMA ExpandsOrderly ==
  ASSUME Types, NEW op, NEW ops, Expands(op, ops)
  PROVE  /\ Orderly(ops)
         /\ ops # <<>> => ops[1] # Whole /\ op \notin Enables
<1>1. saved \in Saved
  BY DEF Types, ValueTypes
<1>2. ops # <<>> => op \notin Enables
  <2>1. CASE op \in Plain /\ ops = <<>>
    BY <2>1
  <2>2. CASE \/ op \in {Call("restore"), Call("start"), Call("stop_disable"), Call("cli"), Call("read"), Call("exit")}
             \/ \E x \in Services : op = Stop(x)
    <3>1. op[1] # "toggle"
      BY <2>2, Kinds
    <3> QED
      BY <3>1, EnablesDiffer
  <2> QED
    BY <2>1, <2>2 DEF Expands
<1>3. CASE op = Call("start")
  <2>1. op \notin Plain /\ op \notin {Call("restore"), Call("stop_disable"), Call("cli"), Call("read"), Call("exit")}
        /\ \A x \in Services : op # Stop(x)
    BY <1>3, Kinds DEF Plain
  <2>2. ops = (IF conf.sysproxy THEN Enable(conf.port) ELSE <<>>)
              \o <<Call("start_checker"), Call("start_accept")>>
    BY <2>1 DEF Expands
  <2> QED
    BY <1>2, <2>2, EnableOrderly
<1>4. CASE ops = Enable(conf.port)
  BY <1>2, <1>4, EnableOrderly
<1>5. ASSUME Members(ops) \cap Enables = {}, ops \in Seq(TypedOps)
      PROVE  Orderly(ops) /\ (ops # <<>> => ops[1] # Whole /\ op \notin Enables)
  <2>1. ops # <<>> => ops[1] \in Members(ops)
    BY <1>5, EmptySeq, LenProperties DEF Members
  <2> QED
    BY <1>2, <1>5, <2>1, NoEnables DEF Enables
<1>6. ops \in Seq(TypedOps)
  BY ExpandsTyped
<1>7. CASE ops # Enable(conf.port) /\ op # Call("start")
  <2>1. \A o \in Members(ops) : o \notin Enables
    <3>1. CASE ops \in {<<>>, RestoreBody, ExitBody, <<Stop("server")>>, <<Write("enable", "off")>>,
                        <<Call("read"), Call("cli")>>}
      <4>1. \A o \in Members(ops) : o[1] # "toggle"
        BY <1>1, <3>1, BodyMembers, Kinds
      <4> QED
        BY <4>1, EnablesDiffer
    <3>2. CASE ops = Disable
      BY <1>1, <3>2, BodyMembers, EnablesDiffer
    <3>3. ASSUME NEW x \in Services, ops = StopBody(x) PROVE \A o \in Members(ops) : o \notin Enables
      <4>1. \A o \in Members(ops) : o[1] # "toggle"
        <5>1. CASE x = "server"
          BY <1>1, <3>3, <5>1, BodyMembers, Kinds
        <5>2. CASE x = "api"
          BY <1>1, <3>3, <5>2, BodyMembers, Kinds
        <5>3. CASE x = "checker"
          BY <1>1, <3>3, <5>3, BodyMembers, Kinds
        <5> QED
          BY <5>1, <5>2, <5>3 DEF Services
      <4> QED
        BY <4>1, EnablesDiffer
    <3>4. \/ ops \in {<<>>, RestoreBody, ExitBody, <<Stop("server")>>, <<Write("enable", "off")>>,
                      <<Call("read"), Call("cli")>>}
          \/ ops = Disable \/ \E x \in Services : ops = StopBody(x)
      BY <1>7 DEF Expands
    <3> QED
      BY <3>1, <3>2, <3>3, <3>4
  <2> QED
    BY <1>5, <1>6, <2>1
<1> QED
  BY <1>3, <1>4, <1>7

\* Lists that come from nowhere are in order, and do not begin with the last
\* write of enable().
LEMMA FreshLists ==
  ASSUME Types
  PROVE  /\ \A q \in {AfterNoBind, Disable, Enable(conf.port), Main[kind]} : Orderly(q) /\ q[1] # Whole
         /\ \A k : Orderly(EventBody(k)) /\ EventBody(k)[1] # Whole
         /\ \A q \in {AfterNoBind, Disable, ConsoleMain, ServiceMain} : Members(q) \cap Enables = {}
         /\ Members(Main[kind]) \cap Writes = {}
<1>1. saved \in Saved /\ kind \in {"console", "service"}
  BY DEF Types, ValueTypes
<1>2. ASSUME NEW q \in Seq(TypedOps), q # <<>>, Members(q) \cap Enables = {} PROVE Orderly(q) /\ q[1] # Whole
  <2>1. q[1] \in Members(q)
    BY <1>2, EmptySeq, LenProperties DEF Members
  <2> QED
    BY <1>2, <2>1, NoEnables DEF Enables
<1>3. ASSUME NEW q, \A o \in Members(q) : o[1] # "toggle" PROVE Members(q) \cap Enables = {}
  BY <1>3, EnablesDiffer
<1> DEFINE a == Call("init")
           b == Call("start")
           c == Call("api_start")
           d == Call("cli")
           e == Stop("api")
           f == Call("restore")
           g == Call("exit")
           h == Call("wait")
           k == Stop("server")
           n == Call("end")
<1>4. \A o \in {a, b, c, d, e, f, g, h, k, n} : o[1] # "toggle" /\ o[1] # "write"
  BY Kinds
<1>5. /\ ConsoleMain = <<a, b, c, d, e, f, g>> /\ ServiceMain = <<b, c, h, e, k, g>>
      /\ AfterNoBind = <<f, g>> \/ AfterNoBind = <<g>>
  BY DEF ConsoleMain, ServiceMain, AfterNoBind
<1>6. \A j : EventBody(j) = <<f, e, k>> \/ EventBody(j) = <<f, e, k, n>>
  BY EventForms
<1>7. /\ ConsoleMain \in Seq(TypedOps) /\ ServiceMain \in Seq(TypedOps) /\ AfterNoBind \in Seq(TypedOps)
      /\ Disable \in Seq(TypedOps) /\ \A j : EventBody(j) \in Seq(TypedOps)
  BY <1>1, BodyTypes, EventForms
<1> HIDE DEF a, b, c, d, e, f, g, h, k, n
<1>8. \A q \in {<<a, b, c, d, e, f, g>>, <<b, c, h, e, k, g>>, <<f, g>>, <<g>>, <<f, e, k>>, <<f, e, k, n>>} :
         q # <<>> /\ Members(q) \subseteq {a, b, c, d, e, f, g, h, k, n}
  BY DEF Members
<1>9. \A q \in {ConsoleMain, ServiceMain, AfterNoBind} :
         q # <<>> /\ Members(q) \subseteq {a, b, c, d, e, f, g, h, k, n}
  BY <1>5, <1>8
<1>10. \A q \in {ConsoleMain, ServiceMain, AfterNoBind} : Members(q) \cap Enables = {}
  BY <1>3, <1>4, <1>9
<1>11. \A q \in {ConsoleMain, ServiceMain, AfterNoBind} : Orderly(q) /\ q[1] # Whole
  BY <1>2, <1>7, <1>9, <1>10
<1>12. Members(Disable) \cap Enables = {} /\ Disable # <<>>
  BY <1>1, BodyMembers, EnablesDiffer DEF Disable
<1>13. Orderly(Disable) /\ Disable[1] # Whole
  BY <1>2, <1>7, <1>12
<1>14. ASSUME NEW j PROVE Orderly(EventBody(j)) /\ EventBody(j)[1] # Whole
  <2>1. EventBody(j) # <<>> /\ Members(EventBody(j)) \subseteq {a, b, c, d, e, f, g, h, k, n}
    BY <1>6, <1>8
  <2>2. Members(EventBody(j)) \cap Enables = {}
    BY <1>3, <1>4, <2>1
  <2> QED
    BY <1>2, <1>7, <2>1, <2>2
<1>15. Main[kind] \in {ConsoleMain, ServiceMain}
  BY <1>1 DEF Main
<1>16. \A q \in {ConsoleMain, ServiceMain} : Members(q) \cap Writes = {}
  BY <1>4, <1>9, Kinds
<1> QED
  BY <1>10, <1>11, <1>12, <1>13, <1>14, <1>15, <1>16, EnableOrderly

\* Nobody but its thread takes a toggle off a list.
LEMMA TogglesStay ==
  ASSUME Types, WhoOK, [ProcessNext]_processVars, proc' = "up", NEW t \in Threads,
         NEW o \in Members(todo[t]), o \in Enables, o \notin Members(todo'[t])
  PROVE  RegToggle(t) /\ Head(todo[t]) = o /\ todo'[t] = Tail(todo[t])
<1>1. todo'[t] # todo[t] /\ todo[t] # <<>> /\ o[1] = "toggle"
  BY EnablesDiffer, BodyMembers DEF Types, ValueTypes
<1>2. CASE Moves(t)
  <2>1. PICK ops \in Seq(TypedOps) : /\ Expands(Head(todo[t]), ops) /\ todo'[t] = ops \o Tail(todo[t])
                                     /\ Members(todo'[t]) = Members(ops) \cup Members(Tail(todo[t]))
    BY <1>2, MovesList
  <2>2. Members(todo[t]) = {Head(todo[t])} \cup Members(Tail(todo[t])) /\ Tail(todo[t]) \in Seq(TypedOps)
    BY <1>2, MovesList
  <2>3. Head(todo[t]) = o
    BY <2>1, <2>2
  <2>4. ops = <<>>
    BY <2>1, <2>3, ExpandsOrderly
  <2>5. todo'[t] = Tail(todo[t])
    BY <2>1, <2>2, <2>4
  <2>6. o \notin Others
    BY <1>1, Kinds DEF Others
  <2>7. RegStep(t)
    BY <1>1, <2>3, <2>6, Doing DEF Aside
  <2>8. ~Save(t) /\ ~RegWrite(t) /\ ~Restore(t) /\ ~Restored(t)
    BY <1>1, <2>3, Kinds DEF Save, RegWrite, Restore, Restored, At, Writing
  <2> QED
    BY <2>3, <2>5, <2>7, <2>8 DEF RegStep
<1>3. CASE t = "main" /\ At("main", Call("start")) /\ todo'[t] = AfterNoBind
  <2>1. main # <<>> /\ Head(main) = Call("start") /\ main \in Seq(TypedOps) /\ Head(main) \in Members(main)
    BY <1>3, AtHead, HeadIsTyped DEF main, Types
  <2>2. main = Main[kind] \/ main = Tail(ConsoleMain)
    BY <2>1 DEF WhoOK, StartOK
  <2>3. Members(main) \subseteq Members(ConsoleMain) \cup Members(ServiceMain)
    <3>1. kind \in {"console", "service"} /\ saved \in Saved
      BY DEF Types, ValueTypes
    <3>2. Members(Tail(ConsoleMain)) \subseteq Members(ConsoleMain)
      <4>1. ConsoleMain \in Seq(TypedOps) /\ ConsoleMain # <<>> /\ <<>> \in Seq(TypedOps)
        BY <3>1, BodyTypes, MainForms
      <4> QED
        BY <4>1, MembersReplaced
    <3>3. Main[kind] \in {ConsoleMain, ServiceMain}
      BY <3>1 DEF Main
    <3>4. main \in {ConsoleMain, ServiceMain, Tail(ConsoleMain)}
      BY <2>2, <3>3
    <3>5. CASE main = ConsoleMain
      BY <3>5
    <3>6. CASE main = ServiceMain
      BY <3>6
    <3>7. CASE main = Tail(ConsoleMain)
      BY <3>2, <3>7
    <3> QED
      BY <3>4, <3>5, <3>6, <3>7
  <2>4. Members(todo[t]) \cap Enables = {}
    BY <1>3, <2>3, FreshLists DEF main
  <2> QED
    BY <2>4
<1>4. CASE t = "main" /\ CliEof("main")
  <2>1. ListTypes /\ ReadOK
    BY MainIsRead DEF Types, WhoOK
  <2> DEFINE q == todo["main"]
             r == Tail(Tail(q))
  <2>2. /\ Len(q) > 1 /\ q \in Seq(TypedOps) /\ q[1] = Call("read") /\ q[2] = Call("cli")
        /\ todo'["main"] = r
    BY <1>4, <2>1, EofList, EofMembers
  <2>3. Len(q) \in Nat /\ Len(r) = Len(q) - 2 /\ \A i \in 1 .. Len(q) - 2 : r[i] = q[i + 2]
    BY <2>2, TailTail, LenProperties
  <2>4. PICK i \in 1 .. Len(q) : q[i] = o
    BY <1>4 DEF Members
  <2>5. o # Call("read") /\ o # Call("cli")
    BY <1>1, Kinds
  <2> HIDE DEF q, r
  <2>6. i # 1 /\ i # 2
    BY <2>2, <2>4, <2>5
  <2>7. i - 2 \in 1 .. Len(q) - 2 /\ (i - 2) + 2 = i
    BY <2>3, <2>6
  <2>8. r[i - 2] = o /\ i - 2 \in 1 .. Len(r)
    BY <2>3, <2>4, <2>7
  <2> QED
    BY <1>4, <2>2, <2>8 DEF Members
<1> QED
  BY <1>1, <1>2, <1>3, <1>4, ListSteps

\* Lists stay in order; the last write of enable() is next on one only when
\* its thread has written the server.
LEMMA OrderlyStep ==
  ASSUME Types, WhoOK, [ProcessNext]_processVars, proc' = "up", NEW t \in Threads, Orderly(todo[t])
  PROVE  /\ Orderly(todo'[t])
         /\ todo'[t] # <<>> /\ todo'[t][1] = Whole =>
               \/ todo'[t] = todo[t]
               \/ RegToggle(t) /\ Head(todo[t]) \in ServerToggles
<1> DEFINE q == todo[t]
           Result == /\ Orderly(todo'[t])
                     /\ todo'[t] # <<>> /\ todo'[t][1] = Whole =>
                           \/ todo'[t] = todo[t]
                           \/ RegToggle(t) /\ Head(todo[t]) \in ServerToggles
<1>1. CASE todo'[t] = todo[t]
  BY <1>1
<1>2. CASE Moves(t)
  <2>1. PICK ops \in Seq(TypedOps) : Expands(Head(q), ops) /\ todo'[t] = ops \o Tail(q)
    BY <1>2, MovesList
  <2>2. q \in Seq(TypedOps) /\ q # <<>>
    BY <1>2, MovesList
  <2>3. Orderly(ops) /\ (ops # <<>> => ops[1] # Whole /\ Head(q) \notin Enables)
    BY <2>1, ExpandsOrderly
  <2> HIDE DEF q
  <2>4. /\ Len(q) \in Nat \ {0} /\ Len(ops) \in Nat /\ Head(q) = q[1]
        /\ Len(ops \o Tail(q)) = Len(ops) + Len(q) - 1
        /\ \A i \in 1 .. Len(ops) : (ops \o Tail(q))[i] = ops[i]
        /\ \A i \in 2 .. Len(q) : (ops \o Tail(q))[Len(ops) + i - 1] = q[i]
        /\ ops \o Tail(q) \in Seq(TypedOps)
    BY <2>2, Replaced
  <2>5. Orderly(q)
    BY DEF q
  <2>6. Orderly(ops \o Tail(q))
    BY <2>2, <2>3, <2>4, <2>5, OrderlyReplaced DEF Enables
  <2>7. ASSUME todo'[t] # <<>>, todo'[t][1] = Whole
        PROVE  todo'[t] = todo[t] \/ (RegToggle(t) /\ Head(todo[t]) \in ServerToggles)
    <3>1. CASE ops # <<>>
      <4>1. 1 \in 1 .. Len(ops)
        BY <2>4, <3>1, EmptySeq
      <4> QED
        BY <2>1, <2>3, <2>4, <2>7, <3>1, <4>1
    <3>2. CASE ops = <<>>
      <4> DEFINE w == ops \o Tail(q)
      <4>1. Len(ops) = 0 /\ Len(w) # 0
        BY <2>1, <2>4, <2>7, <3>2, EmptySeq
      <4> HIDE DEF w
      <4>2. 2 \in 1 .. Len(q) /\ 2 \in 2 .. Len(q) /\ Len(ops) + 2 - 1 = 1 /\ 1 \in 1 .. Len(q)
        BY <2>4, <4>1 DEF w
      <4>3. q[2] = Whole
        BY <2>1, <2>4, <2>7, <4>2
      <4>4. q[2 - 1] \in ServerToggles
        BY <2>5, <4>2, <4>3 DEF Orderly
      <4>5. q[1] \in ServerToggles /\ q[1] \in Members(q)
        BY <4>2, <4>4 DEF Members
      <4>6. CASE q[1] \notin Members(todo'[t])
        BY <2>4, <4>5, <4>6, TogglesStay DEF q, Enables
      <4>7. CASE todo'[t] = q
        BY <4>7 DEF q
      <4>8. CASE todo'[t] # q
        <5>1. q[1][1] = "toggle"
          BY <4>5, EnablesDiffer DEF Enables
        <5>2. q[1] \notin Others
          BY <5>1, Kinds DEF Others
        <5>3. RegStep(t)
          BY <2>2, <2>4, <4>8, <5>2, Doing DEF Aside, q
        <5>4. ~Save(t) /\ ~RegWrite(t) /\ ~Restore(t) /\ ~Restored(t)
          BY <2>4, <5>1, Kinds DEF Save, RegWrite, Restore, Restored, At, Writing, q
        <5> QED
          BY <2>4, <4>5, <5>3, <5>4 DEF RegStep, q
      <4> QED
        BY <4>7, <4>8
    <3> QED
      BY <3>1, <3>2
  <2> QED
    BY <2>1, <2>6, <2>7
<1>3. CASE t = "main" /\ At("main", Call("start")) /\ todo'[t] = AfterNoBind
  BY <1>3, FreshLists
<1>4. CASE t = "main" /\ CliEof("main")
  <2>1. ListTypes /\ ReadOK
    BY MainIsRead DEF Types, WhoOK
  <2>2. /\ Len(q) > 1 /\ q \in Seq(TypedOps) /\ q[1] = Call("read") /\ q[2] = Call("cli")
        /\ todo'[t] = Tail(Tail(q))
    BY <1>4, <2>1, EofList, EofMembers
  <2>3. Orderly(q)
    OBVIOUS
  <2> HIDE DEF q
  <2>4. Len(q) \in Nat /\ Len(Tail(Tail(q))) = Len(q) - 2 /\ \A i \in 1 .. Len(q) - 2 : Tail(Tail(q))[i] = q[i + 2]
    BY <2>2, TailTail, LenProperties
  <2>5. ASSUME Tail(Tail(q)) # <<>>, Tail(Tail(q))[1] = Whole PROVE FALSE
    <3> DEFINE r == Tail(Tail(q))
    <3>1. Len(r) # 0
      BY <2>2, <2>5, TailTail, EmptySeq
    <3>2. Len(r) = Len(q) - 2
      BY <2>4
    <3> HIDE DEF r
    <3>3. 1 \in 1 .. Len(q) - 2 /\ 3 \in 1 .. Len(q) /\ 1 + 2 = 3
      BY <2>2, <2>4, <3>1, <3>2
    <3>4. q[3] = Whole
      BY <2>4, <2>5, <3>3
    <3>5. q[3 - 1] \in ServerToggles
      BY <2>3, <3>3, <3>4 DEF Orderly
    <3>6. Call("cli") \in ServerToggles
      BY <2>2, <3>5
    <3> QED
      BY <3>6, EnablesDiffer, Kinds DEF Enables
  <2> QED
    BY <2>2, <2>3, <2>5, OrderlyTail
<1>5. CASE todo'[t] \in {Enable(conf.port), Disable}
  BY <1>5, FreshLists
<1>6. ASSUME NEW k, todo'[t] = EventBody(k) PROVE Result
  BY <1>6, FreshLists
<1> QED
  BY <1>1, <1>2, <1>3, <1>4, <1>5, <1>6, ListSteps

-----------------------------------------------------------------------------
(* Settings that are switched on are complete, or will be.                 *)

AllIdle == \A t \in Threads : restored[t] = "no"

\* Before a thread has restored it has nothing to write but that of stop().
IdleWrites == \A t \in Threads : restored[t] = "no" =>
                 Members(todo[t]) \cap Writes \subseteq {Write("enable", "off")}

ServerOn   == reg.server \in Ports \/ \E t \in Threads : Members(todo[t]) \cap ServerToggles # {}
OverrideOn == reg.override = "rift" \/ \E t \in Threads : Whole \in Members(todo[t])

\* The last write of enable() comes after that of the server.
ServerFirst == \A t \in Threads : todo[t] # <<>> /\ todo[t][1] = Whole => reg.server \in Ports

EnablesOK ==
    proc = "up" =>
    /\ \A t \in Threads : Orderly(todo[t])
    /\ IdleWrites
    /\ AllIdle => /\ ServerFirst
                  /\ reg.enable = "on" => reg = found \/ (ServerOn /\ OverrideOn)

LEMMA EnablesInit == ASSUME ProcessInit PROVE EnablesOK
<1>1. Types
  BY TypesInit
<1>2. /\ reg = found /\ todo = Begun(kind) /\ saved \in Saved
      /\ \A t \in Threads : todo[t] = IF t = "main" THEN Main[kind] ELSE <<>>
  BY <1>1 DEF ProcessInit, Begun, Types, ValueTypes
<1>3. \A t \in Threads : todo[t] = Main[kind] \/ todo[t] = <<>>
  BY <1>2
<1>4. Members(<<>>) = {}
  BY <1>2, BodyMembers
<1>5. Orderly(<<>>)
  BY <1>4, NoEnables
<1>6. \A t \in Threads : /\ Orderly(todo[t]) /\ (todo[t] # <<>> => todo[t][1] # Whole)
                         /\ Members(todo[t]) \cap Writes = {}
  BY <1>1, <1>3, <1>4, <1>5, FreshLists
<1> QED
  BY <1>2, <1>6 DEF EnablesOK, IdleWrites, ServerFirst

LEMMA IdleWritesStep ==
  ASSUME Types, WhoOK, IdleWrites, [ProcessNext]_processVars, proc' = "up"
  PROVE  IdleWrites'
<1> SUFFICES ASSUME NEW t \in Threads, restored'[t] = "no", NEW o \in Members(todo'[t]), o \in Writes
             PROVE  o = Write("enable", "off")
  BY DEF IdleWrites, Writes
<1>1. restored[t] = "no"
  BY HistorySteps
<1>2. ASSUME o \notin Members(todo[t]), At(t, Call("restore")), saved.have PROVE FALSE
  <2>1. Restore(t)
    BY <1>2, AtRestore
  <2>2. restored'[t] = "going"
    BY <1>2, <2>1 DEF Restore, Types, ValueTypes
  <2> QED
    BY <2>2
<1> QED
  BY <1>1, <1>2, Newcomers DEF IdleWrites

\* What a step may write while nothing has been restored.
LEMMA IdleReg ==
  ASSUME Types, IdleWrites, AllIdle, [ProcessNext]_processVars, proc' = "up"
  PROVE  \/ reg' = reg
         \/ reg'.enable = "off" /\ reg'.server = reg.server /\ reg'.override = reg.override
         \/ \E t \in Threads :
               /\ RegToggle(t) /\ todo[t] # <<>> /\ Head(todo[t]) \in Enables
               /\ Head(todo[t]) = EnableOn => reg'.server = reg.server /\ reg'.override = reg.override
               /\ Head(todo[t]) \in ServerToggles => /\ reg'.server \in Ports /\ reg'.override = reg.override
                                                     /\ reg'.enable = reg.enable
               /\ Head(todo[t]) = Whole => /\ reg'.override = "rift" /\ reg'.server = reg.server
                                           /\ reg'.enable = reg.enable
<1>1. ListTypes /\ ValueTypes
  BY DEF Types
<1>2. ASSUME NEW t \in Threads, RegWrite(t)
      PROVE  reg'.enable = "off" /\ reg'.server = reg.server /\ reg'.override = reg.override
  <2>1. /\ todo[t] # <<>> /\ Head(todo[t]) \in Writes /\ reg' = Written(t)
        /\ Head(todo[t]) \in Members(todo[t])
    BY <1>1, <1>2, WritingHead, HeadIsTyped DEF RegWrite
  <2>2. Head(todo[t]) = Write("enable", "off")
    BY <2>1 DEF IdleWrites, AllIdle
  <2> QED
    BY <1>1, <2>1, <2>2, WrittenFields
<1>3. ASSUME NEW t \in Threads, RegToggle(t)
      PROVE  \/ reg'.enable = "off" /\ reg'.server = reg.server /\ reg'.override = reg.override
             \/ /\ RegToggle(t) /\ todo[t] # <<>> /\ Head(todo[t]) \in Enables
                /\ Head(todo[t]) = EnableOn => reg'.server = reg.server /\ reg'.override = reg.override
                /\ Head(todo[t]) \in ServerToggles => /\ reg'.server \in Ports /\ reg'.override = reg.override
                                                      /\ reg'.enable = reg.enable
                /\ Head(todo[t]) = Whole => /\ reg'.override = "rift" /\ reg'.server = reg.server
                                            /\ reg'.enable = reg.enable
  <2> DEFINE o == Head(todo[t])
  <2>1. todo[t] # <<>> /\ o \in Toggles /\ reg' = Written(t)
    BY <1>1, <1>3, WritingHead DEF RegToggle
  <2>2. /\ \A v : o = Toggle("enable", v) =>
              reg'.enable = v /\ reg'.server = reg.server /\ reg'.override = reg.override
        /\ \A v : o = Toggle("server", v) =>
              reg'.server = v /\ reg'.enable = reg.enable /\ reg'.override = reg.override
        /\ \A v : o = Toggle("override", v) =>
              reg'.override = v /\ reg'.enable = reg.enable /\ reg'.server = reg.server
    BY <1>1, <2>1, WrittenFields
  <2> HIDE DEF o
  <2>3. o = Toggle("enable", "off") \/ o = EnableOn \/ o \in ServerToggles \/ o = Whole
    BY <2>1 DEF Toggles, EnableOn, ServerToggles, Whole
  <2>4. CASE o = Toggle("enable", "off")
    BY <2>2, <2>4
  <2>5. CASE o = EnableOn
    <3>1. o \in Enables /\ o \notin ServerToggles /\ o # Whole
      BY <2>5, EnablesDiffer DEF Enables
    <3>2. reg'.server = reg.server /\ reg'.override = reg.override
      BY <2>2, <2>5 DEF EnableOn
    <3> QED
      BY <1>3, <2>1, <3>1, <3>2 DEF o
  <2>6. CASE o \in ServerToggles
    <3>1. o \in Enables /\ o # EnableOn /\ o # Whole
      BY <2>6, EnablesDiffer DEF Enables
    <3>2. reg'.server \in Ports /\ reg'.override = reg.override /\ reg'.enable = reg.enable
      BY <2>2, <2>6 DEF ServerToggles
    <3> QED
      BY <1>3, <2>1, <3>1, <3>2 DEF o
  <2>7. CASE o = Whole
    <3>1. o \in Enables /\ o # EnableOn /\ o \notin ServerToggles
      BY <2>7, EnablesDiffer DEF Enables
    <3>2. reg'.override = "rift" /\ reg'.server = reg.server /\ reg'.enable = reg.enable
      BY <2>2, <2>7 DEF Whole
    <3> QED
      BY <1>3, <2>1, <3>1, <3>2 DEF o
  <2> QED
    BY <2>3, <2>4, <2>5, <2>6, <2>7
<1>4. ASSUME NEW t \in Threads, Save(t) \/ Restore(t) \/ Restored(t) PROVE reg' = reg
  BY <1>4 DEF Save, Restore, Restored, regVars
<1>5. CASE \E t \in Threads : RegToggle(t)
  BY <1>3, <1>5
<1> QED
  BY <1>2, <1>4, <1>5, WhoRestores DEF RegStep

\* What enable() has begun stays written, or on a list.
LEMMA OnStays ==
  ASSUME Types, WhoOK, IdleWrites, AllIdle, [ProcessNext]_processVars, proc' = "up"
  PROVE  /\ ServerOn => ServerOn'
         /\ OverrideOn => OverrideOn'
<1>1. /\ reg.server \in Ports => reg'.server \in Ports
      /\ reg.override = "rift" => reg'.override = "rift"
  <2>1. ASSUME NEW t \in Threads, Head(todo[t]) \in Enables
        PROVE  Head(todo[t]) = EnableOn \/ Head(todo[t]) \in ServerToggles \/ Head(todo[t]) = Whole
    BY <2>1 DEF Enables
  <2> QED
    BY <2>1, IdleReg
<1>2. ASSUME NEW t \in Threads, NEW o \in Members(todo[t]), o \in ServerToggles PROVE ServerOn'
  <2>1. CASE o \in Members(todo'[t])
    <3>1. o \in ServerToggles'
      BY <1>2 DEF ServerToggles
    <3> QED
      BY <2>1, <3>1 DEF ServerOn
  <2>2. CASE o \notin Members(todo'[t])
    <3>1. RegToggle(t) /\ Head(todo[t]) = o
      BY <1>2, <2>2, TogglesStay DEF Enables
    <3>2. reg'.server \in Ports
      <4>1. /\ ListTypes /\ ValueTypes /\ Head(todo[t]) \in Toggles /\ reg' = Written(t)
        BY <3>1, WritingHead DEF RegToggle, Types
      <4>2. PICK p \in Ports : o = Toggle("server", p)
        BY <1>2 DEF ServerToggles
      <4> QED
        BY <3>1, <4>1, <4>2, WrittenFields
    <3> QED
      BY <3>2 DEF ServerOn
  <2> QED
    BY <2>1, <2>2
<1>3. ASSUME NEW t \in Threads, Whole \in Members(todo[t]) PROVE OverrideOn'
  <2>1. CASE Whole \in Members(todo'[t])
    BY <2>1 DEF OverrideOn, Whole
  <2>2. CASE Whole \notin Members(todo'[t])
    <3>1. RegToggle(t) /\ Head(todo[t]) = Whole
      BY <1>3, <2>2, TogglesStay DEF Enables
    <3>2. /\ ListTypes /\ ValueTypes /\ Head(todo[t]) \in Toggles /\ reg' = Written(t)
      BY <3>1, WritingHead DEF RegToggle, Types
    <3>3. reg'.override = "rift"
      BY <3>1, <3>2, WrittenFields DEF Whole
    <3> QED
      BY <3>3 DEF OverrideOn
  <2> QED
    BY <2>1, <2>2
<1>4. ServerOn => ServerOn'
  <2>1. CASE reg.server \in Ports
    BY <1>1, <2>1 DEF ServerOn
  <2>2. CASE \E t \in Threads : Members(todo[t]) \cap ServerToggles # {}
    BY <1>2, <2>2
  <2> QED
    BY <2>1, <2>2 DEF ServerOn
<1>5. OverrideOn => OverrideOn'
  <2>1. CASE reg.override = "rift"
    BY <1>1, <2>1 DEF OverrideOn
  <2>2. CASE \E t \in Threads : Whole \in Members(todo[t])
    BY <1>3, <2>2
  <2> QED
    BY <2>1, <2>2 DEF OverrideOn
<1> QED
  BY <1>4, <1>5

\* After a write of enable() the rest of them is still on the list.
LEMMA RestOfEnable ==
  ASSUME Types, NEW t \in Threads, RegToggle(t), Orderly(todo[t])
  PROVE  /\ Head(todo[t]) = EnableOn => ServerOn' /\ OverrideOn'
         /\ Head(todo[t]) \in ServerToggles => OverrideOn'
<1> DEFINE q == todo[t]
           r == Tail(q)
<1>1. ListTypes /\ q # <<>>
  BY WritingHead DEF Types, RegToggle
<1>2. /\ q \in Seq(TypedOps) /\ <<>> \in Seq(TypedOps) /\ r \in Seq(TypedOps)
  BY <1>1, HeadIsTyped, EmptySeq
<1>3. todo'[t] = <<>> \o r
  BY <1>1, <1>2, ThenTypes DEF RegToggle
<1>4. Orderly(q)
  OBVIOUS
<1>5. ServerToggles' = ServerToggles /\ Whole' = Whole
  BY DEF ServerToggles, Whole
<1> DEFINE w == <<>> \o r
<1> HIDE DEF q
<1>6. /\ Len(q) \in Nat \ {0} /\ Head(q) = q[1] /\ Len(w) = Len(q) - 1
      /\ \A i \in 2 .. Len(q) : w[i - 1] = q[i]
  BY <1>1, <1>2, Replaced
<1> HIDE DEF w, r
<1>7. \A i \in 2 .. Len(q) : q[i] \in Members(w)
  <2> SUFFICES ASSUME NEW i \in 2 .. Len(q) PROVE q[i] \in Members(w)
    OBVIOUS
  <2>1. i - 1 \in 1 .. Len(w) /\ w[i - 1] = q[i]
    BY <1>6
  <2> QED
    BY <2>1 DEF Members
<1>8. \A i \in 1 .. Len(q) : /\ q[i] = EnableOn => i < Len(q) /\ q[i + 1] \in ServerToggles
                             /\ q[i] \in ServerToggles => i < Len(q) /\ q[i + 1] = Whole
  BY <1>4 DEF Orderly
<1>9. 1 \in 1 .. Len(q)
  BY <1>6
<1>10. ASSUME NEW i \in 1 .. Len(q), q[i] \in ServerToggles PROVE Whole \in Members(w)
  <2>1. q[i + 1] = Whole /\ i + 1 \in 2 .. Len(q)
    BY <1>6, <1>8, <1>10
  <2> QED
    BY <1>7, <2>1
<1>11. ASSUME q[1] = EnableOn PROVE Members(w) \cap ServerToggles # {} /\ Whole \in Members(w)
  <2>1. q[1 + 1] \in ServerToggles /\ 1 < Len(q)
    BY <1>8, <1>9, <1>11
  <2>2. 2 \in 2 .. Len(q) /\ 2 \in 1 .. Len(q) /\ q[2] \in ServerToggles
    BY <1>6, <2>1
  <2> QED
    BY <1>7, <1>10, <2>2
<1>12. todo'[t] = w /\ Head(todo[t]) = q[1]
  BY <1>3, <1>6 DEF w, q
<1> QED
  BY <1>5, <1>9, <1>10, <1>11, <1>12 DEF ServerOn, OverrideOn

LEMMA EnablesStep ==
  ASSUME Invariant, EnablesOK, [ProcessNext]_processVars
  PROVE  EnablesOK'
<1> SUFFICES ASSUME proc' = "up"
             PROVE  /\ \A t \in Threads : Orderly(todo'[t])
                    /\ IdleWrites'
                    /\ AllIdle' => /\ ServerFirst'
                                   /\ reg'.enable = "on" => reg' = found' \/ (ServerOn' /\ OverrideOn')
  BY DEF EnablesOK, Orderly, ServerToggles, EnableOn, Whole
<1>1. /\ Types /\ WhoOK /\ proc = "up" /\ found' = found /\ reg \in Registry /\ reg' \in Registry
  <2>1. Types'
    BY InvariantStep DEF Invariant
  <2> QED
    BY <2>1, UpBefore, SavedOnce DEF Invariant, Types, ValueTypes
<1>2. (\A t \in Threads : Orderly(todo[t])) /\ IdleWrites
  BY <1>1 DEF EnablesOK
<1>3. \A t \in Threads : Orderly(todo'[t])
  BY <1>1, <1>2, OrderlyStep
<1>4. IdleWrites'
  BY <1>1, <1>2, IdleWritesStep
<1>5. ASSUME AllIdle' PROVE ServerFirst' /\ (reg'.enable = "on" => reg' = found' \/ (ServerOn' /\ OverrideOn'))
  <2>1. AllIdle
    BY <1>1, <1>5, HistorySteps DEF AllIdle
  <2>2. ServerFirst /\ (reg.enable = "on" => reg = found \/ (ServerOn /\ OverrideOn))
    BY <1>1, <2>1 DEF EnablesOK
  <2>3. (ServerOn => ServerOn') /\ (OverrideOn => OverrideOn')
    BY <1>1, <1>2, <2>1, OnStays
  <2>4. \/ reg' = reg
        \/ reg'.enable = "off" /\ reg'.server = reg.server /\ reg'.override = reg.override
        \/ \E t \in Threads :
              /\ RegToggle(t) /\ todo[t] # <<>> /\ Head(todo[t]) \in Enables
              /\ Head(todo[t]) = EnableOn => reg'.server = reg.server /\ reg'.override = reg.override
              /\ Head(todo[t]) \in ServerToggles => /\ reg'.server \in Ports /\ reg'.override = reg.override
                                                    /\ reg'.enable = reg.enable
              /\ Head(todo[t]) = Whole => /\ reg'.override = "rift" /\ reg'.server = reg.server
                                          /\ reg'.enable = reg.enable
    BY <1>1, <1>2, <2>1, IdleReg
  <2>5. reg.server \in Ports => reg'.server \in Ports
    BY <2>4 DEF Enables
  <2>6. ServerFirst'
    <3> SUFFICES ASSUME NEW t \in Threads, todo'[t] # <<>>, todo'[t][1] = Whole PROVE reg'.server \in Ports
      BY DEF ServerFirst, Whole
    <3>1. CASE todo'[t] = todo[t]
      BY <2>2, <2>5, <3>1 DEF ServerFirst
    <3>2. CASE RegToggle(t) /\ Head(todo[t]) \in ServerToggles
      <4>1. /\ ListTypes /\ ValueTypes /\ Head(todo[t]) \in Toggles /\ reg' = Written(t)
        BY <1>1, <3>2, WritingHead DEF RegToggle, Types
      <4>2. PICK p \in Ports : Head(todo[t]) = Toggle("server", p)
        BY <3>2 DEF ServerToggles
      <4> QED
        BY <4>1, <4>2, WrittenFields
    <3> QED
      BY <1>1, <1>2, <3>1, <3>2, OrderlyStep
  <2>7. ASSUME reg'.enable = "on" PROVE reg' = found' \/ (ServerOn' /\ OverrideOn')
    <3>1. CASE reg' = reg
      BY <1>1, <2>2, <2>3, <2>7, <3>1
    <3>2. ASSUME NEW t \in Threads,
                 RegToggle(t), todo[t] # <<>>, Head(todo[t]) \in Enables,
                 Head(todo[t]) \in ServerToggles => reg'.server \in Ports,
                 Head(todo[t]) = Whole => reg'.override = "rift" /\ reg'.server = reg.server
          PROVE  ServerOn' /\ OverrideOn'
      <4>1. Orderly(todo[t])
        BY <1>2
      <4>2. CASE Head(todo[t]) = EnableOn
        BY <1>1, <3>2, <4>1, <4>2, RestOfEnable
      <4>3. CASE Head(todo[t]) \in ServerToggles
        <5>1. OverrideOn'
          BY <1>1, <3>2, <4>1, <4>3, RestOfEnable
        <5>2. ServerOn'
          BY <3>2, <4>3 DEF ServerOn
        <5> QED
          BY <5>1, <5>2
      <4>4. CASE Head(todo[t]) = Whole
        <5>1. todo[t] \in Seq(TypedOps) /\ Head(todo[t]) = todo[t][1]
          BY <1>1, <3>2, HeadIsTyped, HeadTailProperties DEF Types
        <5>2. reg.server \in Ports
          BY <2>2, <3>2, <4>4, <5>1 DEF ServerFirst
        <5> QED
          BY <3>2, <4>4, <5>2 DEF ServerOn, OverrideOn
      <4> QED
        BY <3>2, <4>2, <4>3, <4>4 DEF Enables
    <3> QED
      BY <2>4, <2>7, <3>1, <3>2
  <2> QED
    BY <2>6, <2>7
<1> QED
  BY <1>3, <1>4, <1>5

\* Settings that are switched on while no call is under way, and nothing has
\* been restored yet, are those found or all of Rift's (EnabledIsComplete):
\* the writes of enable() come in their order and to their end on every
\* thread, so what one thread has switched on, one thread completes.
THEOREM EnabledIsCompleteCorrect == ProcessSpec => []EnabledIsComplete
<1>1. ProcessInit => EnablesOK
  BY EnablesInit
<1>2. Invariant /\ EnablesOK /\ [ProcessNext]_processVars => EnablesOK'
  BY EnablesStep
<1>3. Invariant /\ EnablesOK => EnabledIsComplete
  <2> SUFFICES ASSUME Invariant, EnablesOK, proc = "up", reg.enable = "on",
                      \A t \in Threads : restored[t] = "no",
                      \A t \in Threads : \A i \in 1 .. Len(todo[t]) : todo[t][i][1] # "toggle"
               PROVE  reg = found \/ (reg.server \in Ports /\ reg.override = "rift")
    BY DEF EnabledIsComplete
  <2>1. reg = found \/ (ServerOn /\ OverrideOn)
    BY DEF EnablesOK, AllIdle
  <2>2. \A t \in Threads : \A o \in Members(todo[t]) : o[1] # "toggle"
    BY DEF Members
  <2>3. \A t \in Threads : Members(todo[t]) \cap Enables = {}
    BY <2>2, EnablesDiffer
  <2>4. \A t \in Threads : Members(todo[t]) \cap ServerToggles = {} /\ Whole \notin Members(todo[t])
    BY <2>3 DEF Enables
  <2> QED
    BY <2>1, <2>4 DEF ServerOn, OverrideOn
<1> QED
  BY <1>1, <1>2, <1>3, InvariantCorrect, PTL DEF ProcessSpec
=============================================================================
