--------------------------- MODULE Session_proofs ---------------------------
(* Theorems about Session, for all values of its constants: what a session *)
(* holds at each point of its thread, and what it has been sent and asked. *)
EXTENDS Session, SequenceTheorems, TLAPS

-----------------------------------------------------------------------------
(* The beginning and the rest of a sequence.                               *)

LEMMA FirstProperties ==
  ASSUME NEW S, NEW q \in Seq(S), NEW n \in Int, n <= Len(q)
  PROVE  /\ First(q, n) \in Seq(S)
         /\ Len(First(q, n)) = IF n >= 1 THEN n ELSE 0
         /\ \A i \in 1 .. n : First(q, n)[i] = q[i]
<1>1. Len(q) \in Nat /\ \A i \in 1 .. n : q[i] \in S
  BY LenProperties, ElementOfSeq
<1>2. /\ SubSeq(q, 1, n) \in Seq(S)
      /\ Len(SubSeq(q, 1, n)) = IF 1 <= n THEN n - 1 + 1 ELSE 0
      /\ \A i \in 1 .. n - 1 + 1 : SubSeq(q, 1, n)[i] = q[1 + i - 1]
  BY <1>1, SubSeqProperties
<1> QED
  BY <1>2 DEF First

LEMMA RestProperties ==
  ASSUME NEW S, NEW q \in Seq(S), NEW n \in Nat
  PROVE  /\ Rest(q, n) \in Seq(S)
         /\ Len(Rest(q, n)) = IF n <= Len(q) THEN Len(q) - n ELSE 0
         /\ \A i \in 1 .. Len(q) - n : Rest(q, n)[i] = q[i + n]
<1>1. Len(q) \in Nat /\ \A i \in n + 1 .. Len(q) : q[i] \in S
  BY LenProperties, ElementOfSeq
<1>2. /\ SubSeq(q, n + 1, Len(q)) \in Seq(S)
      /\ Len(SubSeq(q, n + 1, Len(q)))
            = IF n + 1 <= Len(q) THEN Len(q) - (n + 1) + 1 ELSE 0
      /\ \A i \in 1 .. Len(q) - (n + 1) + 1 :
            SubSeq(q, n + 1, Len(q))[i] = q[(n + 1) + i - 1]
  BY <1>1, SubSeqProperties
<1>3. \A i \in 1 .. Len(q) - n : (n + 1) + i - 1 = i + n
  BY <1>1
<1> QED
  BY <1>1, <1>2, <1>3 DEF Rest

LEMMA RestIsShorter ==
  ASSUME NEW S, NEW q \in Seq(S), NEW n \in Nat
  PROVE  Rest(q, n) \in Seq(S) /\ Len(Rest(q, n)) \in Nat /\ Len(Rest(q, n)) <= Len(q)
<1> DEFINE r == Rest(q, n)
           k == Len(q)
<1>1. k \in Nat
  BY LenProperties
<1>2. r \in Seq(S) /\ Len(r) = IF n <= k THEN k - n ELSE 0
  BY RestProperties
<1> HIDE DEF r, k
<1>3. Len(r) \in Nat /\ Len(r) <= k
  BY <1>1, <1>2
<1> QED
  BY <1>2, <1>3 DEF r, k

LEMMA FirstAndRest ==
  ASSUME NEW S, NEW q \in Seq(S), NEW n \in 0 .. Len(q)
  PROVE  First(q, n) \o Rest(q, n) = q
<1>1. /\ Len(q) \in Nat /\ 1 \in 1 .. Len(q) + 1
      /\ n \in 1 - 1 .. Len(q) /\ Len(q) \in n .. Len(q)
  BY LenProperties
<1>2. SubSeq(q, 1, n) \o SubSeq(q, n + 1, Len(q)) = SubSeq(q, 1, Len(q))
  BY <1>1, ConcatAdjacentSubSeq
<1> QED
  BY <1>2, SubSeqFull DEF First, Rest

LEMMA RestOfConcat ==
  ASSUME NEW S, NEW p \in Seq(S), NEW q \in Seq(S), NEW n \in 0 .. Len(p)
  PROVE  Rest(p \o q, n) = Rest(p, n) \o q
<1> DEFINE w == p \o q
           v == Rest(p, n)
           l == Rest(w, n)
           r == v \o q
<1>1. Len(p) \in Nat /\ Len(q) \in Nat /\ n \in Nat
  BY LenProperties
<1>2. /\ w \in Seq(S) /\ Len(w) = Len(p) + Len(q)
      /\ \A i \in 1 .. Len(p) + Len(q) :
            w[i] = IF i <= Len(p) THEN p[i] ELSE q[i - Len(p)]
  BY ConcatProperties
<1>3. /\ v \in Seq(S) /\ Len(v) = Len(p) - n
      /\ \A i \in 1 .. Len(p) - n : v[i] = p[i + n]
  BY <1>1, RestProperties
<1> HIDE DEF w, v
<1>4. /\ l \in Seq(S) /\ Len(l) = IF n <= Len(w) THEN Len(w) - n ELSE 0
      /\ \A i \in 1 .. Len(w) - n : l[i] = w[i + n]
  BY <1>1, <1>2, RestProperties
<1>5. /\ r \in Seq(S) /\ Len(r) = Len(v) + Len(q)
      /\ \A i \in 1 .. Len(v) + Len(q) :
            r[i] = IF i <= Len(v) THEN v[i] ELSE q[i - Len(v)]
  BY <1>3, ConcatProperties
<1> HIDE DEF l, r
<1>6. Len(l) = Len(p) + Len(q) - n /\ Len(r) = Len(p) + Len(q) - n
  BY <1>1, <1>2, <1>3, <1>4, <1>5
<1>7. ASSUME NEW i \in 1 .. Len(l) PROVE l[i] = r[i]
  <2>1. i \in Int /\ i + n \in 1 .. Len(p) + Len(q)
    BY <1>1, <1>6
  <2>2. l[i] = w[i + n]
    BY <1>1, <1>2, <1>4, <1>6
  <2>3. r[i] = IF i <= Len(v) THEN v[i] ELSE q[i - Len(v)]
    BY <1>1, <1>3, <1>5, <1>6
  <2>4. CASE i <= Len(p) - n
    <3>1. i \in 1 .. Len(p) - n /\ i + n <= Len(p)
      BY <1>1, <2>1, <2>4
    <3> QED
      BY <1>2, <1>3, <2>1, <2>2, <2>3, <2>4, <3>1
  <2>5. CASE ~(i <= Len(p) - n)
    <3>1. ~(i + n <= Len(p)) /\ i + n - Len(p) = i - Len(v)
      BY <1>1, <1>3, <2>1, <2>5
    <3> QED
      BY <1>2, <1>3, <2>1, <2>2, <2>3, <2>5, <3>1
  <2> QED
    BY <2>4, <2>5
<1>8. l = r
  BY <1>4, <1>5, <1>6, <1>7, SeqEqual
<1> QED
  BY <1>8 DEF l, r, w, v

LEMMA FirstOfConcat ==
  ASSUME NEW S, NEW p \in Seq(S), NEW q \in Seq(S)
  PROVE  First(p \o q, Len(p)) = p
<1> DEFINE w == p \o q
           f == First(w, Len(p))
<1>1. Len(p) \in Nat /\ Len(q) \in Nat
  BY LenProperties
<1>2. /\ w \in Seq(S) /\ Len(w) = Len(p) + Len(q)
      /\ \A i \in 1 .. Len(p) + Len(q) :
            w[i] = IF i <= Len(p) THEN p[i] ELSE q[i - Len(p)]
  BY ConcatProperties
<1> HIDE DEF w
<1>3. Len(p) <= Len(w) /\ Len(p) \in Int
  BY <1>1, <1>2
<1>4. /\ f \in Seq(S) /\ Len(f) = IF Len(p) >= 1 THEN Len(p) ELSE 0
      /\ \A i \in 1 .. Len(p) : f[i] = w[i]
  BY <1>2, <1>3, FirstProperties
<1> HIDE DEF f
<1>5. Len(f) = Len(p) /\ \A i \in 1 .. Len(p) : f[i] = p[i]
  BY <1>1, <1>2, <1>4
<1>6. f = p
  BY <1>4, <1>5, SeqEqual
<1> QED
  BY <1>6 DEF f, w

LEMMA AppendToConcat ==
  ASSUME NEW S, NEW p \in Seq(S), NEW q \in Seq(S), NEW x \in S
  PROVE  Append(p \o q, x) = p \o Append(q, x)
<1>1. <<x>> \in Seq(S) /\ p \o q \in Seq(S)
  BY ConcatProperties
<1>2. Append(p \o q, x) = (p \o q) \o <<x>> /\ Append(q, x) = q \o <<x>>
  BY <1>1, AppendIsConcat
<1> QED
  BY <1>1, <1>2, ConcatAssociative

LEMMA HeadAndTail ==
  ASSUME NEW S, NEW q \in Seq(S), q # <<>>
  PROVE  q = <<Head(q)>> \o Tail(q) /\ Rest(q, 1) = Tail(q)
<1>1. Len(q) \in Nat \ {0} /\ Tail(q) = SubSeq(q, 2, Len(q))
  BY EmptySeq, TailIsSubSeq
<1>2. SubSeq(q, 1, Len(q)) = <<q[1]>> \o SubSeq(q, 2, Len(q))
  BY <1>1, SubSeqRecursiveFirst
<1>3. Head(q) = q[1]
  BY <1>1, HeadTailOfSubSeq, SubSeqFull
<1> QED
  BY <1>1, <1>2, <1>3, SubSeqFull DEF Rest

-----------------------------------------------------------------------------
(* What the session holds at each point.                                   *)

\* No connection has been tried yet.
Before == {"accept", "request", "say_no_auth", "say_password", "say_no_method",
           "say_welcome", "say_denied", "say_unsupported", "say_407"}
          \cup DOMAIN Fields

\* None is open, or none is any more.
After == {"connecting", "unlinked", "say_refused", "say_502", "return", "close",
          "ended", "terminated"}

InRelay   == RelayPoints \cup {"relayed"}
Shaking   == SocksPoints \cup HttpPoints
Socketed  == Shaking \cup {"linked"} \cup Checked \cup InRelay
                \cup {"early", "connected", "close_target"}
SocksOnly == FieldPoints \cup {"greeting", "say_no_auth", "say_password",
                "say_no_method", "say_welcome", "say_denied", "say_unsupported",
                "say_connected", "say_refused"}
HttpOnly  == {"head", "request", "early", "say_407", "say_200", "say_502"}

Owned ==
  /\ listed = "none" <=> at \in {"accept", "peek", "close", "ended"}
  /\ at \in SocksOnly => listed = "SOCKS5"
  /\ at \in HttpOnly => listed = "HTTP"
  /\ active = (IF at \in InRelay THEN 1 ELSE 0)
  /\ target = "open" <=> at \in Socketed
  /\ at \in Before => target = "none"
  /\ client = "closed" <=> at = "ended"
  /\ at \in Before \cup LinkPoints \cup Checked \cup {"early", "connected"} \cup RelayPoints
        => reason = "none"

-----------------------------------------------------------------------------
(* What the handler has to read of the client.                             *)

Payload     == ToSet(Body["client"])
Credentials == {"password_right"} \cup Authorized
Unread      == chunk \o inbox["client"]

\* The place of the field in q: after the segment that came before it.
Place(q) == IF q[1] = "part" THEN 2 ELSE 1

\* q ends with a field, or with a request and what the client sent after it.
Asks(q, fields) ==
  /\ Place(q) <= Len(q) /\ q[Place(q)] \in fields
  /\ Len(q) > Place(q) => q[Place(q)] \in {"port"} \cup Heads
  /\ \A i \in Place(q) + 1 .. Len(q) : q[i] \in Payload

NothingAsked(q) == q \in {<<>>, <<"part">>} /\ sent["client"] = <<>>

InputOK ==
  /\ \A s \in Sides : peer[s] = "reset" => inbox[s] = <<>>
  /\ at \in DOMAIN Fields /\ peer["client"] # "reset" =>
        \/ NothingAsked(Unread)
        \/ /\ Asks(Unread, Fields[at])
           /\ sent["client"] = IF Unread[Place(Unread)] \in Plain THEN Unread
                               ELSE Rest(Unread, Place(Unread))
           /\ Unread[Place(Unread)] \in Credentials => cleared
  /\ at \in {"accept", "say_no_auth", "say_password", "say_welcome"} =>
        inbox["client"] = <<>> /\ sent["client"] = <<>>
  /\ at = "greeting" => chunk \in {<<>>, <<"part">>}

\* The header is kept while the connection is made.
HeadKept == at = "request" \/ (listed = "HTTP" /\ at \in LinkPoints \cup {"say_200", "early"})

ChunkOK ==
  /\ HeadKept => Asks(chunk, IF at = "request" THEN Heads ELSE Tunnels \cup Plain)
  /\ at = "request" /\ chunk[Place(chunk)] \in Authorized => cleared
  /\ at \in FieldPoints \cup {"accept", "peek", "say_no_auth", "say_password",
        "say_welcome", "say_connected", "connected"} \cup (RelayPoints \ {"send_client", "send_target"})
        => chunk = <<>>
  /\ listed = "SOCKS5" /\ at \in LinkPoints => chunk = <<>>

ClearedOK ==
  /\ ~auth => cleared
  /\ target # "none" => cleared
  /\ at \in {"say_no_auth", "say_welcome", "header", "addr", "port"} \cup LinkPoints => cleared

-----------------------------------------------------------------------------
(* What the node has answered and the target has said.                     *)

\* What has arrived of the node's answer.
Lead == First(inbox["target"], Len(inbox["target"]) - Len(sent["target"]))

\* What the answer is, from what was read of it on.
Expected(p) ==
  CASE p \in {"greet", "login", "ask", "ask_http"} -> {<<>>}
    [] p = "method" -> SocksAnswers.greet
    [] p = "status" -> SocksAnswers.login
    [] p = "reply"  -> SocksAnswers.ask
    [] p \in {"length", "rest_only"} -> {<<"length", "addr", "port">>}
    [] p = "rest"   -> {<<"addr", "port">>}
    [] p = "answer" -> HttpAnswers

NodeOK ==
  /\ at \in Before =>
        /\ sent["target"] = <<>> /\ inbox["target"] = <<>> /\ peer["target"] = "open"
        /\ owes = <<>> /\ resp = <<>> /\ left = <<>> /\ tries = 0
  /\ peer["target"] # "open" => owes = <<>>
  /\ owes # <<>> => sent["target"] = <<>>
  /\ at = "connecting" => tries < Attempts
  /\ at \in {"connecting", "unlinked"} \cup Shaking => left = <<>>

ShakingOK ==
  at \in Shaking =>
    /\ peer["target"] # "reset" => inbox["target"] = Lead \o sent["target"]
    /\ Lead \in Seq(AnswerPieces)
    /\ peer["target"] = "open" \/ (peer["target"] = "fin" /\ sent["target"] # <<>>)
          => resp \o Lead \o owes \in Expected(at)
    /\ sent["target"] # <<>> => granted
    /\ at \notin {"reply", "length", "rest", "rest_only", "answer"} => ~granted
    /\ at # "answer" => resp = <<>>
-----------------------------------------------------------------------------
(* The type invariant in parts.                                            *)

PointTypes ==
  /\ at \in Points /\ mode \in Modes
  /\ speaks \in Protocols /\ listed \in {"none", "SOCKS5", "HTTP"}
  /\ active \in {0, 1} /\ client \in {"open", "closed"}
  /\ target \in {"none", "open", "closed"}
  /\ reason \in {"none", "idle", "poll", "client", "target", "reset",
                 "write", "hang_up"}

FlagTypes == auth \in BOOLEAN /\ cleared \in BOOLEAN /\ granted \in BOOLEAN

PipeTypes ==
  /\ sent \in [Sides -> Seq(Pieces)] /\ inbox \in [Sides -> Seq(Pieces)]
  /\ outbox \in [Sides -> Seq(Pieces)] /\ got \in [Sides -> Seq(Pieces)]
  /\ chunk \in Seq(Pieces)
  /\ peer \in [Sides -> {"open", "fin", "reset"}]
  /\ \A s \in Sides : Len(inbox[s]) <= Window

CountTypes ==
  /\ bytes \in [Sides -> Nat] /\ size \in 0 .. Buffer
  /\ idle \in 0 .. Limit /\ lag \in 0 .. Limit
  /\ reloads \in 0 .. MaxReloads /\ tries \in 0 .. 2

NodeTypes ==
  owes \in Seq(AnswerPieces) /\ resp \in Seq(AnswerPieces) /\ left \in Seq(AnswerPieces)

Types == PointTypes /\ FlagTypes /\ PipeTypes /\ CountTypes /\ NodeTypes

LEMMA TypesGiveTypeOK == Types => SessionTypeOK
<1> SUFFICES ASSUME Types PROVE SessionTypeOK
  OBVIOUS
<1>1. \A v \in {sent, inbox, outbox, got} : v \in [Sides -> Seq(Pieces)]
  BY DEF Types, PipeTypes
<1>2. {idle, lag} \subseteq 0 .. Limit
  BY DEF Types, CountTypes
<1> QED
  BY <1>1, <1>2
     DEF Types, PointTypes, FlagTypes, PipeTypes, CountTypes, NodeTypes, SessionTypeOK

-----------------------------------------------------------------------------
(* Steps in which the thread does not move, and steps of the handlers.     *)

\* The peers and the operator move none of what the thread holds.
LEMMA OthersFrame ==
  ASSUME \/ Reload \/ NodeAnswers \/ ClientStep
         \/ \E s \in Sides : PeerStep(s) \/ Reads(s)
  PROVE  UNCHANGED <<at, chunk, size, rev, idle, lag, bytes, reason, mode, listed,
                     active, client, target, speaks, tries, resp, given>>
<1> USE DEF buffer, relaying, clock, config, entry, sockets, answer, history, relayVars
<1>1. CASE Reload
  BY <1>1 DEF Reload
<1>2. CASE NodeAnswers
  BY <1>2 DEF NodeAnswers, NodeSends
<1>3. CASE ClientStep
  BY <1>3 DEF ClientStep
<1>4. CASE \E s \in Sides : PeerStep(s) \/ Reads(s)
  BY <1>4 DEF PeerStep, Reads
<1> QED
  BY <1>1, <1>2, <1>3, <1>4

\* The first element after the segment that came before it is what the code
\* reads of the input.
LEMMA PlaceIsRead ==
  ASSUME PipeTypes, inbox["client"] # <<>>, chunk = <<>>
  PROVE  /\ Unread = inbox["client"]
         /\ Place(inbox["client"]) = IF Head(inbox["client"]) = "part" THEN 2 ELSE 1
<1>1. inbox["client"] \in Seq(Pieces)
  BY DEF PipeTypes, Sides
<1>2. Head(inbox["client"]) = inbox["client"][1]
  BY <1>1
<1> QED
  BY <1>1, <1>2, ConcatEmptySeq DEF Unread, Place

\* A recv of a field ends the session, or reads a field the client may send
\* there, which is all it has sent but what follows the request.
LEMMA RecvFieldEffect ==
  ASSUME PipeTypes, InputOK, ChunkOK, RecvField,
         NEW q, q = inbox["client"], NEW n, n = Place(q)
  PROVE  \/ at' = "return" /\ inbox' = [inbox EXCEPT !["client"] = <<>>]
         \/ /\ Asks(q, Fields[at]) /\ q \in Seq(Pieces)
            /\ at' = AfterField(q[n]) /\ inbox' = [inbox EXCEPT !["client"] = Rest(q, n)]
            /\ q[n] # "port" => Len(q) = n
            /\ sent["client"] = Rest(q, n)
            /\ q[n] \in Credentials => cleared
<1>1. at \in FieldPoints /\ q # <<>> /\ q \in Seq(Pieces)
  BY DEF RecvField, PipeTypes, Sides
<1>2. peer["client"] # "reset" /\ at \in DOMAIN Fields
  BY <1>1 DEF InputOK, Sides, Fields, FieldPoints
<1>3. chunk = <<>>
  BY <1>1 DEF ChunkOK
<1>4. Unread = q /\ n = (IF Head(q) = "part" THEN 2 ELSE 1)
  BY <1>1, <1>3, PlaceIsRead
<1>5. IF Len(q) < n
      THEN at' = "return" /\ inbox' = [inbox EXCEPT !["client"] = <<>>]
      ELSE at' = AfterField(q[n]) /\ inbox' = [inbox EXCEPT !["client"] = Rest(q, n)]
  BY <1>4 DEF RecvField, Goto
<1>6. CASE NothingAsked(q)
  <2>1. q = <<"part">>
    BY <1>1, <1>6 DEF NothingAsked
  <2>2. n = 2 /\ Len(q) = 1
    BY <2>1 DEF Place
  <2> QED
    BY <1>5, <2>2
<1>7. CASE ~NothingAsked(q)
  <2>1. /\ Asks(q, Fields[at])
        /\ sent["client"] = IF q[n] \in Plain THEN q ELSE Rest(q, n)
        /\ q[n] \in Credentials => cleared
    BY <1>2, <1>4, <1>7 DEF InputOK
  <2>2. n \in {1, 2} /\ n <= Len(q) /\ Len(q) \in Nat
    BY <1>1, <2>1, LenProperties DEF Asks, Place
  <2>3. q[n] \notin Plain /\ q[n] \notin Heads
    BY <1>1, <2>1 DEF Asks, Fields, FieldPoints, Plain, Heads
  <2>4. q[n] # "port" => Len(q) = n
    BY <2>1, <2>2, <2>3 DEF Asks
  <2> QED
    BY <1>1, <1>5, <2>1, <2>2, <2>3, <2>4
<1> QED
  BY <1>6, <1>7

LEMMA RecvFieldMoves ==
  ASSUME PipeTypes, InputOK, ChunkOK, RecvField
  PROVE  \/ at' = "return"
         \/ at = "user" /\ at' = "password"
         \/ at = "password" /\ at' = "say_welcome" /\ cleared
         \/ at = "password" /\ at' = "say_denied"
         \/ at = "header" /\ at' \in {"addr", "say_unsupported"}
         \/ at = "addr" /\ at' = "port"
         \/ at = "port" /\ at' = "connecting"
<1> DEFINE q == inbox["client"]
           n == Place(q)
<1>1. at \in FieldPoints
  BY DEF RecvField
<1>2. \/ at' = "return"
      \/ /\ q[n] \in Fields[at] /\ at' = AfterField(q[n])
         /\ q[n] \in Credentials => cleared
  BY RecvFieldEffect DEF Asks
<1> HIDE DEF q, n
<1> QED
  BY <1>1, <1>2 DEF FieldPoints, Fields, AfterField, Credentials

-----------------------------------------------------------------------------
(* The program points, and what is held at each.                           *)

LEMMA PointsOfRelay ==
  ASSUME Relays \/ RelayFails
  PROVE  /\ UNCHANGED <<mode, speaks, listed, active, client, target>>
         /\ at \in RelayPoints /\ at' \in InRelay
         /\ \/ reason' = reason
            \/ at' = "relayed" /\ reason' \in {"idle", "poll", "client", "target", "reset",
                                               "write", "hang_up"}
BY DEF Relays, RelayFails, PollFails, RelayStep, PollReady, PollTimeout, Account,
       HangUp, Pass, Recv, RecvEnds, Send, SendWaits, SendBreaks, SendDone,
       Goto, Ends, AfterDirection, SendAt, RecvAt, Sides, RelayPoints, InRelay,
       entry, sockets, Other, config

LEMMA PointsOfLink ==
  ASSUME Connecting
  PROVE  /\ UNCHANGED <<mode, speaks, listed, active, client, reason, chunk>>
         /\ at \in LinkPoints \ {"linked"} /\ at' \in LinkPoints
         /\ at \in Shaking /\ at' \in Shaking \cup {"linked"} => target' = target
         /\ at' \notin {"connecting", "unlinked"} /\ at \in {"connecting", "unlinked"}
               => target' = "open"
         /\ at' \in {"connecting", "unlinked"} =>
               IF at \in {"connecting", "unlinked"} THEN target' = target ELSE target' = "closed"
<1> USE DEF Connecting, LinkPoints, SocksPoints, HttpPoints, Shaking, Goto, GivesUp, Links,
            answer, buffer, config, entry, relaying, clock
<1>1. CASE \E way \in Via : Dial(way) \/ DialFails(way)
  BY <1>1, UpstreamAssumption DEF Dial, DialFails, Ways
<1>2. CASE Retry
  BY <1>2 DEF Retry
<1>3. CASE Say \/ SayFails
  BY <1>3 DEF Say, AfterSay, SayFails
<1>4. CASE ReadAnswer
  BY <1>4 DEF ReadAnswer, AfterAnswer
<1>5. CASE ReadLength \/ ReadRest
  BY <1>5 DEF ReadLength, ReadRest
<1>6. CASE NodeSilent
  BY <1>6 DEF NodeSilent, Waits
<1>7. CASE ReadByte \/ HeadDone
  BY <1>7 DEF ReadByte, HeadDone
<1> QED
  BY <1>1, <1>2, <1>3, <1>4, <1>5, <1>6, <1>7 DEF UpstreamStep

LEMMA PointsStep ==
  ASSUME PointTypes, PipeTypes, Owned, InputOK, ChunkOK, SessionNext
  PROVE  PointTypes' /\ Owned'
<1> USE DEF Owned, Before, SocksOnly, HttpOnly, InRelay, RelayPoints, Socketed,
            LinkPoints, Checked, FieldPoints, Fields, Shaking, SocksPoints, HttpPoints,
            entry, sockets, relaying, config, Goto
<1>0. /\ mode \in {"SOCKS5", "HTTP", "DUAL"} /\ speaks \in {"SOCKS5", "HTTP"}
      /\ at \in Points
  BY SessionAssumption DEF PointTypes
<1> USE DEF PointTypes, Points, Replies, AfterReply
<1>1. CASE Accept
  BY <1>0, <1>1 DEF Accept, Register, FirstPoint
<1>2. CASE Peek
  BY <1>0, <1>2 DEF Peek, Register, FirstPoint
<1>3. CASE Unregister \/ CloseClient
  BY <1>3 DEF Unregister, CloseClient
<1>4. CASE RecvFails
  BY <1>4 DEF RecvFails
<1>5. CASE Reply \/ ReplyFails
  BY <1>5 DEF Reply, ReplyFails
<1>6. CASE Greet
  BY <1>6 DEF Greet, MethodReply
<1>7. CASE RecvField
  BY <1>7, RecvFieldMoves DEF RecvField
<1>8. CASE ReadHead
  BY <1>8 DEF ReadHead
<1>9. CASE Request
  BY <1>9 DEF Request
<1>10. CASE SendEarly
  BY <1>10 DEF SendEarly
<1>11. CASE Connecting
  BY <1>11, PointsOfLink
<1>12. CASE Connects
  BY <1>12 DEF Connects, Opened
<1>13. CASE NotConnected
  BY <1>13 DEF NotConnected
<1>14. CASE Start
  BY <1>14 DEF Start
<1>15. CASE Relays \/ RelayFails
  BY <1>15, PointsOfRelay
<1>16. CASE Finish
  BY <1>16 DEF Finish
<1>17. CASE CloseTarget
  BY <1>17 DEF CloseTarget
<1>18. CASE \/ Reload \/ NodeAnswers \/ ClientStep
            \/ \E s \in Sides : PeerStep(s) \/ Reads(s)
  BY <1>18, OthersFrame
<1> QED
  BY <1>1, <1>2, <1>3, <1>4, <1>5, <1>6, <1>7, <1>8, <1>9, <1>10, <1>11, <1>12,
     <1>13, <1>14, <1>15, <1>16, <1>17, <1>18 DEF SessionNext, ThreadStep

-----------------------------------------------------------------------------
(* What is known of the constants.                                         *)

LEMMA PayloadFacts ==
  /\ Payload \subseteq Pieces /\ Body["client"] \in Seq(Payload)
  /\ \A x \in Payload : x \notin Heads /\ x \notin Replies /\ x # "part"
  /\ \A i \in DOMAIN Body["client"] : Body["client"][i] \in Payload
<1>1. Body["client"] \in Seq(STRING)
  BY SessionAssumption DEF Sides
<1>2. Payload = {Body["client"][i] : i \in DOMAIN Body["client"]}
  BY DEF Payload, ToSet
<1>3. Body["client"] \in Seq(Payload)
  <2>1. Range(Body["client"]) = Payload
    BY <1>1, <1>2 DEF Range
  <2> QED
    BY <1>1, <2>1, SeqOfRange
<1>4. Payload \cap (Heads \cup Replies \cup {"part"}) = {}
  BY PieceAssumption DEF Payload, Sides
<1>5. Payload \subseteq Pieces
  BY DEF Payload, Pieces
<1> QED
  BY <1>2, <1>3, <1>4, <1>5

LEMMA OpeningFacts ==
  /\ Opening \subseteq Hellos \cup Heads /\ Opening \subseteq Pieces
  /\ "part" \notin Opening
  /\ speaks = "SOCKS5" => Opening = Hellos
  /\ speaks # "SOCKS5" => Opening \subseteq Heads
<1>1. Requests \subseteq Heads
  BY PieceAssumption
<1>2. Hellos \cup Heads \subseteq Pieces /\ "part" \notin Hellos \cup Heads
  BY DEF Hellos, Heads, Pieces
<1>3. Opening = IF speaks = "SOCKS5" THEN Hellos ELSE Requests
  BY DEF Opening
<1> QED
  BY <1>1, <1>2, <1>3

LEMMA FieldsTyped ==
  ASSUME at \in DOMAIN Fields
  PROVE  Fields[at] \subseteq Pieces /\ "part" \notin Fields[at] /\ "part" \in Pieces
<1>1. Opening \subseteq Pieces /\ "part" \notin Opening
  BY OpeningFacts
<1>2. Fields[at] = Opening \/ Fields[at] \subseteq
        {"user", "junk", "password_right", "password_wrong", "connect",
         "other_command", "addr", "port"}
  BY DEF Fields
<1>3. {"part", "user", "junk", "password_right", "password_wrong", "connect",
       "other_command", "addr", "port"} \subseteq Pieces
  BY DEF Pieces
<1> QED
  BY <1>1, <1>2, <1>3

\* The header is found where it is.
LEMMA HeadIsPlaced ==
  ASSUME NEW q \in Seq(Pieces), NEW H, H \subseteq Heads, Asks(q, H),
         NEW h, h = CHOOSE i \in DOMAIN q : q[i] \in Heads
  PROVE  h = Place(q) /\ h \in DOMAIN q /\ q[h] \in H
<1> DEFINE n == Place(q)
<1>1. Len(q) \in Nat /\ DOMAIN q = 1 .. Len(q)
  BY LenProperties
<1>2. n \in {1, 2} /\ n <= Len(q) /\ q[n] \in H /\ (n = 2 => q[1] = "part")
      /\ \A i \in n + 1 .. Len(q) : q[i] \in Payload
  BY DEF Asks, Place
<1>3. n \in DOMAIN q /\ q[n] \in Heads
  BY <1>1, <1>2
<1>4. ASSUME NEW i \in DOMAIN q, q[i] \in Heads PROVE i = n
  <2>1. "part" \notin Heads
    BY DEF Heads
  <2>2. i \notin n + 1 .. Len(q)
    BY <1>2, <1>4, PayloadFacts
  <2>3. n = 2 => i # 1
    BY <1>2, <1>4, <2>1
  <2> QED
    BY <1>1, <1>2, <1>4, <2>2, <2>3
<1>5. h = n
  BY <1>3, <1>4
<1> QED
  BY <1>2, <1>3, <1>5

LEMMA HeadIsFound ==
  ASSUME chunk \in Seq(Pieces), NEW H, H \subseteq Heads, Asks(chunk, H)
  PROVE  HeadAt = Place(chunk) /\ HeadAt \in DOMAIN chunk /\ chunk[HeadAt] \in H
BY HeadIsPlaced DEF HeadAt

-----------------------------------------------------------------------------
(* Authentication.                                                         *)

LEMMA ClearedGrows ==
  ASSUME FlagTypes, SessionNext
  PROVE  /\ cleared => cleared'
         /\ cleared' \in BOOLEAN
<1> USE DEF FlagTypes, history
<1>1. CASE Reload
  BY <1>1 DEF Reload
<1>2. CASE ClientStep
  BY <1>2 DEF ClientStep, SendsField
<1>3. CASE SendEarly
  BY <1>3 DEF SendEarly
<1>4. CASE ThreadStep /\ ~SendEarly
  BY <1>4 DEF ThreadStep, Accept, Peek, Unregister, CloseClient, RecvFails, Reply,
              ReplyFails, Greet, RecvField, ReadHead, Request, Connecting, Connects,
              NotConnected, Start, Relays, Finish, CloseTarget
<1>5. CASE RelayFails \/ NodeAnswers \/ \E s \in Sides : PeerStep(s) \/ Reads(s)
  BY <1>5 DEF RelayFails, NodeAnswers, PeerStep, Reads
<1> QED
  BY <1>1, <1>2, <1>3, <1>4, <1>5 DEF SessionNext

LEMMA AuthKept ==
  ASSUME SessionNext, ~Reload
  PROVE  auth' = auth
<1> USE DEF config
<1>1. CASE ThreadStep
  BY <1>1 DEF ThreadStep, Accept, Peek, Unregister, CloseClient, RecvFails, Reply,
              ReplyFails, Greet, RecvField, ReadHead, Request, Connecting, Connects,
              NotConnected, Start, Relays, Finish, CloseTarget, SendEarly
<1>2. CASE ClientStep \/ RelayFails \/ NodeAnswers \/ \E s \in Sides : PeerStep(s) \/ Reads(s)
  BY <1>2 DEF RelayFails, NodeAnswers, PeerStep, Reads, ClientStep
<1> QED
  BY <1>1, <1>2 DEF SessionNext

LEMMA FlagTypesStep ==
  ASSUME FlagTypes, SessionNext
  PROVE  FlagTypes'
<1>1. cleared' \in BOOLEAN
  BY ClearedGrows
<1>2. auth' \in BOOLEAN
  <2>1. CASE Reload
    BY <2>1 DEF Reload
  <2> QED
    BY <2>1, AuthKept DEF FlagTypes
<1>3. granted' \in BOOLEAN
  <2>1. CASE Connecting
    BY <2>1 DEF Connecting, UpstreamStep, Dial, DialFails, Retry, Say, SayFails,
                ReadAnswer, ReadLength, ReadRest, NodeSilent, ReadByte, HeadDone,
                answer, FlagTypes
  <2>2. CASE ~Connecting
    <3>1. granted' = granted
      BY <2>2 DEF SessionNext, ThreadStep, Accept, Peek, Unregister, CloseClient, RecvFails,
              Reply, ReplyFails, Greet, RecvField, ReadHead, Request, Connects, NotConnected,
              Start, Relays, Finish, CloseTarget, SendEarly, ClientStep, RelayFails,
              NodeAnswers, NodeSends, PeerStep, Reads, Reload, answer, ForgetsAttempts
    <3> QED
      BY <3>1 DEF FlagTypes
  <2> QED
    BY <2>1, <2>2
<1> QED
  BY <1>1, <1>2, <1>3 DEF FlagTypes

\* Whether a client has proved itself is settled before its target is looked for.
LEMMA ClearedStep ==
  ASSUME PointTypes, FlagTypes, PipeTypes, Owned, InputOK, ChunkOK, ClearedOK, SessionNext
  PROVE  ClearedOK'
<1>1. ~auth' => cleared'
  <2>1. CASE Reload
    BY <2>1, ClearedGrows DEF Reload, FlagTypes
  <2> QED
    BY <2>1, AuthKept, ClearedGrows DEF ClearedOK
<1> DEFINE Proved == {"say_no_auth", "say_welcome", "header", "addr", "port"} \cup LinkPoints
<1>2. at' \in Proved => at \in Proved \/ cleared \/ ~auth \/ at' = at
  <2> USE DEF LinkPoints, SocksPoints, HttpPoints, Goto
  <2>1. CASE RecvField
    BY <2>1, RecvFieldMoves
  <2>2. CASE Greet
    BY <2>2 DEF Greet, MethodReply
  <2>3. CASE Reply \/ ReplyFails
    BY <2>3 DEF Reply, ReplyFails, AfterReply, Replies, Checked
  <2>4. CASE Request
    <3>1. at = "request" /\ chunk \in Seq(Pieces) /\ Asks(chunk, Heads)
      BY <2>4 DEF Request, PipeTypes, ChunkOK, HeadKept
    <3>2. HeadAt = Place(chunk)
      BY <3>1, HeadIsFound
    <3> QED
      BY <2>4, <3>1, <3>2 DEF Request, ChunkOK
  <2>5. CASE Connecting
    BY <2>5, PointsOfLink
  <2>6. CASE \/ Accept \/ Peek \/ Unregister \/ CloseClient \/ RecvFails \/ ReadHead
             \/ SendEarly \/ Connects \/ NotConnected \/ Start \/ Finish \/ CloseTarget
    BY <2>6 DEF Accept, Peek, Register, FirstPoint, Unregister, CloseClient, RecvFails,
            ReadHead, SendEarly, Connects, Opened, NotConnected, Start, Finish, CloseTarget
  <2>7. CASE Relays \/ RelayFails
    BY <2>7, PointsOfRelay DEF InRelay, RelayPoints
  <2>8. CASE \/ Reload \/ NodeAnswers \/ ClientStep
             \/ \E s \in Sides : PeerStep(s) \/ Reads(s)
    BY <2>8, OthersFrame
  <2> QED
    BY <2>1, <2>2, <2>3, <2>4, <2>5, <2>6, <2>7, <2>8 DEF SessionNext, ThreadStep
<1>3. at' \in Proved => cleared'
  BY <1>2, ClearedGrows DEF ClearedOK
<1>4. target' # "none" => cleared'
  <2>1. CASE target # "none"
    BY <2>1, ClearedGrows DEF ClearedOK
  <2>2. CASE Connecting
    BY <2>2, <1>3, PointsOfLink
  <2>3. CASE CloseTarget
    BY <2>3, <2>1 DEF CloseTarget, Owned, Socketed
  <2>4. CASE ~Connecting /\ ~CloseTarget
    <3>1. target' = target
      BY <2>4 DEF SessionNext, ThreadStep, Accept, Peek, Unregister, CloseClient, RecvFails,
              Reply, ReplyFails, Greet, RecvField, ReadHead, Request, Connects, NotConnected,
              Start, Relays, Finish, SendEarly, ClientStep, RelayFails,
              NodeAnswers, NodeSends, PeerStep, Reads, Reload, sockets
    <3> QED
      BY <2>1, <3>1
  <2> QED
    BY <2>2, <2>3, <2>4
<1> QED
  BY <1>1, <1>3, <1>4 DEF ClearedOK

-----------------------------------------------------------------------------
(* The buffer.                                                             *)

LEMMA RelayChunk ==
  ASSUME Relays \/ RelayFails, at \in RelayPoints \ {"send_client", "send_target"} => chunk = <<>>
  PROVE  at' \in RelayPoints \ {"send_client", "send_target"} => chunk' = <<>>
<1> USE DEF Goto, Ends, buffer, RelayPoints, AfterDirection, SendAt, RecvAt, Sides
<1>1. CASE RelayFails \/ PollReady \/ PollTimeout \/ Account \/ HangUp
  BY <1>1 DEF RelayFails, PollFails, PollReady, PollTimeout, Account, HangUp
<1>2. ASSUME NEW s \in Sides, Pass(s) \/ RecvEnds(s) \/ SendBreaks(s) \/ SendWaits(s)
      PROVE  at' \in RelayPoints \ {"send_client", "send_target"} => chunk' = <<>>
  BY <1>2 DEF Pass, RecvEnds, SendBreaks, SendWaits
<1>3. ASSUME NEW s \in Sides, Recv(s) \/ Send(s)
      PROVE  at' \in {"send_client", "send_target"}
  <2>1. Other(s) \in Sides
    BY DEF Other
  <2> QED
    BY <1>3, <2>1 DEF Recv, Send
<1>4. ASSUME NEW s \in Sides, SendDone(s)
      PROVE  chunk' = <<>>
  BY <1>4 DEF SendDone
<1> QED
  BY <1>1, <1>2, <1>3, <1>4 DEF Relays, RelayStep

\* A header that is whole is what was read last, with what follows it.
LEMMA ReadHeadEffect ==
  ASSUME PointTypes, PipeTypes, InputOK, ReadHead
  PROVE  /\ peer["client"] # "reset" /\ chunk' = Unread /\ Unread \in Seq(Pieces)
         /\ inbox' = [inbox EXCEPT !["client"] = <<>>]
         /\ at' \in {"request", "head"}
         /\ at' = "request" =>
               /\ Asks(Unread, Heads)
               /\ sent["client"] = IF Unread[Place(Unread)] \in Plain THEN Unread
                                   ELSE Rest(Unread, Place(Unread))
               /\ Unread[Place(Unread)] \in Credentials => cleared
<1>1. /\ at = "head" /\ inbox["client"] # <<>> /\ chunk' = Unread
      /\ inbox' = [inbox EXCEPT !["client"] = <<>>]
      /\ at' = (IF Has(Unread, Heads) THEN "request" ELSE "head")
  BY DEF ReadHead, Goto, Unread
<1>2. peer["client"] # "reset" /\ at \in DOMAIN Fields /\ Fields[at] = Opening
  BY <1>1 DEF InputOK, Sides, Fields
<1>3. Unread \in Seq(Pieces)
  BY ConcatProperties DEF Unread, PipeTypes, Sides
<1>4. ASSUME at' = "request"
      PROVE  /\ Asks(Unread, Heads)
             /\ sent["client"] = IF Unread[Place(Unread)] \in Plain THEN Unread
                                 ELSE Rest(Unread, Place(Unread))
             /\ Unread[Place(Unread)] \in Credentials => cleared
  <2>1. PICK i \in DOMAIN Unread : Unread[i] \in Heads
    BY <1>1, <1>4 DEF Has
  <2>2. ~NothingAsked(Unread)
    <3>1. "part" \notin Heads
      BY DEF Heads
    <3> QED
      BY <2>1, <3>1 DEF NothingAsked
  <2>3. /\ Asks(Unread, Opening)
        /\ sent["client"] = IF Unread[Place(Unread)] \in Plain THEN Unread
                            ELSE Rest(Unread, Place(Unread))
        /\ Unread[Place(Unread)] \in Credentials => cleared
    BY <1>2, <2>2 DEF InputOK
  <2>4. DOMAIN Unread = 1 .. Len(Unread) /\ Len(Unread) \in Nat
    BY <1>3, LenProperties
  <2>5. i = Place(Unread)
    <3>1. "part" \notin Heads
      BY DEF Heads
    <3>2. i \notin Place(Unread) + 1 .. Len(Unread)
      BY <2>1, <2>3, PayloadFacts DEF Asks
    <3>3. Place(Unread) = 2 => Unread[1] = "part"
      BY DEF Place
    <3>4. Place(Unread) \in {1, 2}
      BY DEF Place
    <3> QED
      BY <2>1, <2>4, <3>1, <3>2, <3>3, <3>4
  <2> QED
    BY <2>1, <2>3, <2>5 DEF Asks
<1> QED
  BY <1>1, <1>2, <1>3, <1>4

LEMMA ChunkStep ==
  ASSUME PointTypes, PipeTypes, Owned, InputOK, ChunkOK, SessionNext
  PROVE  ChunkOK'
<1> DEFINE H == IF at = "request" THEN Heads ELSE Tunnels \cup Plain
           Empty == FieldPoints \cup {"accept", "peek", "say_no_auth", "say_password",
                      "say_welcome", "say_connected", "connected"}
                      \cup (RelayPoints \ {"send_client", "send_target"})
           Used == Empty \cup LinkPoints \cup {"request", "say_200", "early"}
<1> USE DEF ChunkOK, HeadKept, Owned, SocksOnly, HttpOnly, RelayPoints, LinkPoints,
            SocksPoints, HttpPoints, FieldPoints, entry, buffer, Goto
<1>1. CASE Accept
  BY <1>1 DEF Accept, Register, FirstPoint
<1>2. CASE Peek
  BY <1>2 DEF Peek, Register, FirstPoint
<1>3. CASE Unregister \/ CloseClient
  BY <1>3 DEF Unregister, CloseClient
<1>4. CASE RecvFails \/ NotConnected
  BY <1>4 DEF RecvFails, NotConnected
<1>5. CASE Reply \/ ReplyFails
  BY <1>5 DEF Reply, ReplyFails, AfterReply, Replies, Checked
<1>6. CASE Greet
  BY <1>6 DEF Greet, MethodReply
<1>7. CASE RecvField
  <2>1. chunk = <<>> /\ chunk' = <<>> /\ listed' = listed /\ listed = "SOCKS5"
    BY <1>7 DEF RecvField
  <2>2. at' \notin {"request", "say_200", "early"}
    BY <1>7, RecvFieldMoves
  <2> QED
    BY <2>1, <2>2
<1>8. CASE ReadHead
  <2>1. listed' = "HTTP"
    BY <1>8 DEF ReadHead
  <2>2. /\ chunk' = Unread /\ at' \in {"request", "head"}
        /\ at' = "request" => /\ Asks(Unread, Heads)
                              /\ Unread[Place(Unread)] \in Authorized => cleared
    BY <1>8, ReadHeadEffect DEF Credentials
  <2>3. cleared' = cleared
    BY <1>8 DEF ReadHead, history
  <2> QED
    BY <2>1, <2>2, <2>3 DEF Asks
<1>9. CASE Request
  <2>1. at = "request" /\ chunk \in Seq(Pieces) /\ Asks(chunk, Heads)
    BY <1>9 DEF Request, PipeTypes
  <2>2. HeadAt = Place(chunk) /\ chunk[HeadAt] \in Heads
    BY <2>1, HeadIsFound
  <2>3. chunk' = chunk /\ listed' = listed /\ listed = "HTTP"
    BY <1>9, <2>1 DEF Request
  <2>4. at' \in {"terminated", "return", "say_407", "connecting"}
    BY <1>9 DEF Request
  <2>5. at' = "connecting" => chunk[HeadAt] \in Tunnels \cup Plain
    BY <1>9, <2>2 DEF Request, Heads, Tunnels, Plain
  <2> QED
    BY <2>1, <2>2, <2>3, <2>4, <2>5 DEF Asks
<1>10. CASE SendEarly \/ Start
  BY <1>10 DEF SendEarly, Start
<1>11. CASE Connecting
  BY <1>11, PointsOfLink DEF Asks
<1>12. CASE Connects
  BY <1>12 DEF Connects, Opened, Asks, PointTypes
<1>13. CASE Relays \/ RelayFails
  <2>1. at' \in RelayPoints \ {"send_client", "send_target"} => chunk' = <<>>
    BY <1>13, RelayChunk
  <2>2. at' \in InRelay
    BY <1>13, PointsOfRelay
  <2> QED
    BY <2>1, <2>2 DEF InRelay
<1>14. CASE Finish
  BY <1>14 DEF Finish
<1>15. CASE CloseTarget
  BY <1>15 DEF CloseTarget
<1>16. CASE \/ Reload \/ NodeAnswers \/ ClientStep
            \/ \E s \in Sides : PeerStep(s) \/ Reads(s)
  <2>1. UNCHANGED <<at, chunk, listed>> /\ (cleared => cleared')
    BY <1>16, OthersFrame DEF Reload, NodeAnswers, ClientStep, SendsField, PeerStep, Reads, history
  <2> QED
    BY <2>1 DEF Asks
<1> QED
  BY <1>1, <1>2, <1>3, <1>4, <1>5, <1>6, <1>7, <1>8, <1>9, <1>10, <1>11, <1>12,
     <1>13, <1>14, <1>15, <1>16 DEF SessionNext, ThreadStep

-----------------------------------------------------------------------------
(* The input.                                                              *)

LEMMA NothingIsNoField ==
  ASSUME NEW q \in {<<>>, <<"part">>}, NEW F
  PROVE  ~Asks(q, F)
<1>1. CASE q = <<>>
  <2>1. Len(q) = 0 /\ Place(q) >= 1
    BY <1>1 DEF Place
  <2> QED
    BY <2>1 DEF Asks, Place
<1>2. CASE q = <<"part">>
  <2>1. Len(q) = 1 /\ Place(q) = 2
    BY <1>2 DEF Place
  <2> QED
    BY <2>1 DEF Asks
<1> QED
  BY <1>1, <1>2

\* A greeting that is whole is all the client has sent; of one in two segments
\* the first is kept.
LEMMA GreetEffect ==
  ASSUME PointTypes, PipeTypes, InputOK, Greet
  PROVE  /\ inbox' = [inbox EXCEPT !["client"] = <<>>] /\ peer["client"] # "reset"
         /\ at' # "return" => sent["client"] = <<>>
         /\ at' = "greeting" => chunk' = <<"part">>
         /\ at' # "greeting" => chunk' = <<>>
         /\ at' \in {"return", "greeting", "say_no_method", "say_password", "say_no_auth"}
<1> DEFINE q == inbox["client"]
<1>1. at = "greeting" /\ q # <<>> /\ q \in Seq(Pieces) /\ chunk \in Seq(Pieces)
  BY DEF Greet, PipeTypes, Sides
<1>2. peer["client"] # "reset" /\ at \in DOMAIN Fields /\ Fields[at] = Opening
  BY <1>1 DEF InputOK, Sides, Fields
<1>3. /\ inbox' = [inbox EXCEPT !["client"] = <<>>]
      /\ at' = "greeting" => chunk' = <<"part">>
      /\ at' # "greeting" => chunk' = <<>>
      /\ at' \in {"return", "greeting", "say_no_method", "say_password", "say_no_auth"}
      /\ at' # "return" => speaks = "SOCKS5"
  BY DEF Greet, MethodReply, Goto
<1>4. ASSUME speaks = "SOCKS5", ~NothingAsked(Unread)
      PROVE  sent["client"] = <<>>
  <2>1. /\ Asks(Unread, Hellos)
        /\ sent["client"] = IF Unread[Place(Unread)] \in Plain THEN Unread
                            ELSE Rest(Unread, Place(Unread))
    BY <1>2, <1>4, OpeningFacts DEF InputOK
  <2>2. /\ Unread[Place(Unread)] \notin Plain
        /\ Unread[Place(Unread)] \notin {"port"} \cup Heads
    BY <2>1 DEF Asks, Plain, Heads, Hellos
  <2>3. Unread \in Seq(Pieces) /\ Len(Unread) \in Nat /\ Place(Unread) \in {1, 2}
    BY <1>1, ConcatProperties, LenProperties DEF Unread, Place
  <2>4. Len(Unread) = Place(Unread)
    BY <2>1, <2>2, <2>3 DEF Asks
  <2>5. Rest(Unread, Place(Unread)) = <<>>
    BY <2>3, <2>4, SubSeqEmpty DEF Rest
  <2> QED
    BY <2>1, <2>2, <2>5
<1> QED
  BY <1>2, <1>3, <1>4 DEF NothingAsked

\* What a segment the client sends makes of the input.
LEMMA InputOfField ==
  ASSUME PointTypes, PipeTypes, InputOK, ClientStep
  PROVE  InputOK'
<1> DEFINE before == chunk \o inbox["client"]
<1>1. /\ at \in DOMAIN Fields /\ peer["client"] = "open" /\ before \in {<<>>, <<"part">>}
      /\ UNCHANGED <<got, peer, outbox>>
  BY DEF ClientStep, SendsField
<1>2. PICK piece \in Fields[at] \cup (IF before = <<>> THEN {"part"} ELSE {}) :
         /\ inbox' = [inbox EXCEPT !["client"] = Append(@, piece)]
         /\ sent' = [sent EXCEPT !["client"] =
                        IF piece \in Plain THEN Append(before, piece) ELSE @]
         /\ cleared' = (cleared \/ piece \in {"password_right"} \cup Authorized)
  BY DEF ClientStep, SendsField
<1>3. inbox["client"] \in Seq(Pieces) /\ chunk \in Seq(Pieces) /\ before \in Seq(Pieces)
  BY ConcatProperties DEF PipeTypes, Sides
<1>4. piece \in Pieces /\ (piece # "part" => piece \in Fields[at])
      /\ ("part" \notin Fields[at])
  BY <1>1, <1>2, FieldsTyped
<1> DEFINE after == Append(before, piece)
<1>5. chunk \o Append(inbox["client"], piece) = after
  BY <1>3, <1>4, AppendToConcat
<1>6. /\ peer' = peer /\ inbox'["client"] = Append(inbox["client"], piece)
      /\ \A s \in Sides : s # "client" => inbox'[s] = inbox[s]
      /\ sent'["client"] = IF piece \in Plain THEN after ELSE sent["client"]
  BY <1>1, <1>2 DEF PipeTypes, Sides
<1>7. sent["client"] = <<>>
  <2>1. ~Asks(before, Fields[at])
    BY <1>1, NothingIsNoField
  <2> QED
    BY <1>1, <2>1 DEF InputOK, NothingAsked, Unread
<1>8. \/ piece = "part" /\ after = <<"part">>
      \/ /\ piece # "part" /\ Asks(after, Fields[at]) /\ after[Place(after)] = piece
         /\ Len(after) = Place(after)
  <2>1. CASE before = <<>>
    <3>1. after = <<piece>>
      BY <2>1
    <3> QED
      BY <1>4, <3>1 DEF Asks, Place
  <2>2. CASE before = <<"part">>
    <3>1. piece \in Fields[at] /\ piece # "part"
      BY <1>2, <1>4, <2>2
    <3>2. after = <<"part">> \o <<piece>> /\ <<"part">> \in Seq(Pieces) /\ <<piece>> \in Seq(Pieces)
      BY <1>3, <1>4, <2>2, AppendIsConcat
    <3>3. Len(after) = 2 /\ after[1] = "part" /\ after[2] = piece
      BY <3>2, ConcatProperties
    <3> QED
      BY <3>1, <3>3 DEF Asks, Place
  <2> QED
    BY <1>1, <2>1, <2>2
<1>9. Len(after) = Place(after) => Rest(after, Place(after)) = <<>>
  <2>1. Place(after) \in Int
    BY DEF Place
  <2> QED
    BY <2>1, SubSeqEmpty DEF Rest
<1>10. chunk' = chunk /\ at' = at /\ speaks' = speaks
  BY DEF ClientStep, buffer
<1>11. Unread' = after /\ Fields' = Fields
  BY <1>5, <1>6, <1>10 DEF Unread, Fields, Opening
<1> HIDE DEF after, before
<1>12. \/ NothingAsked(Unread)'
      \/ /\ Asks(Unread', Fields'[at'])
         /\ sent'["client"] = IF Unread'[Place(Unread')] \in Plain THEN Unread'
                              ELSE Rest(Unread', Place(Unread'))
         /\ Unread'[Place(Unread')] \in Credentials => cleared'
  <2>1. CASE piece = "part" /\ after = <<"part">>
    <3>1. "part" \notin Plain
      BY DEF Plain
    <3> QED
      BY <1>6, <1>7, <1>11, <2>1, <3>1 DEF NothingAsked
  <2>2. CASE /\ piece # "part" /\ Asks(after, Fields[at]) /\ after[Place(after)] = piece
             /\ Len(after) = Place(after)
    BY <1>2, <1>6, <1>7, <1>9, <1>10, <1>11, <2>2 DEF Credentials
  <2> QED
    BY <1>8, <2>1, <2>2
<1>13. at \notin {"accept", "say_no_auth", "say_password", "say_welcome"}
  BY <1>1 DEF Fields
<1>14. \A s \in Sides : peer'[s] = "reset" => inbox'[s] = <<>>
  BY <1>1, <1>6 DEF InputOK
<1> QED
  BY <1>10, <1>12, <1>13, <1>14 DEF InputOK

\* What the client says after its request is put behind it.
LEMMA InputOfBody ==
  ASSUME PipeTypes, InputOK, SendsBody("client"),
         UNCHANGED <<at, chunk, speaks, cleared>>
  PROVE  InputOK'
<1> DEFINE q == Unread
           n == Place(q)
<1>1. PICK b \in Payload : PeerSends("client", b)
  BY PayloadFacts DEF SendsBody
<1>2. Requested /\ peer["client"] = "open"
  BY <1>1 DEF SendsBody, PeerSends
<1>3. /\ peer' = peer /\ inbox'["client"] = Append(inbox["client"], b)
      /\ \A s \in Sides : s # "client" => inbox'[s] = inbox[s]
      /\ sent'["client"] = Append(sent["client"], b)
  BY <1>1 DEF PeerSends, PipeTypes, Sides
<1>4. inbox["client"] \in Seq(Pieces) /\ chunk \in Seq(Pieces) /\ q \in Seq(Pieces)
      /\ b \in Pieces
  BY ConcatProperties, PayloadFacts DEF PipeTypes, Sides, Unread
<1>5. Unread' = Append(q, b)
  BY <1>3, <1>4, AppendToConcat DEF Unread
<1>6. Fields' = Fields
  BY DEF Fields, Opening
<1>7. at \in DOMAIN Fields => Has(inbox["client"], {"port"} \cup Heads)
  BY <1>2 DEF Requested, Fields, Checked, RelayPoints, LinkPoints, SocksPoints, HttpPoints
<1>8. at \notin {"accept", "say_no_auth", "say_password", "say_welcome"}
  <2>1. at \in {"accept", "say_no_auth", "say_password", "say_welcome"}
          => Has(inbox["client"], {"port"} \cup Heads)
    BY <1>2 DEF Requested, Checked, RelayPoints, LinkPoints, SocksPoints, HttpPoints
  <2> QED
    BY <2>1 DEF InputOK, Has
<1>9. ASSUME at \in DOMAIN Fields
      PROVE  /\ Asks(Append(q, b), Fields[at])
             /\ Place(Append(q, b)) = n /\ Append(q, b)[n] = q[n]
             /\ sent'["client"] = IF q[n] \in Plain THEN Append(q, b)
                                  ELSE Rest(Append(q, b), n)
             /\ q[n] \in Credentials => cleared
  <2>1. PICK i \in DOMAIN inbox["client"] : inbox["client"][i] \in {"port"} \cup Heads
    BY <1>7, <1>9 DEF Has
  <2>2. /\ DOMAIN inbox["client"] = 1 .. Len(inbox["client"])
        /\ Len(inbox["client"]) \in Nat /\ Len(chunk) \in Nat /\ Len(q) \in Nat
    BY <1>4, LenProperties
  <2>3. /\ Len(q) = Len(chunk) + Len(inbox["client"])
        /\ q[Len(chunk) + i] = inbox["client"][i]
    BY <1>4, <2>2, ConcatProperties DEF Unread
  <2> HIDE DEF q
  <2>4. PICK j \in 1 .. Len(q) : q[j] \in {"port"} \cup Heads
    BY <2>1, <2>2, <2>3
  <2>5. "part" \notin {"port"} \cup Heads
    BY DEF Heads
  <2>6. ~NothingAsked(q)
    BY <2>4, <2>5 DEF NothingAsked
  <2>7. /\ Asks(q, Fields[at])
        /\ sent["client"] = IF q[n] \in Plain THEN q ELSE Rest(q, n)
        /\ q[n] \in Credentials => cleared
    BY <1>2, <1>9, <2>6 DEF InputOK, q
  <2>8. n \in {1, 2} /\ n <= Len(q) /\ (n = 2 => q[1] = "part")
    BY <2>7 DEF Asks, Place
  <2>9. q[n] \in {"port"} \cup Heads
    <3>1. CASE Len(q) > n
      BY <2>7, <3>1 DEF Asks
    <3>2. CASE Len(q) = n
      BY <2>2, <2>4, <2>5, <2>8, <3>2
    <3> QED
      BY <2>2, <2>8, <3>1, <3>2
  <2> DEFINE r == Append(q, b)
  <2>10. /\ r \in Seq(Pieces) /\ Len(r) = Len(q) + 1 /\ r[Len(q) + 1] = b
         /\ \A k \in 1 .. Len(q) : r[k] = q[k]
    BY <1>4, AppendProperties
  <2> HIDE DEF r
  <2>11. Place(r) = n /\ r[n] = q[n]
    BY <2>2, <2>8, <2>10 DEF Place
  <2>12. \A k \in n + 1 .. Len(r) : r[k] \in Payload
    <3>1. TAKE k \in n + 1 .. Len(r)
    <3>2. k \in n + 1 .. Len(q) \/ k = Len(q) + 1
      BY <2>2, <2>8, <2>10
    <3>3. CASE k \in n + 1 .. Len(q)
      <4>1. k \in 1 .. Len(q) /\ q[k] \in Payload
        BY <2>2, <2>7, <2>8, <3>3 DEF Asks
      <4> QED
        BY <2>10, <4>1
    <3> QED
      BY <2>10, <3>2, <3>3
  <2>13. Asks(r, Fields[at])
    BY <2>2, <2>7, <2>8, <2>9, <2>10, <2>11, <2>12 DEF Asks
  <2>14. Rest(r, n) = Append(Rest(q, n), b)
    <3>1. n \in 0 .. Len(q) /\ n \in Nat
      BY <2>2, <2>8
    <3>2. q \in Seq(Pieces)
      BY <1>4 DEF q
    <3>3. <<b>> \in Seq(Pieces) /\ Rest(q, n) \in Seq(Pieces)
      BY <1>4, <3>1, <3>2, RestProperties
    <3>4. Rest(q \o <<b>>, n) = Rest(q, n) \o <<b>>
      BY <3>1, <3>2, <3>3, RestOfConcat
    <3> QED
      BY <1>4, <3>2, <3>3, <3>4, AppendIsConcat DEF r
  <2> QED
    BY <1>3, <2>7, <2>11, <2>13, <2>14 DEF r
<1>10. \A s \in Sides : peer'[s] = "reset" => inbox'[s] = <<>>
  BY <1>2, <1>3 DEF InputOK
<1>11. at' = "greeting" => chunk' \in {<<>>, <<"part">>}
  BY DEF InputOK
<1> HIDE DEF q, n
<1> QED
  BY <1>5, <1>6, <1>8, <1>9, <1>10, <1>11 DEF InputOK, q, n

LEMMA InputKept ==
  ASSUME InputOK, cleared => cleared',
         UNCHANGED <<at, chunk, speaks, sent["client"], inbox["client"], peer["client"]>>,
         peer'["target"] = "reset" => inbox'["target"] = <<>>
  PROVE  InputOK'
<1>1. Unread' = Unread /\ Fields' = Fields /\ NothingAsked(Unread)' = NothingAsked(Unread)
  BY DEF Unread, Fields, Opening, NothingAsked
<1>2. \A s \in Sides : peer'[s] = "reset" => inbox'[s] = <<>>
  BY DEF InputOK, Sides
<1> QED
  BY <1>1, <1>2 DEF InputOK

\* What the other steps make of the target's connection: what was reset has
\* nothing more to be received.
LEMMA TakeOfNothing ==
  ASSUME PipeTypes, NEW n \in Nat, Take(n), inbox["target"] = <<>>
  PROVE  inbox'["target"] = <<>>
<1>1. Arrived(n) = <<>>
  <2>1. Len(inbox["target"]) = 0 /\ Least(n, 0) = 0
    BY DEF Least
  <2> QED
    BY <2>1 DEF Arrived, First
<1>2. Rest(<<>>, 0) = <<>>
  BY DEF Rest
<1> QED
  BY <1>1, <1>2 DEF Take, PipeTypes, Sides

LEMMA LinkClientSide ==
  ASSUME PipeTypes, InputOK, Connecting
  PROVE  /\ sent'["client"] = sent["client"] /\ inbox'["client"] = inbox["client"]
         /\ peer'["client"] = peer["client"] /\ UNCHANGED <<got, outbox>>
         /\ peer'["target"] = "reset" => inbox'["target"] = <<>>
<1> USE DEF PipeTypes, InputOK, Sides, ends, pipes
<1>1. CASE \E way \in Via : Dial(way)
  BY <1>1 DEF Dial
<1>2. CASE \/ \E way \in Via : DialFails(way)
           \/ Retry \/ Say \/ SayFails \/ NodeSilent \/ HeadDone
  BY <1>2 DEF DialFails, Retry, Say, SayFails, NodeSilent, HeadDone
<1>3. ASSUME NEW n \in Nat, Take(n), UNCHANGED <<ends, outbox>>
      PROVE  /\ sent'["client"] = sent["client"] /\ inbox'["client"] = inbox["client"]
             /\ peer'["client"] = peer["client"] /\ UNCHANGED <<got, outbox>>
             /\ peer'["target"] = "reset" => inbox'["target"] = <<>>
  BY <1>3, TakeOfNothing DEF Take
<1>4. CASE ReadAnswer \/ ReadLength \/ ReadByte
  BY <1>3, <1>4 DEF ReadAnswer, ReadLength, ReadByte
<1>5. CASE ReadRest
  BY <1>3, <1>5 DEF ReadRest
<1> QED
  BY <1>1, <1>2, <1>4, <1>5 DEF Connecting, UpstreamStep

LEMMA RelayReceives ==
  ASSUME PipeTypes, InputOK, Relays \/ RelayFails
  PROVE  /\ UNCHANGED <<sent, got, peer>>
         /\ \A s \in Sides : peer'[s] = "reset" => inbox'[s] = <<>>
<1> USE DEF PipeTypes, InputOK, ends, pipes
<1>1. CASE RelayFails \/ PollReady \/ PollTimeout \/ Account \/ HangUp
  BY <1>1 DEF RelayFails, PollFails, PollReady, PollTimeout, Account, HangUp
<1>2. ASSUME NEW s \in Sides, Recv(s)
      PROVE  /\ UNCHANGED <<sent, got, peer>>
             /\ \A r \in Sides : peer'[r] = "reset" => inbox'[r] = <<>>
  BY <1>2 DEF Recv
<1>3. ASSUME NEW s \in Sides, \/ Pass(s) \/ RecvEnds(s)
                              \/ Send(s) \/ SendWaits(s) \/ SendBreaks(s) \/ SendDone(s)
      PROVE  UNCHANGED <<sent, got, peer, inbox>>
  BY <1>3 DEF Pass, RecvEnds, Send, SendWaits, SendBreaks, SendDone
<1> QED
  BY <1>1, <1>2, <1>3 DEF Relays, RelayStep

LEMMA InputStep ==
  ASSUME PointTypes, FlagTypes, PipeTypes, Owned, InputOK, ChunkOK, SessionNext
  PROVE  InputOK'
<1>0. cleared => cleared'
  BY ClearedGrows
<1> DEFINE Elsewhere == at' \notin DOMAIN Fields
                           \cup {"accept", "say_no_auth", "say_password", "say_welcome"}
           Known == \A s \in Sides : peer'[s] = "reset" => inbox'[s] = <<>>
<1>1. ASSUME Elsewhere, Known PROVE InputOK'
  <2>1. at' \notin DOMAIN Fields' /\ at' # "greeting"
    BY <1>1 DEF Fields
  <2> QED
    BY <1>1, <2>1 DEF InputOK
<1>2. ASSUME Known, at' \in DOMAIN Fields, chunk' = <<>>, inbox'["client"] = <<>>,
             sent'["client"] = <<>>
      PROVE  InputOK'
  <2>1. Unread' = <<>>
    BY <1>2, ConcatEmptySeq DEF Unread
  <2>2. at' \notin {"accept", "say_no_auth", "say_password", "say_welcome"}
    BY <1>2 DEF Fields
  <2> QED
    BY <1>2, <2>1, <2>2 DEF InputOK, NothingAsked
<1>3. ASSUME UNCHANGED <<ends, pipes>> PROVE Known
  BY <1>3 DEF ends, pipes, InputOK
<1>4. CASE Accept
  <2>1. /\ chunk = <<>> /\ inbox["client"] = <<>> /\ sent["client"] = <<>>
        /\ UNCHANGED <<chunk, inbox, sent, peer>> /\ at' \in {"peek", "greeting", "head"}
    BY <1>4 DEF Accept, Register, FirstPoint, Goto, ends, pipes, buffer, InputOK, ChunkOK
  <2>2. at' \in DOMAIN Fields
    BY <2>1 DEF Fields
  <2> QED
    BY <1>2, <2>1, <2>2 DEF InputOK
<1>5. CASE Peek
  <2>1. /\ at = "peek" /\ UNCHANGED <<chunk, inbox, sent, peer, speaks, cleared>>
        /\ chunk = <<>> /\ at' \in {"greeting", "head", "close"}
    BY <1>5 DEF Peek, Register, FirstPoint, Goto, ends, pipes, buffer, ChunkOK, history
  <2>2. CASE at' = "close"
    BY <1>1, <2>1, <2>2 DEF Fields, InputOK
  <2>3. CASE at' \in {"greeting", "head"}
    <3>1. /\ at' \in DOMAIN Fields /\ at \in DOMAIN Fields /\ Fields'[at'] = Fields[at]
          /\ Unread' = Unread /\ NothingAsked(Unread)' = NothingAsked(Unread)
      BY <2>1, <2>3 DEF Fields, Opening, Unread, NothingAsked
    <3> QED
      BY <2>1, <2>3, <3>1 DEF InputOK
  <2> QED
    BY <2>1, <2>2, <2>3
<1>6. CASE Unregister \/ CloseClient \/ Start \/ Finish \/ CloseTarget \/ Request \/ Connects
  <2>1. UNCHANGED <<ends, pipes>>
    BY <1>6 DEF Unregister, CloseClient, Start, Finish, CloseTarget, Request, Connects
  <2>2. Elsewhere
    BY <1>6 DEF Unregister, CloseClient, Start, Finish, CloseTarget, Request, Connects,
                Opened, Goto, Fields
  <2> QED
    BY <1>1, <1>3, <2>1, <2>2
<1>7. CASE RecvFails
  BY <1>1, <1>3, <1>7 DEF RecvFails, Goto, Fields
<1>8. CASE Reply \/ ReplyFails
  <2>1. /\ UNCHANGED <<chunk, inbox, sent, peer>> /\ at \in Replies
        /\ at' \in {AfterReply[at], "close_target"}
    BY <1>8 DEF Reply, ReplyFails, Goto, ends, pipes, buffer
  <2>2. CASE at \in {"say_no_auth", "say_password", "say_welcome"} /\ at' = AfterReply[at]
    <3>1. chunk = <<>> /\ inbox["client"] = <<>> /\ sent["client"] = <<>>
      BY <2>2 DEF ChunkOK, InputOK
    <3>2. at' \in DOMAIN Fields
      BY <2>2 DEF AfterReply, Fields
    <3> QED
      BY <1>2, <2>1, <3>1, <3>2 DEF InputOK
  <2>3. CASE at \notin {"say_no_auth", "say_password", "say_welcome"} \/ at' # AfterReply[at]
    BY <1>1, <2>1, <2>3 DEF AfterReply, Replies, Fields, InputOK
  <2> QED
    BY <2>2, <2>3
<1>9. CASE Greet
  <2>1. Known /\ inbox'["client"] = <<>> /\ sent' = sent
    BY <1>9, GreetEffect DEF Greet, PipeTypes, Sides, ends, InputOK
  <2>2. CASE at' = "return" \/ at' = "say_no_method"
    BY <1>1, <2>1, <2>2 DEF Fields
  <2>3. CASE at' = "greeting"
    <3>1. chunk' = <<"part">> /\ sent'["client"] = <<>>
      BY <1>9, <2>1, <2>3, GreetEffect
    <3>2. Unread' = <<"part">>
      <4>1. <<"part">> \in Seq({"part"})
        OBVIOUS
      <4> QED
        BY <2>1, <3>1, <4>1, ConcatEmptySeq DEF Unread
    <3> QED
      BY <2>1, <2>3, <3>1, <3>2 DEF InputOK, NothingAsked
  <2>4. CASE at' \in {"say_no_auth", "say_password"}
    <3>1. at' \notin DOMAIN Fields' /\ sent'["client"] = <<>>
      BY <1>9, <2>1, <2>4, GreetEffect DEF Fields
    <3> QED
      BY <2>1, <2>4, <3>1 DEF InputOK
  <2> QED
    BY <1>9, <2>2, <2>3, <2>4, GreetEffect
<1>10. CASE RecvField
  <2>1. chunk' = <<>> /\ UNCHANGED <<sent, peer>> /\ Known /\ inbox["client"] # <<>>
    BY <1>10 DEF RecvField, ends, buffer, ChunkOK, InputOK, PipeTypes, Sides
  <2>2. CASE at' \in {"return", "say_denied", "say_unsupported", "connecting"}
    BY <1>1, <2>1, <2>2 DEF Fields
  <2>3. CASE at' \notin {"return", "say_denied", "say_unsupported", "connecting"}
    <3> DEFINE q == inbox["client"]
               n == Place(q)
    <3>1. /\ Asks(q, Fields[at]) /\ q \in Seq(Pieces) /\ at' = AfterField(q[n])
          /\ inbox' = [inbox EXCEPT !["client"] = Rest(q, n)]
          /\ q[n] # "port" => Len(q) = n
          /\ sent["client"] = Rest(q, n)
      BY <1>10, <2>3, RecvFieldEffect
    <3>2. q[n] # "port"
      BY <2>3, <3>1 DEF AfterField
    <3>3. Rest(q, n) = <<>>
      BY <3>1, <3>2, LenProperties DEF Rest
    <3>4. inbox'["client"] = <<>> /\ sent'["client"] = <<>>
      BY <2>1, <3>1, <3>3 DEF PipeTypes, Sides
    <3>5. at' \in {"say_welcome", "password", "addr", "port"}
      BY <1>10, <2>3, RecvFieldMoves
    <3>6. CASE at' = "say_welcome"
      <4>1. at' \notin DOMAIN Fields'
        BY <3>6 DEF Fields
      <4> QED
        BY <2>1, <3>4, <3>6, <4>1 DEF InputOK
    <3>7. CASE at' \in {"password", "addr", "port"}
      <4>1. at' \in DOMAIN Fields
        BY <3>7 DEF Fields
      <4> QED
        BY <1>2, <2>1, <3>4, <4>1
    <3> QED
      BY <3>5, <3>6, <3>7
  <2> QED
    BY <2>2, <2>3
<1>11. CASE ReadHead
  <2>1. /\ Known /\ inbox'["client"] = <<>> /\ UNCHANGED <<sent, peer, speaks, cleared>>
        /\ chunk' = Unread /\ Unread \in Seq(Pieces) /\ at = "head"
        /\ at' \in {"request", "head"}
    BY <1>11, ReadHeadEffect DEF ReadHead, PipeTypes, Sides, ends, InputOK, history
  <2>2. CASE at' = "request"
    BY <1>1, <2>1, <2>2 DEF Fields
  <2>3. CASE at' = "head"
    <3>1. Unread' = Unread
      BY <2>1, ConcatEmptySeq DEF Unread
    <3>2. Fields' = Fields /\ NothingAsked(Unread)' = NothingAsked(Unread)
      BY <2>1, <3>1 DEF Fields, Opening, NothingAsked
    <3> QED
      BY <2>1, <2>3, <3>1, <3>2 DEF InputOK
  <2> QED
    BY <2>1, <2>2, <2>3
<1>12. CASE SendEarly \/ NotConnected
  <2>1. Known /\ Elsewhere
    BY <1>12 DEF SendEarly, NotConnected, Goto, Fields, ends, pipes, InputOK
  <2> QED
    BY <1>1, <2>1
<1>13. CASE Connecting
  <2>1. at' \in LinkPoints
    BY <1>13, PointsOfLink
  <2>2. Elsewhere
    BY <2>1 DEF LinkPoints, SocksPoints, HttpPoints, Fields
  <2>3. Known
    BY <1>13, LinkClientSide DEF InputOK, Sides
  <2> QED
    BY <1>1, <2>2, <2>3
<1>14. CASE Relays \/ RelayFails
  <2>1. at' \in InRelay
    BY <1>14, PointsOfRelay
  <2>2. Elsewhere
    BY <2>1 DEF InRelay, RelayPoints, Fields
  <2> QED
    BY <1>1, <1>14, <2>2, RelayReceives
<1>15. CASE Reload
  BY <1>0, <1>15, InputKept DEF Reload, relayVars, buffer, ends, pipes, InputOK, Sides
<1>16. CASE NodeAnswers
  BY <1>0, <1>16, InputKept
     DEF NodeAnswers, NodeSends, buffer, ends, InputOK, Sides, PipeTypes
<1>17. CASE ClientStep
  BY <1>17, InputOfField
<1>18. CASE PeerStep("client")
  <2>1. UNCHANGED <<at, chunk, speaks, cleared>>
    BY <1>18 DEF PeerStep, buffer, history
  <2>2. CASE SendsBody("client")
    BY <2>1, <2>2, InputOfBody
  <2>3. CASE PeerShuts("client")
    <3>1. /\ UNCHANGED <<sent, inbox>> /\ peer["client"] = "open"
          /\ peer' = [peer EXCEPT !["client"] = "fin"]
      BY <2>3 DEF PeerShuts, pipes
    <3>2. Unread' = Unread /\ Fields' = Fields /\ NothingAsked(Unread)' = NothingAsked(Unread)
      BY <2>1, <3>1 DEF Unread, Fields, Opening, NothingAsked
    <3>3. Known
      BY <3>1 DEF InputOK, PipeTypes, Sides
    <3> QED
      BY <2>1, <3>1, <3>2, <3>3 DEF InputOK
  <2>4. CASE PeerResets("client")
    <3>1. /\ sent' = sent /\ inbox'["client"] = <<>> /\ inbox'["target"] = inbox["target"]
          /\ peer'["client"] = "reset" /\ peer'["target"] = peer["target"]
      BY <2>4 DEF PeerResets, PipeTypes, Sides
    <3> QED
      BY <2>1, <3>1 DEF InputOK, Sides
  <2> QED
    BY <1>18, <2>2, <2>3, <2>4 DEF PeerStep
<1>19. CASE PeerStep("target")
  BY <1>0, <1>19, InputKept
     DEF PeerStep, SendsBody, PeerSends, PeerShuts, PeerResets, buffer, ends, pipes, InputOK,
         Sides, PipeTypes
<1>20. CASE \E s \in Sides : Reads(s)
  BY <1>0, <1>20, InputKept DEF Reads, PeerReads, buffer, ends, InputOK, Sides
<1> QED
  BY <1>4, <1>5, <1>6, <1>7, <1>8, <1>9, <1>10, <1>11, <1>12, <1>13, <1>14, <1>15,
     <1>16, <1>17, <1>18, <1>19, <1>20 DEF SessionNext, ThreadStep, Sides

-----------------------------------------------------------------------------
(* The types of the sequences.                                             *)

LEMMA LenIsNat ==
  ASSUME PipeTypes
  PROVE  /\ Len(chunk) \in Nat
         /\ \A s \in Sides : /\ Len(inbox[s]) \in Nat /\ Len(outbox[s]) \in Nat
                             /\ Len(sent[s]) \in Nat /\ Len(got[s]) \in Nat
BY LenProperties DEF PipeTypes

LEMMA NodePiecesTyped ==
  /\ AnswerPieces \subseteq Pieces /\ Replies \subseteq Pieces
  /\ \A s \in Sides : \A i \in DOMAIN Body[s] : Body[s][i] \in Pieces
<1>1. \A s \in Sides : \A i \in DOMAIN Body[s] : Body[s][i] \in ToSet(Body[s])
  BY DEF ToSet
<1>2. \A s \in Sides : ToSet(Body[s]) \subseteq Pieces
  BY DEF Sides, Pieces
<1> QED
  BY <1>1, <1>2 DEF Pieces

\* One recv from the target.
LEMMA TakeTypes ==
  ASSUME PipeTypes, NEW n \in Nat, Take(n)
  PROVE  /\ inbox' \in [Sides -> Seq(Pieces)]
         /\ \A s \in Sides : Len(inbox'[s]) <= Window
<1> DEFINE q == inbox["target"]
<1>1. q \in Seq(Pieces) /\ Len(q) \in Nat /\ Len(q) <= Window
  BY LenIsNat DEF PipeTypes, Sides
<1>2. Least(n, Len(q)) \in Nat /\ Least(n, Len(q)) <= Len(q)
  BY <1>1 DEF Least
<1>3. Arrived(n) \in Seq(Pieces) /\ Len(Arrived(n)) \in Nat
  BY <1>1, <1>2, FirstProperties, LenProperties DEF Arrived
<1> DEFINE k == Len(Arrived(n))
<1>4. inbox' = [inbox EXCEPT !["target"] = Rest(q, k)] /\ k \in Nat
  BY <1>3 DEF Take
<1> HIDE DEF k, q
<1>5. Rest(q, k) \in Seq(Pieces) /\ Len(Rest(q, k)) \in Nat /\ Len(Rest(q, k)) <= Len(q)
  BY <1>1, <1>4, RestIsShorter
<1>6. Len(Rest(q, k)) <= Window
  BY <1>1, <1>5, RelayAssumption
<1> QED
  BY <1>4, <1>5, <1>6 DEF PipeTypes, Sides

LEMMA RelayTypes ==
  ASSUME PipeTypes, Relays \/ RelayFails
  PROVE  PipeTypes'
<1> USE DEF ends, pipes, buffer, Goto, Ends
<1>1. CASE RelayFails \/ PollReady \/ PollTimeout \/ Account \/ HangUp
  BY <1>1 DEF RelayFails, PollFails, PollReady, PollTimeout, Account, HangUp, PipeTypes
<1>2. ASSUME NEW s \in Sides, Pass(s) \/ RecvEnds(s) \/ SendWaits(s) \/ SendBreaks(s) \/ SendDone(s)
      PROVE  PipeTypes'
  BY <1>2 DEF Pass, RecvEnds, SendWaits, SendBreaks, SendDone, PipeTypes
<1>3. ASSUME NEW s \in Sides, Recv(s) PROVE PipeTypes'
  <2> DEFINE q == inbox[s]
             n == Least(Len(q), Buffer)
  <2>1. q \in Seq(Pieces) /\ Len(q) \in Nat /\ n \in 0 .. Len(q) /\ n \in Int
    BY LenIsNat, RelayAssumption DEF PipeTypes, Least
  <2>2. /\ chunk' = First(q, n) /\ inbox' = [inbox EXCEPT ![s] = Rest(q, n)]
        /\ UNCHANGED <<ends, outbox>>
    BY <1>3 DEF Recv
  <2>3. First(q, n) \in Seq(Pieces) /\ Rest(q, n) \in Seq(Pieces)
        /\ Len(Rest(q, n)) = Len(q) - n
    BY <2>1, FirstProperties, RestProperties
  <2> HIDE DEF n
  <2>4. Len(Rest(q, n)) <= Window
    BY <2>1, <2>3, RelayAssumption DEF PipeTypes
  <2> HIDE DEF q
  <2> QED
    BY <2>2, <2>3, <2>4 DEF PipeTypes
<1>4. ASSUME NEW s \in Sides, Send(s) PROVE PipeTypes'
  <2> DEFINE n == Least(Len(chunk), Window - Len(outbox[s]))
  <2>1. /\ chunk' = Rest(chunk, n) /\ outbox' = [outbox EXCEPT ![s] = @ \o First(chunk, n)]
        /\ UNCHANGED <<ends, inbox>> /\ Len(outbox[s]) < Window
    BY <1>4 DEF Send, SendSome, CanSend
  <2>2. n \in 0 .. Len(chunk) /\ n \in Int
    BY <2>1, LenIsNat, RelayAssumption DEF Least
  <2> HIDE DEF n
  <2>3. First(chunk, n) \in Seq(Pieces) /\ Rest(chunk, n) \in Seq(Pieces)
    BY <2>2, FirstProperties, RestProperties DEF PipeTypes
  <2>4. outbox[s] \o First(chunk, n) \in Seq(Pieces)
    BY <2>3, ConcatProperties DEF PipeTypes
  <2> QED
    BY <2>1, <2>3, <2>4 DEF PipeTypes
<1> QED
  BY <1>1, <1>2, <1>3, <1>4 DEF Relays, RelayStep

LEMMA LinkTypes ==
  ASSUME PipeTypes, Connecting
  PROVE  PipeTypes'
<1> USE DEF Connecting, ends, pipes, buffer
<1>1. CASE \E way \in Via : Dial(way)
  <2>1. <<>> \in Seq(Pieces) /\ Len(<<>>) <= Window
    BY EmptySeq, RelayAssumption
  <2> QED
    BY <1>1, <2>1 DEF Dial, PipeTypes, Sides
<1>2. CASE \/ \E way \in Via : DialFails(way)
           \/ Retry \/ Say \/ SayFails \/ NodeSilent \/ HeadDone
  BY <1>2 DEF DialFails, Retry, Say, SayFails, NodeSilent, HeadDone, PipeTypes
<1>3. ASSUME NEW n \in Nat, Take(n), UNCHANGED <<ends, outbox>>
      PROVE  PipeTypes'
  BY <1>3, TakeTypes DEF PipeTypes
<1>4. CASE ReadAnswer \/ ReadLength \/ ReadByte
  BY <1>3, <1>4 DEF ReadAnswer, ReadLength, ReadByte
<1>5. CASE ReadRest
  BY <1>3, <1>5 DEF ReadRest
<1> QED
  BY <1>1, <1>2, <1>4, <1>5 DEF UpstreamStep

LEMMA EarlyTyped ==
  ASSUME PipeTypes, Owned, ChunkOK, at \in {"early", "say_200", "request"}
  PROVE  /\ HeadAt = Place(chunk) /\ HeadAt \in DOMAIN chunk /\ HeadAt \in 0 .. Len(chunk)
         /\ EarlyData \in Seq(Pieces)
<1>1. Asks(chunk, IF at = "request" THEN Heads ELSE Tunnels \cup Plain) /\ chunk \in Seq(Pieces)
  BY DEF ChunkOK, HeadKept, Owned, HttpOnly, PipeTypes
<1>2. HeadAt = Place(chunk) /\ HeadAt \in DOMAIN chunk
  BY <1>1, HeadIsFound DEF Tunnels, Plain, Heads
<1>3. HeadAt \in 1 .. Len(chunk) /\ Len(chunk) \in Nat
  BY <1>1, <1>2, LenProperties
<1>4. Rest(chunk, HeadAt) \in Seq(Pieces)
  BY <1>1, <1>3, RestProperties
<1> QED
  BY <1>1, <1>2, <1>3, <1>4 DEF EarlyData

LEMMA PeerTypes ==
  ASSUME PipeTypes, NEW s \in Sides, PeerStep(s) \/ Reads(s)
  PROVE  PipeTypes'
<1>0. chunk' = chunk
  BY DEF PeerStep, Reads, buffer
<1>1. CASE SendsBody(s)
  <2>1. PICK b \in Pieces : PeerSends(s, b)
    BY <1>1, NodePiecesTyped DEF SendsBody
  <2>2. /\ Append(sent[s], b) \in Seq(Pieces) /\ Append(inbox[s], b) \in Seq(Pieces)
        /\ Len(Append(inbox[s], b)) = Len(inbox[s]) + 1
    BY AppendProperties DEF PipeTypes
  <2>3. Len(inbox[s]) + 1 <= Window
    BY <2>1, LenIsNat, RelayAssumption DEF PeerSends
  <2> QED
    BY <1>0, <2>1, <2>2, <2>3 DEF PeerSends, PipeTypes
<1>2. CASE PeerShuts(s)
  BY <1>0, <1>2 DEF PeerShuts, pipes, PipeTypes
<1>3. CASE PeerResets(s)
  <2>1. <<>> \in Seq(Pieces) /\ Len(<<>>) <= Window
    BY EmptySeq, RelayAssumption
  <2> QED
    BY <1>0, <1>3, <2>1 DEF PeerResets, PipeTypes
<1>4. CASE Reads(s)
  <2>1. \/ UNCHANGED outbox
        \/ outbox[s] # <<>> /\ outbox' = [outbox EXCEPT ![s] = Tail(@)]
    BY <1>4 DEF Reads, PeerReads
  <2>2. \/ UNCHANGED got
        \/ outbox[s] # <<>> /\ got' = [got EXCEPT ![s] = Append(@, Head(outbox[s]))]
    BY <1>4 DEF Reads, PeerReads, ends
  <2>3. UNCHANGED <<sent, peer, inbox>>
    BY <1>4 DEF Reads, PeerReads, ends
  <2>4. outbox[s] # <<>> => /\ Tail(outbox[s]) \in Seq(Pieces)
                            /\ Append(got[s], Head(outbox[s])) \in Seq(Pieces)
    BY HeadTailProperties, AppendProperties DEF PipeTypes
  <2> QED
    BY <1>0, <2>1, <2>2, <2>3, <2>4 DEF PipeTypes
<1> QED
  BY <1>1, <1>2, <1>3, <1>4 DEF PeerStep

LEMMA PipeStep ==
  ASSUME PointTypes, PipeTypes, NodeTypes, Owned, InputOK, ChunkOK, SessionNext
  PROVE  PipeTypes'
<1>0. <<>> \in Seq(Pieces) /\ Len(<<>>) <= Window
  BY EmptySeq, RelayAssumption
<1>1. CASE Connecting
  BY <1>1, LinkTypes
<1>2. CASE Relays \/ RelayFails
  BY <1>2, RelayTypes
<1>3. CASE \E s \in Sides : PeerStep(s) \/ Reads(s)
  BY <1>3, PeerTypes
<1>4. CASE \/ Accept \/ Peek \/ Unregister \/ CloseClient \/ RecvFails \/ ReplyFails
           \/ Request \/ Connects \/ Start \/ Finish \/ CloseTarget \/ Reload
  <2>1. UNCHANGED <<ends, pipes>> /\ (chunk' = chunk \/ chunk' = <<>>)
    BY <1>4 DEF Accept, Peek, Unregister, CloseClient, RecvFails, ReplyFails, Request,
                Connects, Start, Finish, CloseTarget, Reload, buffer, relayVars
  <2> QED
    BY <1>0, <2>1 DEF ends, pipes, PipeTypes
<1>5. CASE NotConnected
  BY <1>0, <1>5 DEF NotConnected, pipes, buffer, PipeTypes
<1>6. CASE Reply
  <2>1. Append(outbox["client"], at) \in Seq(Pieces)
    BY <1>6, NodePiecesTyped, AppendProperties DEF Reply, PipeTypes, Sides
  <2> QED
    BY <1>6, <2>1 DEF Reply, ends, buffer, PipeTypes
<1>7. CASE Greet
  <2>1. chunk' = <<>> \/ chunk' = <<"part">>
    BY <1>7 DEF Greet
  <2>2. chunk' \in Seq(Pieces)
    <3>1. "part" \in Pieces
      BY DEF Pieces
    <3>2. <<"part">> \in Seq(Pieces)
      BY <3>1
    <3> QED
      BY <1>0, <2>1, <3>2
  <2> QED
    BY <1>0, <1>7, <2>2 DEF Greet, ends, PipeTypes, Sides
<1>8. CASE RecvField
  <2> DEFINE q == inbox["client"]
             n == Place(q)
  <2>1. n \in Nat /\ q \in Seq(Pieces) /\ Len(q) \in Nat /\ Len(q) <= Window
    BY LenIsNat DEF Place, PipeTypes, Sides
  <2>2. inbox' = [inbox EXCEPT !["client"] = <<>>] \/ inbox' = [inbox EXCEPT !["client"] = Rest(q, n)]
    BY <1>8, RecvFieldEffect
  <2> HIDE DEF n
  <2>3. Rest(q, n) \in Seq(Pieces) /\ Len(Rest(q, n)) <= Len(q) /\ Len(Rest(q, n)) \in Nat
    BY <2>1, RestIsShorter
  <2>4. Len(Rest(q, n)) <= Window
    BY <2>1, <2>3, RelayAssumption
  <2> HIDE DEF q
  <2> QED
    BY <1>0, <1>8, <2>2, <2>3, <2>4 DEF RecvField, ends, buffer, PipeTypes, Sides
<1>9. CASE ReadHead
  <2>1. chunk' \in Seq(Pieces) /\ inbox' = [inbox EXCEPT !["client"] = <<>>]
    BY <1>9, ReadHeadEffect
  <2> QED
    BY <1>0, <1>9, <2>1 DEF ReadHead, ends, PipeTypes, Sides
<1>10. CASE SendEarly
  <2>1. outbox["target"] \o EarlyData \in Seq(Pieces)
    BY <1>10, EarlyTyped, ConcatProperties DEF SendEarly, PipeTypes, Sides
  <2> QED
    BY <1>0, <1>10, <2>1 DEF SendEarly, ends, PipeTypes
<1>11. CASE NodeAnswers
  <2>1. owes # <<>> /\ Len(inbox["target"]) < Window /\ UNCHANGED <<ends, outbox, chunk>>
        /\ inbox' = [inbox EXCEPT !["target"] = Append(@, Head(owes))]
    BY <1>11 DEF NodeAnswers, NodeSends, buffer
  <2>2. Head(owes) \in Pieces
    BY <2>1, HeadTailProperties, NodePiecesTyped DEF NodeTypes
  <2>3. /\ Append(inbox["target"], Head(owes)) \in Seq(Pieces)
        /\ Len(Append(inbox["target"], Head(owes))) = Len(inbox["target"]) + 1
    BY <2>2, AppendProperties DEF PipeTypes, Sides
  <2>4. Len(inbox["target"]) + 1 <= Window
    BY <2>1, LenIsNat, RelayAssumption DEF Sides
  <2> QED
    BY <2>1, <2>3, <2>4 DEF ends, PipeTypes
<1>12. CASE ClientStep
  <2> DEFINE before == chunk \o inbox["client"]
  <2>1. PICK piece \in Fields[at] \cup {"part"} :
           /\ inbox' = [inbox EXCEPT !["client"] = Append(@, piece)]
           /\ sent' = [sent EXCEPT !["client"] =
                          IF piece \in Plain THEN Append(before, piece) ELSE @]
    BY <1>12 DEF ClientStep, SendsField
  <2>2. /\ at \in DOMAIN Fields /\ Len(inbox["client"]) < Window
        /\ UNCHANGED <<got, peer, outbox, chunk>>
    BY <1>12 DEF ClientStep, SendsField, buffer
  <2>3. piece \in Pieces
    BY <2>1, <2>2, FieldsTyped
  <2>4. before \in Seq(Pieces) /\ inbox["client"] \in Seq(Pieces)
    BY ConcatProperties DEF PipeTypes, Sides
  <2> HIDE DEF before
  <2>5. /\ Append(before, piece) \in Seq(Pieces) /\ Append(inbox["client"], piece) \in Seq(Pieces)
        /\ Len(Append(inbox["client"], piece)) = Len(inbox["client"]) + 1
    BY <2>3, <2>4, AppendProperties
  <2>6. Len(inbox["client"]) + 1 <= Window
    BY <2>2, LenIsNat, RelayAssumption DEF Sides
  <2> QED
    BY <2>1, <2>2, <2>5, <2>6 DEF PipeTypes, Sides
<1> QED
  BY <1>1, <1>2, <1>3, <1>4, <1>5, <1>6, <1>7, <1>8, <1>9, <1>10, <1>11, <1>12
     DEF SessionNext, ThreadStep

-----------------------------------------------------------------------------
(* Counters and flags.                                                     *)

LEMMA TriesStep ==
  ASSUME CountTypes, NodeOK, SessionNext
  PROVE  tries' \in 0 .. 2
<1>0. Attempts \in 1 .. 2 /\ tries \in 0 .. 2
  BY UpstreamAssumption DEF CountTypes
<1>1. CASE Connecting
  <2>1. CASE \E way \in Via : Dial(way) \/ DialFails(way)
    <3>1. at = "connecting" /\ (tries' = Attempts \/ tries' = tries + 1)
      BY <2>1 DEF Dial, DialFails, Counts
    <3>2. tries < Attempts
      BY <3>1 DEF NodeOK
    <3> QED
      BY <1>0, <3>1, <3>2
  <2>2. CASE ~\E way \in Via : Dial(way) \/ DialFails(way)
    BY <1>0, <1>1, <2>2
       DEF Connecting, UpstreamStep, Retry, Say, SayFails, ReadAnswer, ReadLength,
           ReadRest, NodeSilent, ReadByte, HeadDone, answer
  <2> QED
    BY <2>1, <2>2
<1>2. CASE Connects \/ NotConnected
  BY <1>2 DEF Connects, NotConnected, ForgetsAttempts
<1>3. CASE ~(Connecting \/ Connects \/ NotConnected)
  <2>1. tries' = tries
    BY <1>3 DEF SessionNext, ThreadStep, Accept, Peek, Unregister, CloseClient, RecvFails,
            Reply, ReplyFails, Greet, RecvField, ReadHead, Request, Start, Relays, Finish,
            CloseTarget, SendEarly, ClientStep, RelayFails, NodeAnswers, NodeSends, PeerStep,
            Reads, Reload, answer
  <2> QED
    BY <1>0, <2>1
<1> QED
  BY <1>1, <1>2, <1>3

LEMMA CountStep ==
  ASSUME PipeTypes, CountTypes, NodeOK, SessionNext
  PROVE  CountTypes'
<1>0. /\ Buffer \in Nat /\ Limit \in Nat \ {0} /\ MaxReloads \in Nat
      /\ tries' \in 0 .. 2
  BY RelayAssumption, SessionAssumption, TriesStep
<1> USE DEF buffer, clock, relaying, config
<1>1. CASE Reload
  BY <1>0, <1>1 DEF Reload, relayVars, CountTypes
<1>2. CASE Finish
  BY <1>0, <1>2 DEF Finish, CountTypes
<1>3. CASE Relays \/ RelayFails
  <2>0. reloads' = reloads
    BY <1>3 DEF Relays, RelayFails
  <2>1. CASE RelayFails
    BY <1>0, <2>0, <2>1 DEF RelayFails, PollFails, CountTypes
  <2>2. CASE PollReady \/ PollTimeout \/ Account \/ HangUp
    BY <1>0, <2>0, <2>2 DEF PollReady, PollTimeout, Account, HangUp, Least, CountTypes
  <2>3. ASSUME NEW s \in Sides, Pass(s) \/ RecvEnds(s) \/ Send(s) \/ SendWaits(s) \/ SendBreaks(s)
        PROVE  CountTypes'
    BY <1>0, <2>0, <2>3
       DEF Pass, RecvEnds, Send, SendWaits, SendBreaks, Later, Least, CountTypes
  <2>4. ASSUME NEW s \in Sides, Recv(s) PROVE CountTypes'
    <3>1. size' \in 0 .. Buffer
      BY <1>0, <2>4, LenIsNat DEF Recv, Least
    <3> QED
      BY <1>0, <2>0, <2>4, <3>1 DEF Recv, CountTypes
  <2>5. ASSUME NEW s \in Sides, SendDone(s) PROVE CountTypes'
    <3>1. bytes[s] + size \in Nat
      BY <1>0 DEF CountTypes
    <3> QED
      BY <1>0, <2>0, <2>5, <3>1 DEF SendDone, CountTypes
  <2> QED
    BY <1>3, <2>1, <2>2, <2>3, <2>4, <2>5 DEF Relays, RelayStep
<1>4. CASE ~(Reload \/ Finish \/ Relays \/ RelayFails)
  <2>1. UNCHANGED <<bytes, size, idle, lag, reloads>>
    BY <1>4 DEF SessionNext, ThreadStep, Accept, Peek, Unregister, CloseClient, RecvFails,
            Reply, ReplyFails, Greet, RecvField, ReadHead, Request, Start,
            CloseTarget, SendEarly, Connecting, Connects, NotConnected, ClientStep,
            NodeAnswers, PeerStep, Reads
  <2> QED
    BY <1>0, <2>1 DEF CountTypes
<1> QED
  BY <1>1, <1>2, <1>3, <1>4

-----------------------------------------------------------------------------
(* The handshake with a node.                                              *)

\* What stands before the last of q.
LEMMA FirstBefore ==
  ASSUME NEW S, NEW p \in Seq(S), NEW q \in Seq(S)
  PROVE  First(p \o q, Len(p \o q) - Len(q)) = p
<1>1. Len(p) \in Nat /\ Len(q) \in Nat /\ Len(p \o q) = Len(p) + Len(q)
  BY LenProperties, ConcatProperties
<1>2. Len(p \o q) - Len(q) = Len(p)
  BY <1>1
<1> QED
  BY <1>2, FirstOfConcat

LEMMA NothingBefore ==
  ASSUME NEW S, NEW q \in Seq(S)
  PROVE  First(<<>>, Len(<<>>) - Len(q)) = <<>>
<1> DEFINE n == Len(<<>>) - Len(q)
           f == First(<<>>, n)
<1>1. Len(<<>>) = 0 /\ Len(q) \in Nat /\ <<>> \in Seq(S)
  BY LenProperties, EmptySeq
<1>2. n \in Int /\ n <= Len(<<>>) /\ ~(n >= 1)
  BY <1>1
<1> HIDE DEF n
<1>3. f \in Seq(S) /\ Len(f) = IF n >= 1 THEN n ELSE 0
  BY <1>1, <1>2, FirstProperties
<1> HIDE DEF f
<1>4. f = <<>>
  BY <1>2, <1>3, EmptySeq
<1> QED
  BY <1>4 DEF f, n

\* In the middle of a handshake the inbox is what has arrived of the answer and
\* what the target has said.
LEMMA InboxOfShake ==
  ASSUME PipeTypes, NodeTypes, NodeOK, ShakingOK, at \in Shaking, peer["target"] # "reset"
  PROVE  /\ inbox["target"] = Lead \o sent["target"]
         /\ Lead \in Seq(AnswerPieces) /\ Lead \in Seq(Pieces) /\ Len(Lead) \in Nat
         /\ sent["target"] \in Seq(Pieces) /\ sent["target"] \in Seq(Pieces)
         /\ owes \in Seq(AnswerPieces) /\ resp \in Seq(AnswerPieces)
         /\ owes # <<>> => sent["target"] = <<>>
         /\ sent["target"] = <<>> => inbox["target"] = Lead
<1>1. /\ inbox["target"] = Lead \o sent["target"] /\ Lead \in Seq(AnswerPieces)
      /\ owes # <<>> => sent["target"] = <<>>
  BY DEF ShakingOK, NodeOK
<1>2. Lead \in Seq(Pieces)
  BY <1>1, NodePiecesTyped
<1>3. sent["target"] \in Seq(Pieces)
  BY DEF PipeTypes, Sides
<1> QED
  BY <1>1, <1>2, <1>3, LenProperties, ConcatEmptySeq DEF NodeTypes

\* A recv of the handshake takes what has arrived of the answer, unless the
\* answer is already shorter than what is wanted and the target has spoken.
LEMMA TakeOfShake ==
  ASSUME PipeTypes, NodeTypes, NodeOK, ShakingOK, at \in Shaking, peer["target"] # "reset",
         NEW n \in Nat, Take(n), sent'["target"] = sent["target"],
         sent["target"] = <<>> \/ n <= Len(Lead),
         NEW k, k = Len(Arrived(n))
  PROVE  /\ k \in 0 .. Len(Lead) /\ k = Least(n, Len(Lead))
         /\ Arrived(n) = First(Lead, k)
         /\ Rest(Lead, k) \in Seq(AnswerPieces)
         /\ inbox'["target"] = Rest(Lead, k) \o sent["target"]
         /\ Lead' = Rest(Lead, k)
         /\ First(inbox'["target"], Len(inbox'["target"]) - Len(sent["target"])) = Rest(Lead, k)
         /\ Rest(Lead, k) \o owes = Rest(Lead \o owes, k)
         /\ resp \o First(Lead, k) \in Seq(AnswerPieces)
         /\ resp \o First(Lead, k) \o Rest(Lead, k) \o owes = resp \o Lead \o owes
<1> DEFINE q == inbox["target"]
           s == sent["target"]
           l == Lead
<1>1. /\ q = l \o s /\ l \in Seq(Pieces) /\ s \in Seq(Pieces) /\ l \in Seq(AnswerPieces)
      /\ s = <<>> => q = l
  BY InboxOfShake
<1>2. Len(l) \in Nat /\ Len(s) \in Nat /\ Len(q) = Len(l) + Len(s)
  BY <1>1, ConcatProperties, LenProperties
<1>3. s = <<>> \/ n <= Len(l)
  OBVIOUS
<1>4. Least(n, Len(q)) = Least(n, Len(l)) /\ Least(n, Len(l)) \in 0 .. Len(l)
  BY <1>1, <1>2, <1>3 DEF Least
<1>5. Arrived(n) = First(q, Least(n, Len(l))) /\ q \in Seq(Pieces)
  BY <1>1, <1>4, ConcatProperties DEF Arrived
<1>6. k = Least(n, Len(l)) /\ k \in 0 .. Len(l)
  <2> DEFINE m == Least(n, Len(l))
  <2>1. m \in Int /\ m <= Len(q) /\ m \in 0 .. Len(l)
    BY <1>2, <1>4
  <2>2. k = Len(First(q, m))
    BY <1>5
  <2> HIDE DEF m, q, l
  <2>3. Len(First(q, m)) = IF m >= 1 THEN m ELSE 0
    BY <1>5, <2>1, FirstProperties
  <2>4. k = m
    BY <1>2, <2>1, <2>2, <2>3
  <2> QED
    BY <2>1, <2>4 DEF m
<1>7. inbox'["target"] = Rest(q, k)
  BY DEF Take, PipeTypes, Sides
<1> HIDE DEF q, s, l
<1>8. Rest(q, k) = Rest(l, k) \o s
  BY <1>1, <1>6, RestOfConcat
<1>9. First(q, k) = First(l, k)
  <2>1. k \in Nat /\ k <= Len(l) /\ k <= Len(q)
    BY <1>2, <1>6
  <2>2. /\ First(q, k) \in Seq(Pieces) /\ Len(First(q, k)) = IF k >= 1 THEN k ELSE 0
        /\ \A i \in 1 .. k : First(q, k)[i] = q[i]
    BY <1>5, <2>1, FirstProperties
  <2>3. /\ First(l, k) \in Seq(Pieces) /\ Len(First(l, k)) = IF k >= 1 THEN k ELSE 0
        /\ \A i \in 1 .. k : First(l, k)[i] = l[i]
    BY <1>1, <2>1, FirstProperties
  <2>4. \A i \in 1 .. k : q[i] = l[i]
    BY <1>1, <1>2, <2>1, ConcatProperties
  <2>5. Len(First(q, k)) = k /\ Len(First(l, k)) = k
    BY <2>1, <2>2, <2>3
  <2> QED
    BY <2>2, <2>3, <2>4, <2>5, SeqEqual
<1>10. Rest(l, k) \in Seq(AnswerPieces) /\ Rest(l, k) \in Seq(Pieces)
  <2>1. k \in Nat
    BY <1>6, <1>2
  <2> QED
    BY <1>1, <2>1, RestProperties
<1>11. First(Rest(l, k) \o s, Len(Rest(l, k) \o s) - Len(s)) = Rest(l, k)
  BY <1>1, <1>10, FirstBefore
<1>12. Lead' = First(inbox'["target"], Len(inbox'["target"]) - Len(sent'["target"]))
  BY DEF Lead
<1>13. owes \in Seq(AnswerPieces) /\ resp \in Seq(AnswerPieces)
  BY DEF NodeTypes
<1>14. Rest(l, k) \o owes = Rest(l \o owes, k)
  BY <1>1, <1>6, <1>13, RestOfConcat
<1>15. First(l, k) \in Seq(AnswerPieces) /\ First(l, k) \o Rest(l, k) = l
  <2>1. k \in Int /\ k <= Len(l)
    BY <1>2, <1>6
  <2> QED
    BY <1>1, <1>6, <2>1, FirstProperties, FirstAndRest
<1>16. resp \o First(l, k) \in Seq(AnswerPieces)
  BY <1>13, <1>15, ConcatProperties
<1>17. resp \o First(l, k) \o Rest(l, k) = resp \o l
  <2> DEFINE g == First(l, k)
             r == Rest(l, k)
  <2>1. g \in Seq(AnswerPieces) /\ r \in Seq(AnswerPieces) /\ g \o r = l
    BY <1>10, <1>15
  <2> HIDE DEF g, r
  <2>2. \A x, y, z \in Seq(AnswerPieces) : x \o y \o z = x \o (y \o z)
    BY ConcatAssociative
  <2>3. resp \o g \o r = resp \o (g \o r)
    BY <1>13, <2>1, <2>2
  <2> QED
    BY <2>1, <2>3 DEF g, r
<1> QED
  BY <1>5, <1>6, <1>7, <1>8, <1>9, <1>10, <1>11, <1>12, <1>14, <1>16, <1>17 DEF q, s, l

\* The answers by name.
LEMMA AnswersTyped ==
  /\ \A p \in {"greet", "login", "ask"} : SocksAnswers[p] \subseteq Seq(AnswerPieces)
  /\ HttpAnswers \subseteq Seq(AnswerPieces)
<1> DEFINE K == {"version", "junk", "none", "password", "refused", "accepted", "rejected",
                 "ipv4", "domain", "error", "length", "addr", "port"}
<1>1. K \subseteq AnswerPieces
  <2> DEFINE U == UNION {ToSet(a) : a \in HttpAnswers}
  <2>1. AnswerPieces = U \cup K
    BY DEF AnswerPieces
  <2> HIDE DEF U, K
  <2> QED
    BY <2>1
<1>2. \A p \in {"greet", "login", "ask"} : SocksAnswers[p] \subseteq Seq(AnswerPieces)
  <2>1. \A x, y \in K : <<x, y>> \in Seq(K)
    OBVIOUS
  <2>2. \A a \in SocksAnswers.greet : \E x, y \in K : a = <<x, y>>
    BY DEF SocksAnswers
  <2>3. SocksAnswers.login \subseteq Seq(K) /\ SocksAnswers.ask \subseteq Seq(K)
    BY DEF SocksAnswers
  <2> HIDE DEF K
  <2>4. Seq(K) \subseteq Seq(AnswerPieces)
    BY <1>1
  <2>5. SocksAnswers["greet"] \subseteq Seq(K)
    BY <2>1, <2>2
  <2>6. SocksAnswers["login"] \subseteq Seq(K) /\ SocksAnswers["ask"] \subseteq Seq(K)
    BY <2>3
  <2> QED
    BY <2>4, <2>5, <2>6
<1>3. ASSUME NEW a \in HttpAnswers PROVE a \in Seq(AnswerPieces)
  <2>1. a \in Seq(STRING)
    BY UpstreamAssumption
  <2>2. ToSet(a) = Range(a)
    BY <2>1 DEF ToSet, Range
  <2>3. a \in Seq(ToSet(a))
    BY <2>1, <2>2, SeqOfRange
  <2>4. ToSet(a) \subseteq AnswerPieces
    BY DEF AnswerPieces
  <2> QED
    BY <2>3, <2>4
<1> QED
  BY <1>2, <1>3

\* What is left of an answer of SOCKS5 when its first fields were read.
LEMMA RestOfTuple ==
  ASSUME NEW S, NEW p \in Seq(S), NEW q \in Seq(S), NEW n \in Nat,
         Len(p) = Len(q) + n, \A i \in 1 .. Len(q) : p[i + n] = q[i]
  PROVE  Rest(p, n) = q
<1> DEFINE r == Rest(p, n)
<1>1. Len(p) \in Nat /\ Len(q) \in Nat /\ Len(p) - n = Len(q) /\ n <= Len(p)
  BY LenProperties
<1>2. /\ r \in Seq(S) /\ Len(r) = Len(p) - n
      /\ \A i \in 1 .. Len(p) - n : r[i] = p[i + n]
  BY <1>1, RestProperties
<1> HIDE DEF r
<1>3. r = q
  BY <1>1, <1>2, SeqEqual
<1> QED
  BY <1>3 DEF r

LEMMA RestOfPair ==
  ASSUME NEW x, NEW y
  PROVE  Rest(<<x, y>>, 2) = <<>>
<1> DEFINE p == <<x, y>>
           r == Rest(p, 2)
<1>1. p \in Seq({x, y}) /\ Len(p) = 2
  OBVIOUS
<1> HIDE DEF p
<1>2. r \in Seq({x, y}) /\ Len(r) = IF 2 <= Len(p) THEN Len(p) - 2 ELSE 0
  <2> DEFINE S == {x, y}
  <2>1. p \in Seq(S)
    BY <1>1
  <2> HIDE DEF S
  <2>2. r \in Seq(S) /\ Len(r) = IF 2 <= Len(p) THEN Len(p) - 2 ELSE 0
    BY <2>1, RestProperties
  <2> QED
    BY <2>2 DEF S
<1> HIDE DEF r
<1>3. r = <<>>
  BY <1>1, <1>2, EmptySeq
<1> QED
  BY <1>3 DEF r, p

LEMMA RestOfTriple ==
  ASSUME NEW x, NEW y, NEW z
  PROVE  Rest(<<x, y, z>>, 1) = <<y, z>>
<1> DEFINE p == <<x, y, z>>
           q == <<y, z>>
<1>1. /\ p \in Seq({x, y, z}) /\ q \in Seq({x, y, z}) /\ Len(p) = Len(q) + 1
      /\ \A i \in 1 .. Len(q) : p[i + 1] = q[i]
  OBVIOUS
<1> HIDE DEF p, q
<1>2. Rest(p, 1) = q
  BY <1>1, RestOfTuple
<1> QED
  BY <1>2 DEF p, q

LEMMA RestOfFour ==
  ASSUME NEW x, NEW y, NEW z, NEW w
  PROVE  Rest(<<x, y, z, w>>, 2) = <<z, w>>
<1> DEFINE p == <<x, y, z, w>>
           q == <<z, w>>
<1>1. /\ p \in Seq({x, y, z, w}) /\ q \in Seq({x, y, z, w}) /\ Len(p) = Len(q) + 2
      /\ \A i \in 1 .. Len(q) : p[i + 2] = q[i]
  OBVIOUS
<1> HIDE DEF p, q
<1>2. Rest(p, 2) = q
  BY <1>1, RestOfTuple
<1> QED
  BY <1>2 DEF p, q

LEMMA RestOfFive ==
  ASSUME NEW x, NEW y, NEW z, NEW w, NEW v
  PROVE  Rest(<<x, y, z, w, v>>, 2) = <<z, w, v>>
<1> DEFINE p == <<x, y, z, w, v>>
           q == <<z, w, v>>
<1>1. /\ p \in Seq({x, y, z, w, v}) /\ q \in Seq({x, y, z, w, v}) /\ Len(p) = Len(q) + 2
      /\ \A i \in 1 .. Len(q) : p[i + 2] = q[i]
  OBVIOUS
<1> HIDE DEF p, q
<1>2. Rest(p, 2) = q
  BY <1>1, RestOfTuple
<1> QED
  BY <1>2 DEF p, q

\* An attempt is made, or not made.
LEMMA DialStep ==
  ASSUME PipeTypes, NodeTypes, NodeOK, ShakingOK, Connecting, at \in {"connecting", "unlinked"}
  PROVE  NodeTypes' /\ NodeOK' /\ ShakingOK'
<1> USE DEF Connecting, LinkPoints, SocksPoints, HttpPoints, Shaking, Before, Fields, Goto,
            ends, pipes
<1>0. <<>> \in Seq(AnswerPieces) /\ <<>> \in Seq(Pieces)
  BY EmptySeq
<1>1. CASE \E way \in Via : Dial(way)
  <2>1. /\ sent'["target"] = <<>> /\ inbox'["target"] = <<>> /\ peer'["target"] = "open"
        /\ owes' = <<>> /\ resp' = <<>> /\ left' = <<>>
        /\ \/ at' = "linked"
           \/ at' \in {"greet", "ask_http"} /\ ~granted'
    BY <1>1, UpstreamAssumption DEF Dial, PipeTypes, Sides, Ways
  <2>2. Lead' = <<>>
    BY <1>0, <2>1, NothingBefore DEF Lead
  <2>3. <<>> \o <<>> = <<>> /\ <<>> \o <<>> \o <<>> = <<>>
    BY <1>0, ConcatEmptySeq
  <2>4. NodeTypes' /\ NodeOK'
    BY <1>0, <2>1 DEF NodeTypes, NodeOK
  <2>5. ShakingOK'
    BY <1>0, <2>1, <2>2, <2>3 DEF ShakingOK, Expected
  <2> QED
    BY <2>4, <2>5
<1>2. CASE \E way \in Via : DialFails(way)
  BY <1>2 DEF DialFails, NodeTypes, NodeOK, ShakingOK
<1>3. CASE Retry
  BY <1>3 DEF Retry, answer, NodeTypes, NodeOK, ShakingOK
<1>4. CASE ReadAnswer \/ ReadLength \/ ReadRest \/ NodeSilent \/ ReadByte \/ HeadDone
           \/ Say \/ SayFails
  BY <1>4 DEF ReadAnswer, ReadLength, ReadRest, NodeSilent, ReadByte, HeadDone, Say, SayFails,
              Waits, AfterSay
<1> QED
  BY <1>1, <1>2, <1>3, <1>4 DEF UpstreamStep

\* A handshake is given up.
LEMMA GivesUpStep ==
  ASSUME PipeTypes, NodeTypes, NodeOK, ShakingOK, at \in Shaking, at' = "unlinked",
         UNCHANGED <<sent, peer, owes, left>>, resp' = resp \/ resp' = <<>>
  PROVE  NodeTypes' /\ NodeOK' /\ ShakingOK'
<1>0. <<>> \in Seq(AnswerPieces)
  BY EmptySeq
<1> QED
  BY <1>0 DEF Shaking, SocksPoints, HttpPoints, LinkPoints, Before, Fields, NodeTypes, NodeOK,
              ShakingOK

\* The proxy has sent a message, and the node makes up its mind.
LEMMA SayStep ==
  ASSUME PipeTypes, NodeTypes, NodeOK, ShakingOK, Say
  PROVE  NodeTypes' /\ NodeOK' /\ ShakingOK'
<1>1. PICK a \in IF at = "ask_http" THEN HttpAnswers ELSE SocksAnswers[at] :
         /\ owes' = IF peer["target"] = "open" THEN owes \o a ELSE owes
         /\ granted' = (peer["target"] = "open" /\ at \in {"ask", "ask_http"} /\ Grants(a))
  BY DEF Say
<1>2. /\ at \in {"greet", "login", "ask", "ask_http"} /\ at' = AfterSay[at]
      /\ peer["target"] # "reset" /\ UNCHANGED <<sent, inbox, peer, resp, left>>
  BY DEF Say, AfterSay, Goto, ends, pipes
<1>3. at \in Shaking /\ at' \in {"method", "status", "reply", "answer"}
  BY <1>2 DEF Shaking, SocksPoints, HttpPoints, AfterSay
<1>4. a \in Seq(AnswerPieces) /\ a \in Expected(at')
  BY <1>1, <1>2, AnswersTyped DEF AfterSay, Expected
<1>5. ~granted /\ sent["target"] = <<>> /\ resp = <<>> /\ left = <<>>
  BY <1>2, <1>3 DEF ShakingOK, NodeOK
<1>6. Lead \in Seq(AnswerPieces) /\ Lead' = Lead
  BY <1>2, <1>3 DEF ShakingOK, Lead
<1>7. peer["target"] = "open" => Lead = <<>> /\ owes = <<>>
  <2>1. peer["target"] = "open" => Lead \o owes = <<>>
    <3>1. resp \o Lead = Lead
      BY <1>5, <1>6, ConcatEmptySeq
    <3> QED
      BY <1>2, <1>3, <3>1 DEF ShakingOK, Expected
  <2>2. owes \in Seq(AnswerPieces)
    BY DEF NodeTypes
  <2>3. Len(Lead) \in Nat /\ Len(owes) \in Nat /\ Len(Lead \o owes) = Len(Lead) + Len(owes)
    BY <1>6, <2>2, ConcatProperties, LenProperties
  <2>4. Lead \o owes = <<>> => Len(Lead) = 0 /\ Len(owes) = 0
    BY <2>3
  <2> QED
    BY <1>6, <2>1, <2>2, <2>4, EmptySeq
<1>8. peer["target"] = "open" => owes' = a
  BY <1>1, <1>4, <1>7, ConcatEmptySeq
<1>9. NodeTypes' /\ NodeOK'
  BY <1>1, <1>2, <1>3, <1>4, <1>5, <1>8
     DEF NodeTypes, NodeOK, Before, Fields, Shaking, SocksPoints, HttpPoints
<1>10. ShakingOK'
  <2>1. <<>> \o <<>> \o a = a /\ <<>> \o Lead = Lead
    BY <1>4, <1>6, ConcatEmptySeq, EmptySeq
  <2>2. peer["target"] = "open" => resp' \o Lead' \o owes' \in Expected(at')
    BY <1>2, <1>4, <1>5, <1>6, <1>7, <1>8, <2>1
  <2>3. inbox["target"] = Lead \o sent["target"]
    BY <1>2, <1>3 DEF ShakingOK
  <2>4. inbox'["target"] = Lead' \o sent'["target"] /\ Lead' \in Seq(AnswerPieces)
    BY <1>2, <1>6, <2>3
  <2>5. /\ at' \notin {"reply", "answer"} => ~granted'
        /\ sent'["target"] = <<>> /\ resp' = <<>> /\ peer'["target"] # "reset"
    <3>1. at' \notin {"reply", "answer"} => at \notin {"ask", "ask_http"}
      BY <1>2 DEF AfterSay
    <3>2. at \notin {"ask", "ask_http"} => ~granted'
      BY <1>1
    <3>3. sent' = sent /\ resp' = resp /\ peer' = peer
      BY <1>2
    <3> QED
      BY <1>2, <1>5, <3>1, <3>2, <3>3
  <2> QED
    BY <1>2, <2>2, <2>4, <2>5 DEF ShakingOK
<1> QED
  BY <1>9, <1>10

\* The lengths of the answers.
LEMMA AnswersLong ==
  /\ \A a \in SocksAnswers["ask"] : Len(a) >= 4
  /\ \A a \in Expected("length") : Len(a) = 3
  /\ \A a \in Expected("rest_only") : Len(a) = 3
  /\ \A a \in Expected("rest") : Len(a) = 2
  /\ \A a \in HttpAnswers : Len(a) \in Nat /\ Len(a) \in DOMAIN a /\ a[Len(a)] = "end"
<1>1. ASSUME NEW a \in HttpAnswers
      PROVE  Len(a) \in Nat /\ Len(a) \in DOMAIN a /\ a[Len(a)] = "end"
  <2>1. a \in Seq(STRING) /\ Len(a) > 1 /\ \A i \in DOMAIN a : a[i] = "end" <=> i = Len(a)
    BY <1>1, UpstreamAssumption
  <2>2. Len(a) \in Nat /\ DOMAIN a = 1 .. Len(a)
    BY <2>1, LenProperties
  <2> QED
    BY <2>1, <2>2
<1>2. \A a \in SocksAnswers["ask"] : Len(a) >= 4
  BY DEF SocksAnswers
<1>3. /\ \A a \in Expected("length") : Len(a) = 3
      /\ \A a \in Expected("rest_only") : Len(a) = 3
      /\ \A a \in Expected("rest") : Len(a) = 2
  BY DEF Expected
<1> QED
  BY <1>1, <1>2, <1>3

\* Once the target has spoken its node has answered.
LEMMA SpokenIsAnswered ==
  ASSUME PipeTypes, NodeTypes, NodeOK, ShakingOK, at \in Shaking,
         peer["target"] # "reset", sent["target"] # <<>>
  PROVE  owes = <<>> /\ granted /\ resp \o Lead \in Expected(at) /\ (at # "answer" => Lead \in Expected(at))
<1>1. owes = <<>> /\ granted /\ Lead \in Seq(AnswerPieces) /\ resp \in Seq(AnswerPieces)
  BY InboxOfShake DEF ShakingOK
<1>2. resp \o Lead \o owes \in Expected(at)
  BY DEF ShakingOK, PipeTypes, Sides
<1>3. resp \o Lead \in Seq(AnswerPieces)
  BY <1>1, ConcatProperties
<1>4. resp \o Lead \o owes = resp \o Lead
  BY <1>1, <1>3, ConcatEmptySeq
<1>5. at # "answer" => resp = <<>>
  BY DEF ShakingOK
<1> QED
  BY <1>1, <1>2, <1>4, <1>5, ConcatEmptySeq

LEMMA ReadAnswerStep ==
  ASSUME PipeTypes, NodeTypes, InputOK, NodeOK, ShakingOK, ReadAnswer
  PROVE  NodeTypes' /\ NodeOK' /\ ShakingOK'
<1>1. /\ at \in {"method", "status", "reply"} /\ at \in Shaking /\ peer["target"] # "reset"
      /\ UNCHANGED <<sent, peer, owes, resp, granted, left>> /\ Take(2)
  BY DEF ReadAnswer, Shaking, SocksPoints, InputOK, Sides, ends, answer
<1>2. CASE at' = "unlinked"
  BY <1>1, <1>2, GivesUpStep
<1>3. CASE at' # "unlinked"
  <2> DEFINE f == Arrived(2)
             k == Len(f)
  <2>1. at' = AfterAnswer(f) /\ ~(k < 2)
    BY <1>3 DEF ReadAnswer, GivesUp, Goto
  <2>2. sent["target"] = <<>> \/ 2 <= Len(Lead)
    <3>1. sent["target"] # <<>> => at = "reply" /\ Lead \in SocksAnswers["ask"]
      BY <1>1, SpokenIsAnswered DEF ShakingOK, Expected
    <3>2. Lead \in SocksAnswers["ask"] => Len(Lead) >= 4
      BY AnswersLong
    <3>3. Len(Lead) \in Nat
      BY <1>1, InboxOfShake
    <3> QED
      BY <3>1, <3>2, <3>3
  <2>3. /\ k \in 0 .. Len(Lead) /\ k = Least(2, Len(Lead)) /\ f = First(Lead, k)
        /\ Lead' = Rest(Lead, k) /\ Lead' \in Seq(AnswerPieces)
        /\ inbox'["target"] = Lead' \o sent'["target"]
        /\ Lead' \o owes = Rest(Lead \o owes, k)
    BY <1>1, <2>2, TakeOfShake
  <2>4. Len(Lead) \in Nat /\ Lead \in Seq(AnswerPieces) /\ owes \in Seq(AnswerPieces)
        /\ resp = <<>>
    BY <1>1, InboxOfShake DEF ShakingOK
  <2> HIDE DEF f, k
  <2>5. k = 2 /\ 2 <= Len(Lead)
    <3> DEFINE m == Len(Lead)
    <3>1. m \in Nat /\ k = Least(2, m) /\ k \in 0 .. m /\ ~(k < 2)
      BY <2>1, <2>3, <2>4
    <3> HIDE DEF m
    <3>2. k = 2 /\ 2 <= m
      BY <3>1 DEF Least
    <3> QED
      BY <3>2 DEF m
  <2>6. f[2] = Lead[2] /\ Lead[2] = (Lead \o owes)[2]
    <3>1. \A i \in 1 .. k : First(Lead, k)[i] = Lead[i]
      BY <2>4, <2>5, FirstProperties
    <3>2. \A i \in 1 .. Len(Lead) + Len(owes) :
             (Lead \o owes)[i] = IF i <= Len(Lead) THEN Lead[i] ELSE owes[i - Len(Lead)]
      BY <2>4, ConcatProperties
    <3>3. Len(owes) \in Nat
      BY <2>4, LenProperties
    <3>4. 2 \in 1 .. Len(Lead) + Len(owes)
      BY <2>4, <2>5, <3>3
    <3>5. (Lead \o owes)[2] = Lead[2]
      BY <2>5, <3>2, <3>4
    <3>6. 2 \in 1 .. k
      BY <2>5
    <3>7. f[2] = Lead[2]
      BY <2>3, <3>1, <3>6
    <3> QED
      BY <3>5, <3>7
  <2>7. /\ <<>> \o Lead = Lead /\ <<>> \o Lead' = Lead'
        /\ at' \in {"login", "ask", "rest", "length"}
        /\ at \in {"method", "status"} => at' \in {"login", "ask"}
        /\ at = "reply" => at' \in {"rest", "length"}
    BY <1>1, <1>3, <2>1, <2>3, <2>4, ConcatEmptySeq DEF AfterAnswer
  <2>8. ASSUME peer["target"] = "open" \/ (peer["target"] = "fin" /\ sent["target"] # <<>>)
        PROVE  Lead' \o owes \in Expected(at')
    <3> DEFINE a == Lead \o owes
    <3>1. a \in Expected(at)
      BY <1>1, <2>4, <2>7, <2>8 DEF ShakingOK
    <3>2. Lead' \o owes = Rest(a, 2) /\ f[2] = a[2]
      BY <2>3, <2>5, <2>6
    <3> HIDE DEF a
    <3>3. CASE at \in {"method", "status"}
      <4>1. \E x, y : a = <<x, y>>
        BY <3>1, <3>3 DEF Expected, SocksAnswers
      <4>2. Rest(a, 2) = <<>>
        BY <4>1, RestOfPair
      <4> QED
        BY <2>7, <3>2, <3>3, <4>2 DEF Expected
    <3>4. CASE at = "reply"
      <4>1. \/ a = <<"version", "ipv4", "addr", "port">>
            \/ a = <<"version", "domain", "length", "addr", "port">>
            \/ a = <<"version", "error", "addr", "port">>
        BY <3>1, <3>4 DEF Expected, SocksAnswers
      <4>2. /\ Rest(<<"version", "ipv4", "addr", "port">>, 2) = <<"addr", "port">>
            /\ Rest(<<"version", "domain", "length", "addr", "port">>, 2)
                  = <<"length", "addr", "port">>
        BY RestOfFour, RestOfFive
      <4>3. CASE a = <<"version", "ipv4", "addr", "port">>
        <5>1. f[2] = "ipv4"
          BY <3>2, <4>3
        <5>2. at' = "rest"
          BY <2>1, <3>4, <5>1 DEF AfterAnswer
        <5> QED
          BY <3>2, <4>2, <4>3, <5>2 DEF Expected
      <4>4. CASE a = <<"version", "domain", "length", "addr", "port">>
        <5>1. f[2] = "domain"
          BY <3>2, <4>4
        <5>2. at' = "length"
          BY <2>1, <3>4, <5>1 DEF AfterAnswer
        <5> QED
          BY <3>2, <4>2, <4>4, <5>2 DEF Expected
      <4>5. CASE a = <<"version", "error", "addr", "port">>
        <5>1. f[2] = "error"
          BY <3>2, <4>5
        <5> QED
          BY <1>3, <2>1, <3>4, <5>1 DEF AfterAnswer
      <4> QED
        BY <4>1, <4>3, <4>4, <4>5
    <3> QED
      BY <1>1, <3>3, <3>4
  <2>9. NodeTypes' /\ NodeOK'
    BY <1>1, <2>7 DEF NodeTypes, NodeOK, Before, Fields, Shaking, SocksPoints, HttpPoints
  <2>10. at' \in {"login", "ask"} => ~granted'
    BY <1>1, <2>7 DEF ShakingOK
  <2>11. sent["target"] # <<>> => granted
    BY <1>1 DEF ShakingOK
  <2>12. ShakingOK'
    BY <1>1, <2>3, <2>4, <2>7, <2>8, <2>10, <2>11 DEF ShakingOK
  <2> QED
    BY <2>9, <2>12
<1> QED
  BY <1>2, <1>3

LEMMA ReadLengthStep ==
  ASSUME PipeTypes, NodeTypes, InputOK, NodeOK, ShakingOK, ReadLength
  PROVE  NodeTypes' /\ NodeOK' /\ ShakingOK'
<1>1. /\ at = "length" /\ at \in Shaking /\ Take(1)
      /\ at' = IF Arrived(1) = <<>> THEN "rest_only" ELSE "rest"
      /\ UNCHANGED <<sent, peer, owes, resp, granted, left>>
  BY DEF ReadLength, Shaking, SocksPoints, ends, answer, Goto
<1>2. NodeTypes' /\ NodeOK'
  BY <1>1 DEF NodeTypes, NodeOK, Before, Fields, Shaking, SocksPoints, HttpPoints
<1>3. /\ resp = <<>> /\ sent["target"] # <<>> => granted
  BY <1>1 DEF ShakingOK
<1>4. CASE peer["target"] = "reset"
  <2>1. inbox["target"] = <<>>
    BY <1>4 DEF InputOK, Sides
  <2>2. inbox'["target"] = <<>>
    BY <1>1, <2>1, TakeOfNothing
  <2>3. sent'["target"] \in Seq(Pieces)
    BY <1>1 DEF PipeTypes, Sides
  <2>4. Lead' \in Seq(AnswerPieces)
    BY <2>2, <2>3, NothingBefore, EmptySeq DEF Lead
  <2>5. ShakingOK'
    BY <1>1, <1>3, <1>4, <2>4 DEF ShakingOK
  <2> QED
    BY <1>2, <2>5
<1>5. CASE peer["target"] # "reset"
  <2> DEFINE k == Len(Arrived(1))
  <2>1. /\ Len(Lead) \in Nat /\ Lead \in Seq(AnswerPieces) /\ owes \in Seq(AnswerPieces)
        /\ <<>> \o Lead = Lead
    BY <1>1, <1>5, InboxOfShake, ConcatEmptySeq
  <2>2. sent["target"] = <<>> \/ 1 <= Len(Lead)
    <3>1. sent["target"] # <<>> => Lead \in Expected("length")
      BY <1>1, <1>5, SpokenIsAnswered
    <3>2. Lead \in Expected("length") => Len(Lead) = 3
      BY AnswersLong
    <3> QED
      BY <3>1, <3>2, <2>1
  <2>3. /\ k \in 0 .. Len(Lead) /\ k = Least(1, Len(Lead)) /\ Arrived(1) = First(Lead, k)
        /\ Lead' = Rest(Lead, k) /\ Lead' \in Seq(AnswerPieces)
        /\ inbox'["target"] = Lead' \o sent'["target"]
        /\ Lead' \o owes = Rest(Lead \o owes, k)
    BY <1>1, <1>5, <2>2, TakeOfShake
  <2> DEFINE a == Lead \o owes
  <2>4. a \in Seq(AnswerPieces) /\ Len(a) \in Nat /\ <<>> \o Lead' = Lead'
    BY <2>1, <2>3, ConcatProperties, ConcatEmptySeq, LenProperties
  <2>5. ASSUME peer["target"] = "open" \/ (peer["target"] = "fin" /\ sent["target"] # <<>>)
        PROVE  Lead' \o owes \in Expected(at')
    <3>1. a \in Expected("length")
      BY <1>1, <1>3, <2>1, <2>5 DEF ShakingOK
    <3>2. Lead' \o owes = Rest(a, k) /\ (Arrived(1) = <<>> <=> k = 0)
      <4>1. Arrived(1) \in Seq(AnswerPieces)
        <5>1. k \in Int /\ k <= Len(Lead)
          BY <2>1, <2>3
        <5> QED
          BY <2>1, <2>3, <5>1, FirstProperties
      <4> QED
        BY <2>3, <4>1, EmptySeq
    <3> HIDE DEF a
    <3>3. a = <<"length", "addr", "port">>
      BY <3>1 DEF Expected
    <3> HIDE DEF k
    <3>4. CASE k = 0
      <4>1. Rest(a, k) = a
        BY <2>4, <3>4, SubSeqFull DEF Rest
      <4> QED
        BY <1>1, <3>2, <3>3, <3>4, <4>1 DEF Expected
    <3>5. CASE k = 1
      <4>1. Rest(<<"length", "addr", "port">>, 1) = <<"addr", "port">>
        BY RestOfTriple
      <4> QED
        BY <1>1, <3>2, <3>3, <3>5, <4>1 DEF Expected
    <3>6. k \in {0, 1}
      <4> DEFINE m == Len(Lead)
      <4>1. m \in Nat /\ k = Least(1, m) /\ k \in 0 .. m
        BY <2>1, <2>3
      <4> HIDE DEF m
      <4> QED
        BY <4>1 DEF Least
    <3> QED
      BY <3>4, <3>5, <3>6
  <2>6. ShakingOK'
    BY <1>1, <1>3, <1>5, <2>3, <2>4, <2>5 DEF ShakingOK
  <2> QED
    BY <1>2, <2>6
<1> QED
  BY <1>4, <1>5

\* What the handshake leaves in the stream when it is over.
LEMMA ReadRestStep ==
  ASSUME PipeTypes, NodeTypes, InputOK, NodeOK, ShakingOK, ReadRest
  PROVE  NodeTypes' /\ NodeOK' /\ ShakingOK'
<1> DEFINE n == IF at = "rest" THEN 2 ELSE 1
           k == Len(Arrived(n))
<1>1. /\ at \in {"rest", "rest_only"} /\ at \in Shaking /\ Take(n) /\ n \in Nat
      /\ at' = "linked"
      /\ left' = First(inbox'["target"], Len(inbox'["target"]) - Len(sent["target"]))
      /\ UNCHANGED <<sent, peer, owes, resp, granted>>
  BY DEF ReadRest, Links, Shaking, SocksPoints, ends, Goto
<1>2. left' \in Seq(AnswerPieces)
  <2>1. CASE peer["target"] = "reset"
    <3>1. inbox'["target"] = <<>>
      BY <1>1, <2>1, TakeOfNothing DEF InputOK, Sides
    <3>2. sent["target"] \in Seq(Pieces)
      BY DEF PipeTypes, Sides
    <3> QED
      BY <1>1, <3>1, <3>2, NothingBefore, EmptySeq
  <2>2. CASE peer["target"] # "reset"
    <3>1. sent["target"] = <<>> \/ n <= Len(Lead)
      <4>1. sent["target"] # <<>> => Lead \in Expected(at)
        BY <1>1, <2>2, SpokenIsAnswered
      <4>2. /\ Lead \in Expected("rest") => Len(Lead) = 2
            /\ Lead \in Expected("rest_only") => Len(Lead) = 3
        BY AnswersLong
      <4> QED
        BY <1>1, <4>1, <4>2
    <3>2. left' = Rest(Lead, k) /\ Rest(Lead, k) \in Seq(AnswerPieces)
      BY <1>1, <2>2, <3>1, TakeOfShake
    <3> QED
      BY <3>2
  <2> QED
    BY <2>1, <2>2
<1>3. NodeTypes' /\ NodeOK'
  BY <1>1, <1>2 DEF NodeTypes, NodeOK, Before, Fields, Shaking, SocksPoints, HttpPoints
<1>4. ShakingOK'
  BY <1>1 DEF ShakingOK, Shaking, SocksPoints, HttpPoints
<1> QED
  BY <1>3, <1>4

LEMMA ReadByteStep ==
  ASSUME PipeTypes, NodeTypes, InputOK, NodeOK, ShakingOK, ReadByte
  PROVE  NodeTypes' /\ NodeOK' /\ ShakingOK'
<1> DEFINE k == Len(Arrived(1))
<1>1. /\ at = "answer" /\ at \in Shaking /\ peer["target"] # "reset" /\ ~HeadRead
      /\ Take(1) /\ at' = at /\ resp' = resp \o Arrived(1)
      /\ UNCHANGED <<sent, peer, owes, granted, left>>
  BY DEF ReadByte, Shaking, HttpPoints, ends, InputOK, Sides
<1>2. /\ Len(Lead) \in Nat /\ Lead \in Seq(AnswerPieces) /\ owes \in Seq(AnswerPieces)
      /\ resp \in Seq(AnswerPieces)
  BY <1>1, InboxOfShake
<1>3. sent["target"] = <<>> \/ 1 <= Len(Lead)
  <2>1. CASE sent["target"] # <<>>
    <3>1. resp \o Lead \in HttpAnswers
      BY <1>1, <2>1, SpokenIsAnswered DEF Expected
    <3>2. Len(Lead) # 0
      <4>1. SUFFICES ASSUME Len(Lead) = 0 PROVE FALSE
        OBVIOUS
      <4>2. Lead = <<>>
        BY <1>2, <4>1, EmptySeq
      <4>3. resp \in HttpAnswers
        BY <1>2, <3>1, <4>2, ConcatEmptySeq
      <4>4. Has(resp, {"end"})
        BY <4>3, AnswersLong DEF Has
      <4> QED
        BY <1>1, <4>4 DEF HeadRead
    <3> QED
      BY <1>2, <3>2
  <2> QED
    BY <2>1
<1>4. /\ k \in 0 .. Len(Lead) /\ Arrived(1) = First(Lead, k)
      /\ Lead' = Rest(Lead, k) /\ Lead' \in Seq(AnswerPieces)
      /\ inbox'["target"] = Lead' \o sent'["target"]
      /\ resp \o First(Lead, k) \in Seq(AnswerPieces)
      /\ resp \o First(Lead, k) \o Rest(Lead, k) \o owes = resp \o Lead \o owes
  BY <1>1, <1>3, TakeOfShake
<1>5. resp' \in Seq(AnswerPieces) /\ resp' \o Lead' \o owes' = resp \o Lead \o owes
  BY <1>1, <1>4
<1>6. NodeTypes' /\ NodeOK'
  BY <1>1, <1>5 DEF NodeTypes, NodeOK, Before, Fields, Shaking, SocksPoints, HttpPoints
<1>7. ShakingOK'
  BY <1>1, <1>4, <1>5 DEF ShakingOK
<1> QED
  BY <1>6, <1>7

LEMMA HeadDoneStep ==
  ASSUME PipeTypes, NodeTypes, NodeOK, ShakingOK, HeadDone
  PROVE  NodeTypes' /\ NodeOK' /\ ShakingOK'
<1>1. /\ at = "answer" /\ at \in Shaking /\ resp' = <<>>
      /\ UNCHANGED <<sent, peer, inbox, owes, granted>>
  BY DEF HeadDone, Shaking, HttpPoints, ends, pipes
<1>2. CASE Has(resp, {"200", "mentions_200"})
  <2>1. at' = "linked" /\ left' = Lead /\ Lead \in Seq(AnswerPieces)
    BY <1>1, <1>2 DEF HeadDone, Links, Goto, Lead, ShakingOK
  <2>2. NodeTypes' /\ NodeOK'
    BY <1>1, <2>1, EmptySeq
       DEF NodeTypes, NodeOK, Before, Fields, Shaking, SocksPoints, HttpPoints
  <2>3. ShakingOK'
    BY <2>1 DEF ShakingOK, Shaking, SocksPoints, HttpPoints
  <2> QED
    BY <2>2, <2>3
<1>3. CASE ~Has(resp, {"200", "mentions_200"})
  <2>1. at' = "unlinked" /\ left' = left
    BY <1>3 DEF HeadDone, GivesUp, Goto
  <2> QED
    BY <1>1, <2>1, GivesUpStep
<1> QED
  BY <1>2, <1>3

LEMMA LinkStep ==
  ASSUME PointTypes, PipeTypes, NodeTypes, InputOK, NodeOK, ShakingOK, Connecting
  PROVE  NodeTypes' /\ NodeOK' /\ ShakingOK'
<1>1. CASE at \in {"connecting", "unlinked"}
  BY <1>1, DialStep
<1>2. CASE at \notin {"connecting", "unlinked"}
  <2>1. CASE SayFails \/ NodeSilent
    <3>1. /\ at \in Shaking /\ at' = "unlinked"
          /\ UNCHANGED <<sent, peer, owes, left, resp>>
      BY <2>1 DEF SayFails, NodeSilent, Waits, Shaking, SocksPoints, HttpPoints, GivesUp, Goto,
                  ends, answer
    <3> QED
      BY <3>1, GivesUpStep
  <2>2. CASE (\E way \in Via : Dial(way) \/ DialFails(way)) \/ Retry
    BY <1>2, <2>2 DEF Dial, DialFails, Retry
  <2> QED
    BY <2>1, <2>2, SayStep, ReadAnswerStep, ReadLengthStep, ReadRestStep, ReadByteStep,
       HeadDoneStep DEF Connecting, UpstreamStep
<1> QED
  BY <1>1, <1>2

\* The node sends a piece of its answer.
LEMMA NodeAnswersStep ==
  ASSUME PipeTypes, NodeTypes, NodeOK, ShakingOK, NodeAnswers
  PROVE  NodeTypes' /\ NodeOK' /\ ShakingOK'
<1> DEFINE q == inbox["target"]
           h == Head(owes)
<1>1. /\ owes # <<>> /\ peer["target"] = "open" /\ owes' = Tail(owes)
      /\ left' = IF at \in LinkPoints \ {"linked"} THEN left ELSE Append(left, h)
      /\ inbox'["target"] = Append(q, h)
      /\ UNCHANGED <<sent, peer, at, resp, tries, granted>>
  BY DEF NodeAnswers, NodeSends, ends, PipeTypes, Sides
<1>2. h \in AnswerPieces /\ Tail(owes) \in Seq(AnswerPieces) /\ owes \in Seq(AnswerPieces)
  BY <1>1, HeadTailProperties DEF NodeTypes
<1>3. NodeTypes'
  <2>1. Append(left, h) \in Seq(AnswerPieces)
    BY <1>2, AppendProperties DEF NodeTypes
  <2> QED
    BY <1>1, <1>2, <2>1 DEF NodeTypes
<1>4. sent["target"] = <<>>
  BY <1>1 DEF NodeOK
<1>5. NodeOK'
  <2>1. at \notin Before
    BY <1>1 DEF NodeOK
  <2> QED
    BY <1>1, <1>4, <2>1
       DEF NodeOK, LinkPoints, SocksPoints, HttpPoints, Shaking, Before, Fields
<1>6. CASE at \in Shaking
  <2>1. q = Lead /\ Lead \in Seq(AnswerPieces) /\ resp \in Seq(AnswerPieces)
        /\ resp \o Lead \o owes \in Expected(at) /\ resp \o Lead \in Seq(AnswerPieces)
    BY <1>1, <1>4, <1>6, InboxOfShake, ConcatProperties DEF ShakingOK
  <2> HIDE DEF q, h
  <2> DEFINE l == Append(q, h)
  <2>2. l \in Seq(AnswerPieces) /\ l = q \o <<h>> /\ <<h>> \in Seq(AnswerPieces)
    BY <1>2, <2>1, AppendProperties, AppendIsConcat
  <2>3. owes = <<h>> \o Tail(owes)
    BY <1>1, <1>2, HeadAndTail DEF h
  <2>4. resp \o l \o Tail(owes) = resp \o q \o owes
    <3>1. \A x, y, z \in Seq(AnswerPieces) : x \o y \o z = x \o (y \o z)
      BY ConcatAssociative
    <3>2. resp \o l = resp \o q \o <<h>>
      BY <2>1, <2>2, <3>1
    <3>3. (resp \o q) \o <<h>> \o Tail(owes) = (resp \o q) \o (<<h>> \o Tail(owes))
      BY <1>2, <2>1, <2>2, <3>1
    <3> QED
      BY <2>3, <3>2, <3>3
  <2>5. inbox'["target"] = l \o sent'["target"] /\ Lead' = l
    <3>1. l \o <<>> = l /\ <<>> \in Seq(AnswerPieces)
      BY <2>2, ConcatEmptySeq
    <3>2. First(l \o <<>>, Len(l \o <<>>) - Len(<<>>)) = l
      BY <2>2, <3>1, FirstBefore
    <3> QED
      BY <1>1, <1>4, <3>1, <3>2 DEF Lead, q
  <2> QED
    BY <1>1, <1>3, <1>4, <1>5, <1>6, <2>1, <2>2, <2>4, <2>5 DEF ShakingOK
<1>7. CASE at \notin Shaking
  BY <1>1, <1>3, <1>5, <1>7 DEF ShakingOK
<1> QED
  BY <1>6, <1>7

\* The target speaks, shuts its side or resets the connection.
LEMMA TargetStep ==
  ASSUME PointTypes, PipeTypes, NodeTypes, Owned, NodeOK, ShakingOK, PeerStep("target")
  PROVE  NodeTypes' /\ NodeOK' /\ ShakingOK'
<1>0. /\ UNCHANGED <<at, resp, tries, granted, left>> /\ target = "open" /\ at \notin Before
      /\ <<>> \in Seq(AnswerPieces)
  BY EmptySeq DEF PeerStep, Connected, Owned
<1>1. CASE SendsBody("target")
  <2>1. owes = <<>> /\ granted /\ owes' = owes /\ peer' = peer /\ peer["target"] = "open"
    BY <1>1 DEF SendsBody, Reached, PeerSends, PeerStep, PeerShuts, PeerResets, PipeTypes, Sides
  <2>2. NodeTypes' /\ NodeOK'
    BY <1>0, <2>1 DEF NodeTypes, NodeOK, Before, Fields
  <2>3. CASE at \in Shaking
    <3>1. PICK b \in Pieces : PeerSends("target", b)
      BY <1>1, NodePiecesTyped DEF SendsBody, Sides
    <3> DEFINE s == sent["target"]
               l == Lead
    <3>2. /\ sent'["target"] = Append(s, b) /\ inbox'["target"] = Append(l \o s, b)
          /\ l \in Seq(Pieces) /\ s \in Seq(Pieces) /\ l \in Seq(AnswerPieces)
      BY <2>1, <2>3, <3>1, InboxOfShake DEF PeerSends, PipeTypes, Sides
    <3> HIDE DEF s, l
    <3>3. Append(l \o s, b) = l \o Append(s, b) /\ Append(s, b) \in Seq(Pieces)
      <4>1. \A p, q \in Seq(Pieces), x \in Pieces : Append(p \o q, x) = p \o Append(q, x)
        BY AppendToConcat
      <4>2. Append(s, b) \in Seq(Pieces)
        BY <3>2, AppendProperties
      <4> QED
        BY <3>2, <4>1, <4>2
    <3>4. inbox'["target"] = l \o sent'["target"] /\ Lead' = l
      BY <3>2, <3>3, FirstBefore DEF Lead
    <3> QED
      BY <1>0, <2>1, <2>2, <2>3, <3>2, <3>4 DEF ShakingOK, l
  <2>4. CASE at \notin Shaking
    BY <1>0, <2>2, <2>4 DEF ShakingOK
  <2> QED
    BY <2>3, <2>4
<1>2. CASE PeerShuts("target")
  <2>1. UNCHANGED <<sent, inbox>> /\ peer["target"] = "open" /\ peer'["target"] = "fin"
    BY <1>2 DEF PeerShuts, pipes, PipeTypes, Sides
  <2>2. owes' = <<>> \/ owes' = owes
    BY DEF PeerStep
  <2>3. owes' # owes => owes' = <<>>
    BY <2>2
  <2>4. peer'["target"] # "open" => owes' = <<>>
    <3>1. CASE SendsBody("target")
      BY <2>1, <3>1 DEF SendsBody, PeerSends
    <3> QED
      BY <3>1 DEF PeerStep
  <2>5. NodeTypes' /\ NodeOK'
    BY <1>0, <2>1, <2>2, <2>4 DEF NodeTypes, NodeOK, Before, Fields
  <2>6. Lead' = Lead
    BY <2>1 DEF Lead
  <2>7. sent["target"] # <<>> => owes' = owes
    BY <2>2, <2>4 DEF NodeOK
  <2>8. ShakingOK'
    BY <1>0, <2>1, <2>6, <2>7 DEF ShakingOK
  <2> QED
    BY <2>5, <2>8
<1>3. CASE PeerResets("target")
  <2>1. sent' = sent /\ inbox'["target"] = <<>> /\ peer'["target"] = "reset"
    BY <1>3 DEF PeerResets, PipeTypes, Sides
  <2>2. owes' = <<>> \/ owes' = owes
    BY DEF PeerStep
  <2>3. peer["target"] # "reset" /\ owes' = <<>>
    <3>1. CASE SendsBody("target")
      BY <2>1, <3>1 DEF SendsBody, PeerSends, PipeTypes, Sides
    <3> QED
      BY <1>3, <3>1 DEF PeerStep, PeerResets
  <2>4. NodeTypes' /\ NodeOK'
    BY <1>0, <2>1, <2>3 DEF NodeTypes, NodeOK, Before, Fields
  <2>5. sent'["target"] \in Seq(Pieces)
    BY <2>1 DEF PipeTypes, Sides
  <2>6. Lead' \in Seq(AnswerPieces)
    BY <2>1, <2>5, NothingBefore, EmptySeq DEF Lead
  <2>7. ShakingOK'
    BY <1>0, <2>1, <2>6 DEF ShakingOK
  <2> QED
    BY <2>4, <2>7
<1> QED
  BY <1>1, <1>2, <1>3 DEF PeerStep

LEMMA NodeStep ==
  ASSUME PointTypes, PipeTypes, NodeTypes, Owned, InputOK, ChunkOK, NodeOK, ShakingOK, SessionNext
  PROVE  NodeTypes' /\ NodeOK' /\ ShakingOK'
<1>1. CASE Connecting
  BY <1>1, LinkStep
<1>2. CASE NodeAnswers
  BY <1>2, NodeAnswersStep
<1>3. CASE PeerStep("target")
  BY <1>3, TargetStep
<1>4. ASSUME UNCHANGED <<owes, resp, left, granted, tries, at>>,
             sent'["target"] = sent["target"], inbox'["target"] = inbox["target"],
             peer'["target"] = peer["target"]
      PROVE  NodeTypes' /\ NodeOK' /\ ShakingOK'
  <2>1. Lead' = Lead
    BY <1>4 DEF Lead
  <2> QED
    BY <1>4, <2>1 DEF NodeTypes, NodeOK, ShakingOK, Before, Fields
<1>5. CASE PeerStep("client") \/ ClientStep \/ Reload \/ \E s \in Sides : Reads(s)
  BY <1>4, <1>5 DEF PeerStep, SendsBody, PeerSends, PeerShuts, PeerResets, ClientStep, SendsField,
       Reload, Reads, PeerReads, ends, pipes, relayVars, answer, PipeTypes, Sides
<1>6. CASE Relays \/ RelayFails
  <2>1. at \in RelayPoints /\ at' \in InRelay
    BY <1>6, PointsOfRelay
  <2>2. UNCHANGED <<sent, peer, owes, resp, left>>
    BY <1>6 DEF Relays, RelayFails, PollFails, RelayStep, PollReady, PollTimeout, Account, HangUp,
         Pass, Recv, RecvEnds, Send, SendWaits, SendBreaks, SendDone, ends, answer
  <2> QED
    BY <2>1, <2>2 DEF NodeTypes, NodeOK, ShakingOK, RelayPoints, InRelay, Before, Fields, Shaking,
         SocksPoints, HttpPoints
<1>7. CASE Connects \/ NotConnected
  <2>1. /\ UNCHANGED <<peer, owes, left>> /\ resp' = <<>>
        /\ sent'["target"] = sent["target"] \/ sent'["target"] = <<>>
        /\ at' \in {"say_connected", "say_200", "early", "say_refused", "say_502"}
    BY <1>7 DEF Connects, NotConnected, Opened, ForgetsAttempts, Goto, ends, PipeTypes, Sides
  <2> QED
    BY <2>1, EmptySeq DEF NodeTypes, NodeOK, ShakingOK, Before, Fields, Shaking, SocksPoints,
         HttpPoints
<1>8. CASE \/ Accept \/ Peek \/ Unregister \/ CloseClient \/ RecvFails \/ Reply \/ ReplyFails
           \/ Greet \/ RecvField \/ ReadHead \/ Request \/ SendEarly \/ Start \/ Finish
           \/ CloseTarget
  <2>1. /\ UNCHANGED <<owes, resp, left, granted, tries, sent, peer>>
        /\ inbox'["target"] = inbox["target"]
    BY <1>8 DEF Accept, Peek, Unregister, CloseClient, RecvFails, Reply, ReplyFails, Greet,
         RecvField, ReadHead, Request, SendEarly, Start, Finish, CloseTarget, ends, pipes, answer,
         PipeTypes, Sides
  <2>2. /\ at' \in Before => at \in Before
        /\ at' \notin Shaking \cup {"unlinked"}
        /\ at' = "connecting" => at \in Before
    BY <1>8, RecvFieldMoves
       DEF Accept, Register, FirstPoint, Peek, Unregister, CloseClient, RecvFails, Reply,
         ReplyFails, Greet, MethodReply, RecvField, ReadHead, Request, SendEarly, Start, Finish,
         CloseTarget, Goto, AfterReply, Replies, Checked, FieldPoints, Fields, Before, Shaking,
         SocksPoints, HttpPoints, PointTypes, SessionAssumption
  <2>3. 0 < Attempts
    BY UpstreamAssumption
  <2> QED
    BY <2>1, <2>2, <2>3 DEF NodeTypes, NodeOK, ShakingOK, Before, Fields
<1> QED
  BY <1>1, <1>2, <1>3, <1>5, <1>6, <1>7, <1>8 DEF SessionNext, ThreadStep, Sides

-----------------------------------------------------------------------------
(* The invariant.                                                          *)

SessionInv ==
  Types /\ Owned /\ InputOK /\ ChunkOK /\ ClearedOK /\ NodeOK /\ ShakingOK

LEMMA SessionInvInit == SessionInit => SessionInv
<1> SUFFICES ASSUME SessionInit PROVE SessionInv
  OBVIOUS
<1>1. /\ at = "accept" /\ listed = "none" /\ active = 0 /\ client = "open" /\ target = "none"
      /\ mode \in Modes /\ auth \in Auths /\ speaks \in Protocols /\ reloads = 0
      /\ cleared = ~auth /\ granted = FALSE /\ tries = 0 /\ owes = <<>> /\ resp = <<>> /\ left = <<>>
      /\ chunk = <<>> /\ size = 0 /\ idle = 0 /\ lag = 0 /\ reason = "none"
  BY DEF SessionInit, RelayInit, UpstreamInit
<1>2. /\ sent = [s \in Sides |-> <<>>] /\ got = [s \in Sides |-> <<>>]
      /\ inbox = [s \in Sides |-> <<>>] /\ outbox = [s \in Sides |-> <<>>]
      /\ peer = [s \in Sides |-> "open"] /\ bytes = [s \in Sides |-> 0]
  BY DEF SessionInit, RelayInit
<1>3. <<>> \in Seq(Pieces) /\ <<>> \in Seq(AnswerPieces) /\ Len(<<>>) <= Window
  BY EmptySeq, RelayAssumption
<1>4. PointTypes /\ Owned
  BY <1>1 DEF PointTypes, Owned, Points, SocksOnly, HttpOnly, Checked, FieldPoints, InRelay,
       RelayPoints, Socketed, Shaking, SocksPoints, HttpPoints, Before, Fields
<1>5. FlagTypes
  BY <1>1, SessionAssumption DEF FlagTypes
<1>6. PipeTypes
  BY <1>1, <1>2, <1>3 DEF PipeTypes
<1>7. CountTypes
  BY <1>1, <1>2, RelayAssumption, SessionAssumption DEF CountTypes
<1>8. NodeTypes
  BY <1>1, <1>3 DEF NodeTypes
<1>9. InputOK
  BY <1>1, <1>2 DEF InputOK, Sides, Fields
<1>10. ChunkOK
  BY <1>1 DEF ChunkOK, HeadKept, LinkPoints, SocksPoints, HttpPoints
<1>11. ClearedOK
  BY <1>1, <1>5 DEF ClearedOK, FlagTypes, LinkPoints, SocksPoints, HttpPoints
<1>12. NodeOK /\ ShakingOK
  BY <1>1, <1>2 DEF NodeOK, ShakingOK, Shaking, SocksPoints, HttpPoints, Sides
<1> QED
  BY <1>4, <1>5, <1>6, <1>7, <1>8, <1>9, <1>10, <1>11, <1>12 DEF SessionInv, Types

LEMMA SessionInvStep == SessionInv /\ [SessionNext]_vars => SessionInv'
<1> SUFFICES ASSUME SessionInv, [SessionNext]_vars PROVE SessionInv'
  OBVIOUS
<1>1. CASE SessionNext
  BY <1>1, PointsStep, FlagTypesStep, PipeStep, CountStep, NodeStep, InputStep, ChunkStep,
     ClearedStep DEF SessionInv, Types
<1>2. CASE UNCHANGED vars
  <2>1. UNCHANGED <<sent, got, peer, inbox, outbox, at, chunk, size, rev, idle, lag, bytes, reason,
                    mode, auth, reloads, listed, active, client, target, speaks, owes, resp, tries,
                    granted, left, cleared, given>>
    BY <1>2 DEF vars, relayVars, ends, pipes, buffer, clock, config, entry, sockets, answer, history
  <2>2. Fields' = Fields /\ Unread' = Unread /\ Lead' = Lead
    BY <2>1 DEF Fields, Opening, Unread, Lead
  <2>3. Types' /\ Owned'
    <3>1. PointTypes' /\ CountTypes' /\ NodeTypes'
      BY <2>1, <2>2 DEF SessionInv, Types, PointTypes, Points, CountTypes, NodeTypes
    <3>4. FlagTypes'
      BY <2>1 DEF SessionInv, Types, FlagTypes
    <3>2. PipeTypes'
      BY <2>1 DEF SessionInv, Types, PipeTypes
    <3>3. Owned'
      BY <2>1, <2>2 DEF SessionInv, Owned, Before
    <3> QED
      BY <3>1, <3>2, <3>3, <3>4 DEF Types
  <2>4. InputOK'
    BY <2>1, <2>2 DEF SessionInv, InputOK, NothingAsked
  <2>5. ChunkOK' /\ ClearedOK'
    BY <2>1, <2>2 DEF SessionInv, ChunkOK, HeadKept, ClearedOK
  <2>6. NodeOK' /\ ShakingOK'
    BY <2>1, <2>2 DEF SessionInv, NodeOK, ShakingOK, Before
  <2> QED
    BY <2>3, <2>4, <2>5, <2>6 DEF SessionInv
<1> QED
  BY <1>1, <1>2

\* At each point of the thread the session holds what that point needs.
THEOREM SessionInvariant == SessionSpec => []SessionInv
<1> QED
  BY SessionInvInit, SessionInvStep, PTL DEF SessionSpec

\* The values of all variables of a session stay in their types: the buffers of
\* the two connections never hold more than Window pieces, and nothing is in
\* them that nobody can have sent.
THEOREM SessionTypeCorrect == SessionSpec => []SessionTypeOK
<1>1. SessionInv => SessionTypeOK
  BY TypesGiveTypeOK DEF SessionInv
<1> QED
  BY <1>1, SessionInvariant, PTL

\* process_client connects to no target for a client that has not shown the
\* credentials, unless authentication was off at some moment of its session.
THEOREM NobodyUnauthenticated == SessionSpec => []OnlyAuthenticated
<1>1. SessionInv => OnlyAuthenticated
  BY DEF SessionInv, ClearedOK, OnlyAuthenticated
<1> QED
  BY <1>1, SessionInvariant, PTL

\* By whichever return a session ends, its tracker entry, its place among the
\* active connections and both its sockets are released; a target is open only
\* for a connection that is listed.
THEOREM AllEndsReleased == SessionSpec => []EndsReleased
<1>1. SessionInv => EndsReleased
  <2> SUFFICES ASSUME SessionInv PROVE EndsReleased
    OBVIOUS
  <2>1. PointTypes /\ Owned
    BY DEF SessionInv, Types
  <2> QED
    BY <2>1 DEF PointTypes, Owned, EndsReleased, Socketed, Shaking, SocksPoints, HttpPoints,
         InRelay, RelayPoints, Checked
<1> QED
  BY <1>1, SessionInvariant, PTL

=============================================================================
