----------------------- MODULE SessionStreams_proofs -----------------------
(* Theorems about the two streams of Session, for all values of its        *)
(* constants: what is sent arrives once and in order, the counters count   *)
(* it, and a session is a Channel.                                         *)
EXTENDS Session_proofs

-----------------------------------------------------------------------------
(* Where the two streams are at each point.                                *)

\* What peers say: everything but the replies of the handlers.
Talk == Pieces \ Replies

\* y is x and more.
Begins(x, y) == \E more \in Seq(Pieces) : y = x \o more

\* What the handlers or the relay hold of the stream for socket s.
EarlyKept == HeadKept /\ chunk[HeadAt] \in Tunnels \cup Plain
Held(s) ==
  IF at = SendAt(s) THEN chunk
  ELSE IF s = "target" /\ EarlyKept THEN EarlyData ELSE <<>>

\* All of the stream is on its way, but what a reset of the connection it comes
\* from has lost.
Flows(s) ==
  \E lost \in Seq(Pieces) :
     /\ Stream(s) = Delivered(s) \o (Held(s) \o (inbox[Other(s)] \o lost))
     /\ peer[Other(s)] # "reset" => lost = <<>>

\* A reply is the first thing that is written to a socket: g was read, o is yet
\* to be.
Spoken(g, o) ==
  /\ g \in Seq(Talk) /\ o \in Seq(Pieces)
  /\ \/ o \in Seq(Talk)
     \/ g = <<>> /\ o # <<>> /\ o[1] \in Replies /\ Rest(o, 1) \in Seq(Talk)

\* Delivered(s), of what was read and what is yet to be.
Told(g, o) ==
  IF g \o o # <<>> /\ (g \o o)[1] \in Replies THEN Rest(g \o o, 1) ELSE g \o o

\* Nothing has been written yet to the client, or to the target.
Quiet == {"accept", "peek", "greeting", "head", "request"} \cup LinkPoints \cup Replies
Unwritten == Before \cup LinkPoints \cup Replies \cup {"early"}

\* The stream to the client runs from the linking on, the one to the target from
\* the end of the request on.
DownPoints == {"linked", "early", "connected"} \cup Checked \cup RelayPoints
UpPoints   == LinkPoints \cup Checked \cup {"early"}

WrittenOK ==
  /\ \A s \in Sides : sent[s] \in Seq(Talk) /\ Spoken(got[s], outbox[s])
  /\ outbox["target"] \in Seq(Talk)
  /\ at \in Quiet => got["client"] = <<>> /\ outbox["client"] = <<>>
  /\ at \in FieldPoints =>
        /\ got["client"] = <<>>
        /\ \/ outbox["client"] = <<>>
           \/ Unread = <<>> /\ \E r \in Replies : outbox["client"] = <<r>>
  /\ at \in Unwritten => got["target"] = <<>> /\ outbox["target"] = <<>>

StreamsOK ==
  /\ \A s \in Sides : Begins(Delivered(s), Stream(s))
  /\ at \in DownPoints => Flows("client")
  /\ at \in UpPoints \/ (at = "request" /\ EarlyKept) => Flows("target")
  /\ at \in {"connected"} \cup RelayPoints /\ peer["target"] # "reset" => Flows("target")

\* What is counted, and what is about to be.
Counting(s) == IF at = SendAt(s) THEN size - Len(chunk) ELSE 0
CountsOK ==
  /\ reason # "write" =>
        /\ bytes["client"] + Counting("client") = Len(Delivered("client"))
        /\ bytes["target"] + Counting("target") = Len(Delivered("target")) - given
  /\ given \in Nat /\ (at \in Unwritten => given = 0)

-----------------------------------------------------------------------------
(* Sequences and their beginnings.                                         *)

LEMMA Associates ==
  ASSUME NEW S
  PROVE  \A x, y, z \in Seq(S) : (x \o y) \o z = x \o (y \o z)
BY ConcatAssociative

LEMMA Concats ==
  ASSUME NEW S
  PROVE  /\ \A x, y \in Seq(S) : x \o y \in Seq(S) /\ Len(x \o y) = Len(x) + Len(y)
         /\ \A x \in Seq(S) : x \o <<>> = x /\ <<>> \o x = x /\ Len(x) \in Nat
         /\ <<>> \in Seq(S)
BY ConcatProperties, ConcatEmptySeq, LenProperties, EmptySeq

LEMMA BeginsAll ==
  ASSUME NEW y \in Seq(Pieces)
  PROVE  Begins(<<>>, y)
<1>1. y = <<>> \o y
  BY Concats
<1> QED
  BY <1>1 DEF Begins

LEMMA BeginsMore ==
  ASSUME NEW x \in Seq(Pieces), NEW y \in Seq(Pieces), NEW z \in Seq(Pieces), Begins(x, y)
  PROVE  Begins(x, y \o z)
<1>1. PICK m \in Seq(Pieces) : y = x \o m
  BY DEF Begins
<1>2. (x \o m) \o z = x \o (m \o z)
  BY Associates
<1>3. m \o z \in Seq(Pieces)
  BY Concats
<1> QED
  BY <1>1, <1>2, <1>3 DEF Begins

LEMMA BeginsIsPrefix ==
  ASSUME NEW x \in Seq(Pieces), NEW y, Begins(x, y)
  PROVE  IsPrefix(x, y)
<1>1. PICK m \in Seq(Pieces) : y = x \o m
  BY DEF Begins
<1>2. First(x \o m, Len(x)) = x
  BY FirstOfConcat
<1>3. SubSeq(x, 1, Len(x)) = x
  BY SubSeqFull
<1>4. Len(y) = Len(x) + Len(m) /\ Len(x) \in Nat /\ Len(m) \in Nat
  BY <1>1, Concats
<1> QED
  BY <1>1, <1>2, <1>3, <1>4 DEF IsPrefix, First

LEMMA TalkParts ==
  ASSUME NEW x \in Seq(Pieces), NEW y \in Seq(Pieces), x \o y \in Seq(Talk)
  PROVE  x \in Seq(Talk) /\ y \in Seq(Talk)
<1> DEFINE w == x \o y
<1>1. /\ Len(x) \in Nat /\ Len(y) \in Nat /\ Len(w) = Len(x) + Len(y)
      /\ \A i \in 1 .. Len(x) + Len(y) : w[i] = IF i <= Len(x) THEN x[i] ELSE y[i - Len(x)]
  BY LenProperties, ConcatProperties
<1> HIDE DEF w
<1>2. \A i \in 1 .. Len(w) : w[i] \in Talk
  BY ElementOfSeq DEF w
<1>3. \A i \in 1 .. Len(x) : x[i] \in Talk
  <2>1. TAKE i \in 1 .. Len(x)
  <2>2. i \in 1 .. Len(x) + Len(y) /\ i <= Len(x)
    BY <1>1
  <2> QED
    BY <1>1, <1>2, <2>2
<1>4. \A i \in 1 .. Len(y) : y[i] \in Talk
  <2>1. TAKE i \in 1 .. Len(y)
  <2>2. /\ Len(x) + i \in 1 .. Len(x) + Len(y) /\ ~(Len(x) + i <= Len(x))
        /\ Len(x) + i - Len(x) = i
    BY <1>1
  <2>3. w[Len(x) + i] = y[Len(x) + i - Len(x)]
    BY <1>1, <2>2
  <2> QED
    BY <1>1, <1>2, <2>2, <2>3
<1> QED
  BY <1>3, <1>4, IsASeq, SeqDef, LenProperties

LEMMA TalkIsPieces ==
  /\ Seq(Talk) \subseteq Seq(Pieces) /\ Talk \subseteq Pieces
  /\ Seq(AnswerPieces) \subseteq Seq(Talk)
<1>1. Talk \subseteq Pieces
  BY DEF Talk
<1>2. AnswerPieces \subseteq Talk
  BY NodePiecesTyped, PieceAssumption DEF Talk
<1> QED
  BY <1>1, <1>2

-----------------------------------------------------------------------------
(* What a socket has been given.                                           *)

LEMMA ToldIs ==
  ASSUME NEW g, NEW o, Spoken(g, o)
  PROVE  /\ Told(g, o) = IF o \in Seq(Talk) THEN g \o o ELSE Rest(o, 1)
         /\ Told(g, o) \in Seq(Talk)
         /\ Told(g, o) \in Seq(Pieces)
<1>1. g \in Seq(Talk) /\ o \in Seq(Pieces) /\ g \in Seq(Pieces)
  BY TalkIsPieces DEF Spoken
<1>2. CASE o \in Seq(Talk)
  <2>1. g \o o \in Seq(Talk)
    BY <1>1, <1>2, Concats
  <2>2. g \o o # <<>> => (g \o o)[1] \in Talk
    <3> DEFINE w == g \o o
    <3>1. w \in Seq(Talk)
      BY <2>1
    <3> HIDE DEF w
    <3>2. w # <<>> => w[1] \in Talk
      BY <3>1, EmptySeq, LenProperties, ElementOfSeq
    <3> QED
      BY <3>2 DEF w
  <2> QED
    BY <1>2, <2>1, <2>2, TalkIsPieces DEF Told, Talk
<1>3. CASE o \notin Seq(Talk)
  <2>1. g = <<>> /\ o # <<>> /\ o[1] \in Replies /\ Rest(o, 1) \in Seq(Talk)
    BY <1>3 DEF Spoken
  <2>2. g \o o = o
    BY <1>1, <2>1, Concats
  <2> QED
    BY <1>3, <2>1, <2>2, TalkIsPieces DEF Told
<1> QED
  BY <1>2, <1>3

\* More is written behind what was.
LEMMA ToldMore ==
  ASSUME NEW g, NEW o, Spoken(g, o), NEW c \in Seq(Talk)
  PROVE  Spoken(g, o \o c) /\ Told(g, o \o c) = Told(g, o) \o c
<1>1. g \in Seq(Talk) /\ o \in Seq(Pieces) /\ c \in Seq(Pieces) /\ o \o c \in Seq(Pieces)
  BY TalkIsPieces, Concats DEF Spoken
<1>2. CASE o \in Seq(Talk)
  <2>1. o \o c \in Seq(Talk)
    BY <1>2, Concats
  <2>2. Spoken(g, o \o c)
    BY <1>1, <2>1 DEF Spoken
  <2>3. (g \o o) \o c = g \o (o \o c)
    BY <1>1, <1>2, Associates
  <2> QED
    BY <1>2, <2>1, <2>2, <2>3, ToldIs
<1>3. CASE o \notin Seq(Talk)
  <2>1. g = <<>> /\ o # <<>> /\ o[1] \in Replies /\ Rest(o, 1) \in Seq(Talk)
    BY <1>3 DEF Spoken
  <2>2. Len(o) \in Nat /\ Len(o) # 0 /\ 1 \in 0 .. Len(o) /\ Len(c) \in Nat
    BY <1>1, <2>1, EmptySeq, LenProperties
  <2>3. Rest(o \o c, 1) = Rest(o, 1) \o c
    BY <1>1, <2>2, RestOfConcat
  <2>4. Rest(o, 1) \o c \in Seq(Talk)
    BY <2>1, Concats
  <2>5. (o \o c)[1] = o[1] /\ Len(o \o c) # 0
    BY <1>1, <2>2, ConcatProperties
  <2>6. o \o c # <<>>
    BY <1>1, <2>5, EmptySeq
  <2>7. Spoken(g, o \o c)
    BY <1>1, <2>1, <2>3, <2>4, <2>5, <2>6 DEF Spoken
  <2>8. o \o c \notin Seq(Talk)
    BY <1>1, <1>3, TalkParts
  <2> QED
    BY <1>3, <2>3, <2>7, <2>8, ToldIs
<1> QED
  BY <1>2, <1>3

\* The peer reads a piece of what the other said.
LEMMA ToldRead ==
  ASSUME NEW g, NEW o, Spoken(g, o), o # <<>>, o[1] \notin Replies
  PROVE  /\ Spoken(Append(g, Head(o)), Tail(o))
         /\ Told(Append(g, Head(o)), Tail(o)) = Told(g, o)
<1>1. g \in Seq(Talk) /\ o \in Seq(Talk)
  BY DEF Spoken
<1>2. Head(o) \in Talk /\ Tail(o) \in Seq(Talk) /\ <<Head(o)>> \in Seq(Talk)
  BY <1>1, HeadTailProperties
<1>3. Append(g, Head(o)) \in Seq(Talk) /\ Append(g, Head(o)) = g \o <<Head(o)>>
  BY <1>1, <1>2, AppendProperties, AppendIsConcat
<1>4. Spoken(Append(g, Head(o)), Tail(o))
  BY <1>2, <1>3, TalkIsPieces DEF Spoken
<1>5. o = <<Head(o)>> \o Tail(o)
  BY <1>1, HeadAndTail
<1>6. (g \o <<Head(o)>>) \o Tail(o) = g \o (<<Head(o)>> \o Tail(o))
  BY <1>1, <1>2, Associates
<1>7. Told(g, o) = g \o o
  BY <1>1, ToldIs
<1> DEFINE a == Append(g, Head(o))
           b == Tail(o)
<1>8. Told(a, b) = a \o b
  <2>1. Spoken(a, b) /\ b \in Seq(Talk)
    BY <1>2, <1>4
  <2> HIDE DEF a, b
  <2> QED
    BY <2>1, ToldIs
<1>9. a \o b = g \o o
  BY <1>3, <1>5, <1>6
<1> QED
  BY <1>4, <1>7, <1>8, <1>9

\* The client reads a reply and forgets it.
LEMMA ToldForgets ==
  ASSUME NEW g, NEW o, Spoken(g, o), o # <<>>, o[1] \in Replies
  PROVE  Spoken(g, Tail(o)) /\ Told(g, Tail(o)) = Told(g, o) /\ Tail(o) \in Seq(Talk)
<1>1. o \in Seq(Pieces) /\ g \in Seq(Talk)
  BY DEF Spoken
<1>2. o \notin Seq(Talk)
  <2>1. Len(o) \in Nat /\ Len(o) # 0
    BY <1>1, EmptySeq, LenProperties
  <2>2. o \in Seq(Talk) => o[1] \in Talk
    BY <2>1, ElementOfSeq
  <2> QED
    BY <2>2 DEF Talk
<1>3. g = <<>> /\ Rest(o, 1) \in Seq(Talk) /\ Rest(o, 1) = Tail(o)
  BY <1>1, <1>2, HeadAndTail DEF Spoken
<1>4. Spoken(g, Tail(o)) /\ Told(g, Tail(o)) = g \o Tail(o)
  BY <1>1, <1>3, ToldIs, TalkIsPieces DEF Spoken
<1> QED
  BY <1>2, <1>3, <1>4, ToldIs, Concats

LEMMA ToldNothing ==
  /\ Spoken(<<>>, <<>>) /\ Told(<<>>, <<>>) = <<>>
  /\ \A r \in Replies : Spoken(<<>>, <<r>>) /\ Told(<<>>, <<r>>) = <<>>
<1>1. <<>> \in Seq(Talk) /\ <<>> \o <<>> = <<>>
  BY Concats
<1>2. Spoken(<<>>, <<>>) /\ Told(<<>>, <<>>) = <<>>
  BY <1>1, ToldIs, TalkIsPieces DEF Spoken
<1>3. ASSUME NEW r \in Replies PROVE Spoken(<<>>, <<r>>) /\ Told(<<>>, <<r>>) = <<>>
  <2> DEFINE o == <<r>>
  <2>1. r \in Pieces
    BY NodePiecesTyped
  <2>2. o \in Seq(Pieces) /\ o # <<>> /\ o[1] = r /\ Head(o) = r /\ Tail(o) = <<>>
    BY <2>1
  <2> HIDE DEF o
  <2>3. Rest(o, 1) = <<>>
    BY <2>2, HeadAndTail
  <2>4. Spoken(<<>>, o)
    BY <1>1, <2>2, <2>3 DEF Spoken
  <2>5. Told(<<>>, o) = Told(<<>>, Tail(o))
    BY <2>2, <2>4, ToldForgets
  <2> QED
    BY <1>2, <2>2, <2>4, <2>5 DEF o
<1> QED
  BY <1>2, <1>3

-----------------------------------------------------------------------------
(* How the thread gets to these points, and what the peers say.            *)

LEMMA Moves ==
  ASSUME PointTypes, PipeTypes, Owned, InputOK, ChunkOK, SessionNext
  PROVE  /\ at' \in Unwritten => at \in Unwritten
         /\ at' \in Quiet => at \in Quiet \/ RecvField
         /\ at' \in FieldPoints => at \in FieldPoints \/ Reply \/ ReplyFails
         /\ at' \in DownPoints => at \in DownPoints \/ (Connecting /\ at' = "linked")
         /\ at' \in UpPoints => at \in UpPoints \/ RecvField \/ Request
         /\ at' = "request" => at = "request" \/ ReadHead
         /\ at' \in {"connected"} \cup RelayPoints =>
               at \in {"connected"} \cup RelayPoints \/ Reply \/ SendEarly
<1> USE DEF Unwritten, Quiet, DownPoints, UpPoints, Before, RelayPoints, LinkPoints, Checked,
            FieldPoints, Fields, SocksPoints, HttpPoints, Replies, AfterReply, Goto
<1>1. CASE Accept \/ Peek
  BY <1>1 DEF Accept, Peek, Register, FirstPoint
<1>2. CASE Unregister \/ CloseClient \/ RecvFails \/ NotConnected
  BY <1>2 DEF Unregister, CloseClient, RecvFails, NotConnected
<1>3. CASE Reply \/ ReplyFails
  BY <1>3 DEF Reply, ReplyFails
<1>4. CASE Greet
  BY <1>4 DEF Greet, MethodReply
<1>5. CASE RecvField
  BY <1>5, RecvFieldMoves DEF RecvField
<1>6. CASE ReadHead \/ Request
  BY <1>6 DEF ReadHead, Request
<1>7. CASE SendEarly
  BY <1>7 DEF SendEarly
<1>8. CASE Connecting
  BY <1>8, PointsOfLink
<1>9. CASE Connects
  BY <1>9 DEF Connects, Opened
<1>10. CASE Start \/ Finish \/ CloseTarget
  BY <1>10 DEF Start, Finish, CloseTarget
<1>11. CASE Relays \/ RelayFails
  BY <1>11, PointsOfRelay DEF InRelay
<1>12. CASE \/ Reload \/ NodeAnswers \/ ClientStep
            \/ \E s \in Sides : PeerStep(s) \/ Reads(s)
  BY <1>12, OthersFrame
<1> QED
  BY <1>1, <1>2, <1>3, <1>4, <1>5, <1>6, <1>7, <1>8, <1>9, <1>10, <1>11, <1>12
     DEF SessionNext, ThreadStep

LEMMA TalkFacts ==
  /\ <<>> \in Seq(Talk) /\ "part" \in Talk
  /\ \A s \in Sides : \A i \in DOMAIN Body[s] : Body[s][i] \in Talk
  /\ \A p \in DOMAIN Fields : Fields[p] \subseteq Talk
<1>1. "part" \in Talk
  BY DEF Talk, Pieces, Replies, AfterReply
<1>2. \A s \in Sides : \A i \in DOMAIN Body[s] : Body[s][i] \in Talk
  <2> SUFFICES ASSUME NEW s \in Sides, NEW i \in DOMAIN Body[s] PROVE Body[s][i] \in Talk
    OBVIOUS
  <2>1. Body[s][i] \in ToSet(Body[s])
    BY DEF ToSet
  <2>2. Body[s][i] \in Pieces /\ Body[s][i] \notin Replies
    BY <2>1, NodePiecesTyped, PieceAssumption
  <2> QED
    BY <2>2 DEF Talk
<1>3. Hellos \cup Heads \subseteq Talk
  BY DEF Talk, Pieces, Hellos, Heads, Replies, AfterReply
<1>4. Opening \subseteq Talk
  BY <1>3, OpeningFacts
<1>5. {"user", "junk", "password_right", "password_wrong", "connect",
       "other_command", "addr", "port"} \subseteq Talk
  BY DEF Talk, Pieces, Replies, AfterReply
<1>6. \A p \in DOMAIN Fields : Fields[p] = Opening \/ Fields[p] \subseteq
        {"user", "junk", "password_right", "password_wrong", "connect",
         "other_command", "addr", "port"}
  BY DEF Fields
<1> QED
  BY <1>1, <1>2, <1>4, <1>5, <1>6, EmptySeq

\* Who has said more.
LEMMA SaidStep ==
  ASSUME PointTypes, PipeTypes, Owned, InputOK, ChunkOK, SessionNext
  PROVE  \/ sent' = sent
         \/ Connecting \/ NotConnected \/ ClientStep
         \/ \E s \in Sides : PeerStep(s) /\ SendsBody(s)
<1> USE DEF ends, pipes
<1>1. CASE ThreadStep
  <2>1. CASE \/ Accept \/ Peek \/ Unregister \/ CloseClient \/ RecvFails \/ Reply \/ ReplyFails
             \/ Greet \/ RecvField \/ ReadHead \/ Request \/ SendEarly
             \/ Connects \/ Start \/ Finish \/ CloseTarget
    BY <2>1 DEF Accept, Peek, Unregister, CloseClient, RecvFails, Reply, ReplyFails, Greet,
         RecvField, ReadHead, Request, SendEarly, Connects, Start, Finish, CloseTarget
  <2>2. CASE Relays
    BY <2>2, RelayReceives
  <2> QED
    BY <1>1, <2>1, <2>2 DEF ThreadStep
<1>2. CASE RelayFails
  BY <1>2, RelayReceives
<1>3. CASE Reload \/ NodeAnswers
  BY <1>3 DEF Reload, NodeAnswers, NodeSends, relayVars
<1>4. ASSUME NEW s \in Sides, PeerStep(s) \/ Reads(s)
      PROVE  sent' = sent \/ (PeerStep(s) /\ SendsBody(s))
  BY <1>4 DEF PeerStep, Reads, PeerReads, PeerShuts, PeerResets
<1> QED
  BY <1>1, <1>2, <1>3, <1>4 DEF SessionNext

LEMMA SaidTyped ==
  ASSUME PointTypes, PipeTypes, Owned, InputOK, ChunkOK, WrittenOK, SessionNext
  PROVE  \A s \in Sides : sent'[s] \in Seq(Talk)
<1> USE DEF Sides
<1>1. /\ sent["client"] \in Seq(Talk) /\ sent["target"] \in Seq(Talk) /\ <<>> \in Seq(Talk)
      /\ sent \in [Sides -> Seq(Pieces)]
  BY TalkFacts DEF WrittenOK, PipeTypes
<1>2. CASE Connecting
  <2>1. sent' = sent \/ sent' = [sent EXCEPT !["target"] = <<>>]
    BY <1>2, UpstreamAssumption DEF Connecting, UpstreamStep, Dial, DialFails, Retry, Say, SayFails,
       ReadAnswer, ReadLength, ReadRest, NodeSilent, ReadByte, HeadDone, ends, pipes
  <2> QED
    BY <1>1, <2>1
<1>3. CASE NotConnected
  BY <1>1, <1>3 DEF NotConnected
<1>4. CASE ClientStep
  <2> DEFINE before == chunk \o inbox["client"]
  <2>1. PICK piece \in Fields[at] \cup {"part"} :
           sent' = [sent EXCEPT !["client"] = IF piece \in Plain THEN Append(before, piece) ELSE @]
    BY <1>4 DEF ClientStep, SendsField
  <2>2. at \in DOMAIN Fields /\ before \in {<<>>, <<"part">>}
    BY <1>4 DEF ClientStep, SendsField
  <2>3. piece \in Talk /\ before \in Seq(Talk)
    <3>1. "part" \in Talk /\ Fields[at] \subseteq Talk
      BY <2>2, TalkFacts
    <3>2. <<"part">> \in Seq(Talk)
      BY <3>1
    <3> HIDE DEF before
    <3> QED
      BY <1>1, <2>1, <2>2, <3>1, <3>2
  <2> HIDE DEF before
  <2>4. Append(before, piece) \in Seq(Talk)
    BY <2>3, AppendProperties
  <2> QED
    BY <1>1, <2>1, <2>4
<1>5. ASSUME NEW s \in Sides, SendsBody(s) PROVE \A r \in Sides : sent'[r] \in Seq(Talk)
  <2>1. PICK b \in Talk : PeerSends(s, b)
    BY <1>5, TalkFacts DEF SendsBody
  <2>2. Append(sent[s], b) \in Seq(Talk)
    BY <1>1, <1>5, <2>1, AppendProperties
  <2> QED
    BY <1>1, <2>1, <2>2 DEF PeerSends
<1> QED
  BY <1>1, <1>2, <1>3, <1>4, <1>5, SaidStep DEF WrittenOK

-----------------------------------------------------------------------------
(* What is written and read.                                               *)

\* A handler has nothing to read when it answers.
LEMMA AnswersWhenRead ==
  ASSUME InputOK, ChunkOK, Reply
  PROVE  at' \in FieldPoints => Unread' = <<>>
<1>1. at' \in FieldPoints => at \in {"say_no_auth", "say_password", "say_welcome"}
  BY DEF Reply, Goto, AfterReply, Replies, FieldPoints
<1>2. UNCHANGED <<chunk, inbox>>
  BY DEF Reply, buffer
<1>3. at \in {"say_no_auth", "say_password", "say_welcome"} => chunk = <<>> /\ inbox["client"] = <<>>
  <2>1. at \in {"say_no_auth", "say_password", "say_welcome"} => chunk = <<>>
    BY DEF ChunkOK
  <2>2. at = "say_password" => inbox["client"] = <<>>
    BY DEF InputOK
  <2> QED
    BY <2>1, <2>2 DEF InputOK
<1>4. <<>> \o <<>> = <<>>
  BY Concats
<1> QED
  BY <1>1, <1>2, <1>3, <1>4 DEF Unread

\* At a field, nothing is read without what came before it.
LEMMA UnreadStays ==
  ASSUME PipeTypes, InputOK, ChunkOK, SessionNext, at \in FieldPoints, at' \in FieldPoints,
         Unread = <<>>, outbox["client"] # <<>>
  PROVE  Unread' = <<>> /\ ~RecvField
<1>1. chunk = <<>> /\ inbox["client"] = <<>>
  <2>1. chunk = <<>> /\ inbox["client"] \in Seq(Pieces)
    BY DEF ChunkOK, PipeTypes, Sides
  <2>2. <<>> \o inbox["client"] = inbox["client"]
    BY <2>1, Concats
  <2> QED
    BY <2>1, <2>2 DEF Unread
<1>2. ~RecvField /\ ~Reply
  BY <1>1 DEF RecvField, Reply, FieldPoints, Replies, AfterReply
<1>3. <<>> \o <<>> = <<>>
  BY Concats
<1>4. ~ThreadStep
  <2>1. at \notin LinkPoints \cup RelayPoints /\ at \notin Replies
    BY DEF FieldPoints, LinkPoints, SocksPoints, HttpPoints, RelayPoints, Replies, AfterReply
  <2>2. ~Connecting /\ ~Relays
    BY <2>1, PointsOfLink, PointsOfRelay
  <2> QED
    BY <1>2, <2>1, <2>2 DEF ThreadStep, Accept, Peek, Unregister, CloseClient, RecvFails, ReplyFails,
       Greet, ReadHead, Request, SendEarly, Connects, NotConnected, Start, Finish, CloseTarget,
       FieldPoints, Goto
<1>5. ~RelayFails /\ ~ClientStep
  BY DEF RelayFails, PollFails, FieldPoints, ClientStep, SendsField
<1>6. CASE Reload \/ NodeAnswers
  BY <1>1, <1>2, <1>3, <1>6 DEF Reload, NodeAnswers, NodeSends, relayVars, pipes, buffer, PipeTypes, Sides,
     Unread
<1>7. ASSUME NEW s \in Sides, PeerStep(s) \/ Reads(s) PROVE Unread' = <<>>
  <2>1. chunk' = chunk
    BY <1>7 DEF PeerStep, Reads, buffer
  <2>2. inbox'["client"] = <<>>
    <3>1. ~(s = "client" /\ SendsBody(s))
      BY <1>1 DEF SendsBody, Requested, Has, FieldPoints, Checked, RelayPoints, LinkPoints,
         SocksPoints, HttpPoints
    <3> QED
      BY <1>1, <1>7, <3>1 DEF PeerStep, Reads, SendsBody, PeerSends, PeerReads, PeerShuts, PeerResets,
         pipes, PipeTypes, Sides
  <2> QED
    BY <1>1, <1>3, <2>1, <2>2 DEF Unread
<1> QED
  BY <1>2, <1>4, <1>5, <1>6, <1>7 DEF SessionNext

\* What was written stays, unless the peer reads it or more is written.
LEMMA WrittenKept ==
  ASSUME SessionInv, WrittenOK, SessionNext, UNCHANGED <<got, outbox>>, ~Reply
  PROVE  WrittenOK'
<1>1. PointTypes /\ PipeTypes /\ Owned /\ InputOK /\ ChunkOK
  BY DEF SessionInv, Types
<1>2. \A s \in Sides : sent'[s] \in Seq(Talk) /\ Spoken(got[s], outbox[s])'
  BY <1>1, SaidTyped DEF WrittenOK, Spoken
<1>3. at' \in Quiet => got["client"] = <<>> /\ outbox["client"] = <<>>
  <2>1. RecvField => at \in FieldPoints /\ Unread # <<>>
    BY <1>1, PlaceIsRead DEF RecvField, ChunkOK
  <2> QED
    BY <1>1, <2>1, Moves DEF WrittenOK
<1>4. ASSUME at' \in FieldPoints
      PROVE  /\ got["client"] = <<>>
             /\ \/ outbox["client"] = <<>>
                \/ Unread' = <<>> /\ \E r \in Replies : outbox["client"] = <<r>>
  <2>1. at \in FieldPoints \/ at \in Quiet
    BY <1>1, <1>4, Moves DEF ReplyFails, Quiet
  <2>2. CASE at \in Quiet
    BY <2>2 DEF WrittenOK
  <2>3. CASE at \in FieldPoints
    BY <1>1, <1>4, <2>3, UnreadStays DEF WrittenOK
  <2> QED
    BY <2>1, <2>2, <2>3
<1>5. at' \in Unwritten => got["target"] = <<>> /\ outbox["target"] = <<>>
  BY <1>1, Moves DEF WrittenOK
<1>6. outbox'["target"] \in Seq(Talk) /\ Unwritten' = Unwritten
  BY DEF WrittenOK, Unwritten, Before, Fields
<1> QED
  BY <1>2, <1>3, <1>4, <1>5, <1>6 DEF WrittenOK

LEMMA DeliveredIsTold ==
  \A s \in Sides : /\ Delivered(s) = Told(got[s], outbox[s])
                   /\ Delivered(s)' = Told(got'[s], outbox'[s])
BY DEF Delivered, Told, Written

LEMMA StreamTyped ==
  ASSUME NodeTypes, WrittenOK, NEW s \in Sides
  PROVE  /\ Stream(s) \in Seq(Talk) /\ Stream(s) \in Seq(Pieces)
         /\ Delivered(s) \in Seq(Talk) /\ Delivered(s) \in Seq(Pieces)
<1>1. /\ left \in Seq(Talk) /\ sent["target"] \in Seq(Talk) /\ sent["client"] \in Seq(Talk)
      /\ Spoken(got[s], outbox[s])
  BY TalkIsPieces DEF NodeTypes, WrittenOK, Sides
<1>2. Stream(s) \in Seq(Talk)
  <2>1. left \o sent["target"] \in Seq(Talk)
    BY <1>1, Concats
  <2> QED
    BY <1>1, <2>1 DEF Stream
<1> QED
  BY <1>1, <1>2, ToldIs, DeliveredIsTold, TalkIsPieces

LEMMA HeldTyped ==
  ASSUME PipeTypes, ChunkOK, NEW s \in Sides
  PROVE  Held(s) \in Seq(Pieces) /\ inbox[Other(s)] \in Seq(Pieces)
<1>1. chunk \in Seq(Pieces) /\ <<>> \in Seq(Pieces) /\ Len(chunk) \in Nat
  BY LenProperties, EmptySeq DEF PipeTypes
<1>2. ASSUME EarlyKept PROVE EarlyData \in Seq(Pieces)
  <2>1. Asks(chunk, IF at = "request" THEN Heads ELSE Tunnels \cup Plain)
    BY <1>2 DEF EarlyKept, ChunkOK
  <2>2. HeadAt \in DOMAIN chunk
    BY <1>1, <2>1, HeadIsFound DEF Tunnels, Plain, Heads
  <2>3. HeadAt \in Nat
    BY <1>1, <2>2, LenProperties
  <2> HIDE DEF HeadAt
  <2>4. Rest(chunk, HeadAt) \in Seq(Pieces)
    BY <1>1, <2>3, RestProperties
  <2> QED
    BY <1>1, <2>4 DEF EarlyData
<1>3. Other(s) \in Sides
  BY DEF Other, Sides
<1> QED
  BY <1>1, <1>2, <1>3 DEF Held, PipeTypes

\* What flows was said by a peer.
LEMMA FlowsTalk ==
  ASSUME SessionInv, WrittenOK, NEW s \in Sides, Flows(s)
  PROVE  /\ Held(s) \in Seq(Talk) /\ inbox[Other(s)] \in Seq(Talk)
         /\ \E lost \in Seq(Talk) :
               /\ Stream(s) = Delivered(s) \o (Held(s) \o (inbox[Other(s)] \o lost))
               /\ peer[Other(s)] # "reset" => lost = <<>>
<1> DEFINE d == Delivered(s)
           h == Held(s)
           i == inbox[Other(s)]
           w == Stream(s)
<1>1. d \in Seq(Pieces) /\ h \in Seq(Pieces) /\ i \in Seq(Pieces) /\ w \in Seq(Talk)
  BY StreamTyped, HeldTyped DEF SessionInv, Types
<1>2. PICK lost \in Seq(Pieces) :
         w = d \o (h \o (i \o lost)) /\ (peer[Other(s)] # "reset" => lost = <<>>)
  BY DEF Flows
<1> HIDE DEF d, h, i, w
<1>3. i \o lost \in Seq(Pieces) /\ h \o (i \o lost) \in Seq(Pieces)
  <2>1. i \o lost \in Seq(Pieces)
    BY <1>1, Concats
  <2> QED
    BY <1>1, <2>1, Concats
<1>4. h \o (i \o lost) \in Seq(Talk)
  BY <1>1, <1>2, <1>3, TalkParts
<1>5. h \in Seq(Talk) /\ i \o lost \in Seq(Talk)
  BY <1>1, <1>3, <1>4, TalkParts
<1>6. i \in Seq(Talk) /\ lost \in Seq(Talk)
  BY <1>1, <1>5, TalkParts
<1> QED
  BY <1>2, <1>3, <1>5, <1>6 DEF d, h, i, w

LEMMA ReplyEffect ==
  ASSUME SessionInv, WrittenOK, Reply
  PROVE  WrittenOK' /\ \A s \in Sides : Delivered(s)' = Delivered(s)
<1> USE DEF Sides
<1>1. PointTypes /\ PipeTypes /\ Owned /\ InputOK /\ ChunkOK /\ SessionNext
  BY DEF SessionInv, Types, SessionNext, ThreadStep
<1>2. /\ at \in Replies /\ at' = AfterReply[at] /\ at \in Quiet
      /\ UNCHANGED <<sent, got, peer, inbox, chunk>>
      /\ outbox' = [outbox EXCEPT !["client"] = Append(@, at)]
  BY DEF Reply, Goto, ends, buffer, Quiet
<1>3. got["client"] = <<>> /\ outbox["client"] = <<>>
  BY <1>2 DEF WrittenOK
<1>4. Append(<<>>, at) = <<at>>
  OBVIOUS
<1>5. outbox'["client"] = <<at>> /\ outbox'["target"] = outbox["target"]
  BY <1>1, <1>2, <1>3, <1>4 DEF PipeTypes
<1>6. Spoken(got'["client"], outbox'["client"]) /\ Delivered("client")' = <<>>
      /\ Delivered("client") = <<>>
  BY <1>2, <1>3, <1>5, ToldNothing, DeliveredIsTold
<1>7. Spoken(got'["target"], outbox'["target"]) /\ Delivered("target")' = Delivered("target")
  BY <1>2, <1>5, DeliveredIsTold DEF WrittenOK
<1>8. at' \notin Quiet
  BY <1>2 DEF Quiet, AfterReply, Replies, LinkPoints, SocksPoints, HttpPoints
<1>9. at' \in FieldPoints => Unread' = <<>>
  BY <1>1, AnswersWhenRead
<1>10. at' \in Unwritten => got["target"] = <<>> /\ outbox["target"] = <<>>
  BY <1>1, Moves DEF WrittenOK
<1>11. Unwritten' = Unwritten
  BY DEF Unwritten, Before, Fields
<1> QED
  BY <1>2, <1>3, <1>5, <1>6, <1>7, <1>8, <1>9, <1>10, <1>11 DEF WrittenOK

LEMMA ReadsEffect ==
  ASSUME SessionInv, WrittenOK, NEW r \in Sides, Reads(r)
  PROVE  WrittenOK' /\ \A s \in Sides : Delivered(s)' = Delivered(s)
<1>1. /\ PipeTypes /\ Spoken(got[r], outbox[r]) /\ outbox[r] \in Seq(Pieces)
      /\ UNCHANGED <<at, chunk, sent, inbox>> /\ outbox[r] # <<>>
  BY DEF SessionInv, Types, Reads, PeerReads, ends, buffer, WrittenOK, PipeTypes
<1>2. Head(outbox[r]) = outbox[r][1]
  BY <1>1
<1>3. outbox' = [outbox EXCEPT ![r] = Tail(@)]
  BY DEF Reads, PeerReads
<1>4. ASSUME outbox[r][1] \in Replies
      PROVE  /\ got' = got /\ Spoken(got[r], Tail(outbox[r])) /\ Tail(outbox[r]) \in Seq(Talk)
             /\ Told(got[r], Tail(outbox[r])) = Told(got[r], outbox[r])
  BY <1>1, <1>2, <1>4, ToldForgets DEF Reads, ends
<1>5. ASSUME outbox[r][1] \notin Replies
      PROVE  /\ got' = [got EXCEPT ![r] = Append(@, Head(outbox[r]))]
             /\ Spoken(Append(got[r], Head(outbox[r])), Tail(outbox[r]))
             /\ Tail(outbox[r]) \in Seq(Talk)
             /\ Told(Append(got[r], Head(outbox[r])), Tail(outbox[r])) = Told(got[r], outbox[r])
  <2>1. got' = [got EXCEPT ![r] = Append(@, Head(outbox[r]))]
    BY <1>2, <1>5 DEF Reads, PeerReads
  <2>2. outbox[r] \in Seq(Talk)
    BY <1>1, <1>5 DEF Spoken
  <2>3. Tail(outbox[r]) \in Seq(Talk)
    BY <1>1, <2>2, HeadTailProperties
  <2> QED
    BY <1>1, <1>5, <2>1, <2>3, ToldRead
<1>6. /\ Spoken(got'[r], outbox'[r]) /\ Told(got'[r], outbox'[r]) = Told(got[r], outbox[r])
      /\ outbox'[r] \in Seq(Talk) /\ outbox'[r] = Tail(outbox[r])
      /\ \A s \in Sides \ {r} : got'[s] = got[s] /\ outbox'[s] = outbox[s]
      /\ outbox[r][1] \in Replies => got'[r] = got[r]
  <2>1. CASE outbox[r][1] \in Replies
    BY <1>1, <1>3, <1>4, <2>1 DEF PipeTypes
  <2>2. CASE outbox[r][1] \notin Replies
    BY <1>1, <1>3, <1>5, <2>2 DEF PipeTypes
  <2> QED
    BY <2>1, <2>2
<1>7. \A s \in Sides : /\ Spoken(got'[s], outbox'[s]) /\ Delivered(s)' = Delivered(s)
                       /\ sent'[s] \in Seq(Talk)
  BY <1>1, <1>6, DeliveredIsTold DEF WrittenOK
<1>8. at \in Quiet => got'["client"] = <<>> /\ outbox'["client"] = <<>>
  BY <1>1, <1>6 DEF WrittenOK, Sides
<1>9. Unread' = Unread
  BY <1>1 DEF Unread
<1>10. at \in FieldPoints => /\ got'["client"] = <<>>
                             /\ outbox'["client"] = <<>> \/ outbox'["client"] = outbox["client"]
  <2>1. \A x : Tail(<<x>>) = <<>> /\ <<x>>[1] = x
    OBVIOUS
  <2>2. CASE r = "client"
    <3> HIDE DEF FieldPoints
    <3>1. ASSUME at \in FieldPoints
          PROVE  got["client"] = <<>> /\ \E a \in Replies : outbox["client"] = <<a>>
      BY <1>1, <2>2, <3>1 DEF WrittenOK
    <3>2. ASSUME at \in FieldPoints
          PROVE  got'["client"] = <<>> /\ outbox'["client"] = <<>>
      BY <1>6, <2>1, <2>2, <3>1, <3>2
    <3> QED
      BY <3>2
  <2>3. CASE r # "client"
    BY <1>6, <2>3 DEF WrittenOK, Sides
  <2> QED
    BY <2>2, <2>3
<1>11. at \in Unwritten => got'["target"] = <<>> /\ outbox'["target"] = <<>>
  BY <1>1, <1>6 DEF WrittenOK, Sides
<1>12. Unwritten' = Unwritten
  BY DEF Unwritten, Before, Fields, Opening
<1>13. outbox'["target"] \in Seq(Talk)
  BY <1>6 DEF WrittenOK, Sides
<1> QED
  BY <1>1, <1>7, <1>8, <1>9, <1>10, <1>11, <1>12, <1>13 DEF WrittenOK

LEMMA EarlyEffect ==
  ASSUME SessionInv, WrittenOK, StreamsOK, SendEarly
  PROVE  /\ WrittenOK' /\ Delivered("client")' = Delivered("client")
         /\ Delivered("target") = <<>> /\ Held("target") = EarlyData
         /\ EarlyData \in Seq(Talk)
         /\ Delivered("target")' = IF peer["target"] = "reset" THEN <<>> ELSE EarlyData
<1> USE DEF Sides
<1>1. PipeTypes /\ ChunkOK /\ Owned /\ NodeTypes
  BY DEF SessionInv, Types
<1>2. /\ at = "early" /\ at' = "connected" /\ chunk' = <<>>
      /\ UNCHANGED <<sent, got, peer, inbox>>
      /\ outbox' = IF peer["target"] = "reset" THEN outbox
                   ELSE [outbox EXCEPT !["target"] = @ \o EarlyData]
  BY DEF SendEarly, Goto, ends
<1>3. got["target"] = <<>> /\ outbox["target"] = <<>>
  BY <1>2 DEF WrittenOK, Unwritten
<1>4. Flows("target")
  BY <1>2 DEF StreamsOK, UpPoints
<1>5. Held("target") = EarlyData
  <2>1. listed = "HTTP" /\ at # SendAt("target")
    BY <1>1, <1>2 DEF Owned, HttpOnly, SendAt
  <2>2. chunk \in Seq(Pieces) /\ Asks(chunk, Tunnels \cup Plain)
    BY <1>1, <1>2, <2>1 DEF PipeTypes, ChunkOK, HeadKept
  <2>3. chunk[HeadAt] \in Tunnels \cup Plain
    BY <2>2, HeadIsFound DEF Tunnels, Plain, Heads
  <2> QED
    BY <1>2, <2>1, <2>3 DEF Held, EarlyKept, HeadKept
<1>6. EarlyData \in Seq(Talk)
  BY <1>4, <1>5, FlowsTalk
<1>7. <<>> \o EarlyData = EarlyData /\ <<>> \in Seq(Talk)
  BY <1>6, Concats
<1>8. Delivered("target") = <<>>
  BY <1>3, DeliveredIsTold, ToldNothing
<1>9. outbox'["client"] = outbox["client"]
      /\ outbox'["target"] = IF peer["target"] = "reset" THEN <<>> ELSE EarlyData
  BY <1>1, <1>2, <1>3, <1>7 DEF PipeTypes
<1>10. Delivered("client")' = Delivered("client") /\ Spoken(got'["client"], outbox'["client"])
  BY <1>2, <1>9, DeliveredIsTold DEF WrittenOK
<1>11. Spoken(<<>>, EarlyData) /\ Told(<<>>, EarlyData) = EarlyData
  <2> DEFINE e == EarlyData
             z == <<>>
  <2>1. e \in Seq(Talk) /\ Spoken(z, z) /\ Told(z, z) = z /\ z \o e = e
    BY <1>6, <1>7, ToldNothing
  <2> HIDE DEF e, z
  <2>2. Spoken(z, z \o e) /\ Told(z, z \o e) = Told(z, z) \o e
    BY <2>1, ToldMore
  <2> QED
    BY <2>1, <2>2 DEF e, z
<1>12. /\ Delivered("target")' = IF peer["target"] = "reset" THEN <<>> ELSE EarlyData
       /\ Spoken(got'["target"], outbox'["target"])
  BY <1>2, <1>3, <1>9, <1>11, ToldNothing, DeliveredIsTold
<1>13. at' \notin Quiet \cup FieldPoints /\ at' \notin Unwritten'
  BY <1>2 DEF Quiet, FieldPoints, Unwritten, Before, Fields, Replies, AfterReply, LinkPoints,
     SocksPoints, HttpPoints
<1>14. outbox'["target"] \in Seq(Talk)
  BY <1>6, <1>7, <1>9
<1> QED
  BY <1>2, <1>5, <1>6, <1>8, <1>10, <1>12, <1>13, <1>14 DEF WrittenOK

\* One send takes the beginning of what the relay holds.
LEMMA SendEffect ==
  ASSUME SessionInv, WrittenOK, StreamsOK, NEW r \in Sides, Send(r)
  PROVE  /\ WrittenOK' /\ \A s \in Sides \ {r} : Delivered(s)' = Delivered(s)
         /\ peer[r] # "reset"
         /\ \E part \in Seq(Talk) :
               /\ part # <<>> /\ Delivered(r)' = Delivered(r) \o part
               /\ chunk = part \o chunk' /\ chunk' \in Seq(Talk)
<1>1. PipeTypes /\ ChunkOK /\ Owned /\ NodeTypes
  BY DEF SessionInv, Types
<1> DEFINE n == Least(Len(chunk), Window - Len(outbox[r]))
           part == First(chunk, n)
<1>2. /\ at = SendAt(r) /\ at' = at /\ chunk # <<>> /\ peer[r] # "reset"
      /\ Len(outbox[r]) < Window /\ outbox' = [outbox EXCEPT ![r] = @ \o part]
      /\ chunk' = Rest(chunk, n) /\ UNCHANGED <<sent, got, peer, inbox>>
  BY DEF Send, SendSome, CanSend, ends
<1>3. Flows(r) /\ Held(r) = chunk
  BY <1>2 DEF StreamsOK, DownPoints, RelayPoints, SendAt, Sides, Held
<1>4. chunk \in Seq(Talk) /\ Len(chunk) \in Nat /\ Len(chunk) > 0
  <2>1. chunk \in Seq(Talk)
    BY <1>3, FlowsTalk
  <2> QED
    BY <1>2, <2>1, EmptySeq, LenProperties
<1>5. n \in 1 .. Len(chunk)
  <2>1. Len(outbox[r]) \in Nat /\ Window \in Nat
    BY <1>1, LenIsNat, RelayAssumption
  <2> QED
    BY <1>2, <1>4, <2>1 DEF Least
<1> HIDE DEF n
<1>6. /\ n \in 0 .. Len(chunk) /\ n \in Int /\ n \in Nat /\ n <= Len(chunk) /\ n >= 1
  BY <1>4, <1>5
<1>7. /\ First(chunk, n) \in Seq(Talk) /\ Rest(chunk, n) \in Seq(Talk)
      /\ First(chunk, n) \o Rest(chunk, n) = chunk
      /\ Len(First(chunk, n)) = IF n >= 1 THEN n ELSE 0
  BY <1>4, <1>6, FirstProperties, RestProperties, FirstAndRest
<1>8. part # <<>>
  BY <1>6, <1>7, EmptySeq
<1> HIDE DEF part
<1>9. part \in Seq(Talk) /\ chunk = part \o chunk' /\ chunk' \in Seq(Talk)
  BY <1>2, <1>7 DEF part
<1>10. outbox'[r] = outbox[r] \o part /\ \A s \in Sides \ {r} : outbox'[s] = outbox[s]
  BY <1>1, <1>2 DEF PipeTypes
<1>11. Spoken(got[r], outbox[r] \o part) /\ Told(got[r], outbox[r] \o part) = Told(got[r], outbox[r]) \o part
  <2> DEFINE g == got[r]
             o == outbox[r]
  <2>1. Spoken(g, o)
    BY DEF WrittenOK
  <2> HIDE DEF g, o
  <2>2. Spoken(g, o \o part) /\ Told(g, o \o part) = Told(g, o) \o part
    BY <1>9, <2>1, ToldMore
  <2> QED
    BY <2>2 DEF g, o
<1>12. /\ Delivered(r)' = Delivered(r) \o part
       /\ \A s \in Sides \ {r} : Delivered(s)' = Delivered(s)
       /\ \A s \in Sides : Spoken(got'[s], outbox'[s])
  BY <1>2, <1>10, <1>11, DeliveredIsTold DEF WrittenOK
<1>13. at' \notin Quiet \cup FieldPoints /\ at' \notin Unwritten'
  BY <1>2 DEF Quiet, FieldPoints, Unwritten, Before, Fields, Replies, AfterReply, LinkPoints,
     SocksPoints, HttpPoints, SendAt
<1>14. outbox'["target"] \in Seq(Talk)
  <2>1. CASE r = "target"
    <3>1. outbox["target"] \o part \in Seq(Talk)
      BY <1>9, Concats DEF WrittenOK
    <3> QED
      BY <1>10, <2>1, <3>1
  <2>2. CASE r # "target"
    BY <1>10, <2>2 DEF WrittenOK, Sides
  <2> QED
    BY <2>1, <2>2
<1> QED
  BY <1>2, <1>8, <1>9, <1>12, <1>13, <1>14 DEF WrittenOK

LEMMA WhoWrites ==
  ASSUME PipeTypes, InputOK, SessionNext
  PROVE  \/ UNCHANGED <<got, outbox>> /\ ~Reply
         \/ Reply \/ SendEarly
         \/ \E r \in Sides : Send(r) \/ Reads(r)
<1> USE DEF ends, pipes
<1>1. CASE ThreadStep
  <2>1. CASE \/ Accept \/ Peek \/ Unregister \/ CloseClient \/ RecvFails \/ ReplyFails
             \/ Greet \/ RecvField \/ ReadHead \/ Request
             \/ Connects \/ NotConnected \/ Start \/ Finish \/ CloseTarget
    BY <2>1 DEF Accept, Peek, Unregister, CloseClient, RecvFails, ReplyFails, Greet,
         RecvField, ReadHead, Request, Connects, NotConnected, Start, Finish, CloseTarget
  <2>2. CASE Connecting
    BY <2>2, LinkClientSide
  <2>3. CASE Relays
    BY <2>3 DEF Relays, RelayStep, PollReady, PollTimeout, Account, HangUp, Pass, Recv, RecvEnds,
         SendWaits, SendBreaks, SendDone
  <2> QED
    BY <1>1, <2>1, <2>2, <2>3 DEF ThreadStep
<1>2. CASE RelayFails \/ Reload \/ NodeAnswers \/ ClientStep
  BY <1>2 DEF RelayFails, PollFails, Reload, NodeAnswers, NodeSends, relayVars, ClientStep, SendsField
<1>3. ASSUME NEW s \in Sides, PeerStep(s) PROVE UNCHANGED <<got, outbox>>
  BY <1>3 DEF PeerStep, SendsBody, PeerSends, PeerShuts, PeerResets
<1> QED
  BY <1>1, <1>2, <1>3 DEF SessionNext

LEMMA WrittenStep ==
  ASSUME SessionInv, WrittenOK, StreamsOK, SessionNext
  PROVE  /\ WrittenOK'
         /\ \/ \A s \in Sides : Delivered(s)' = Delivered(s)
            \/ SendEarly
            \/ \E r \in Sides : Send(r)
<1>1. PipeTypes /\ InputOK
  BY DEF SessionInv, Types
<1>2. CASE UNCHANGED <<got, outbox>> /\ ~Reply
  BY <1>2, WrittenKept, DeliveredIsTold
<1> QED
  BY <1>1, <1>2, WhoWrites, ReplyEffect, ReadsEffect, EarlyEffect, SendEffect

-----------------------------------------------------------------------------
(* The streams, action by action.                                          *)

LEMMA FlowsKept ==
  ASSUME NEW s \in Sides, Flows(s), Stream(s)' = Stream(s), Delivered(s)' = Delivered(s),
         Held(s)' = Held(s), inbox'[Other(s)] = inbox[Other(s)],
         peer'[Other(s)] = peer[Other(s)]
  PROVE  Flows(s)'
BY DEF Flows

\* The header is kept from the end of the request until what it brought along
\* is sent.
LEMMA HeldUp ==
  ASSUME PointTypes, PipeTypes, Owned, ChunkOK, Owned', chunk' = chunk, listed' = listed,
         at \in UpPoints \/ (at = "request" /\ EarlyKept),
         at' \in UpPoints \/ (at' = "connected" /\ at = "say_connected")
  PROVE  Held("target")' = Held("target")
<1> USE DEF UpPoints, LinkPoints, SocksPoints, HttpPoints, Checked
<1>1. at # SendAt("target") /\ at' # SendAt("target") /\ at' # "request"
  BY DEF SendAt
<1>2. EarlyData' = EarlyData /\ (chunk[HeadAt])' = chunk[HeadAt]
  BY DEF EarlyData, HeadAt
<1>3. listed \in {"SOCKS5", "HTTP"}
  BY DEF PointTypes, Owned
<1>4. CASE listed = "SOCKS5"
  <2>1. ~HeadKept /\ ~HeadKept'
    BY <1>1, <1>4 DEF HeadKept, Owned, HttpOnly
  <2> QED
    BY <1>1, <2>1 DEF Held, EarlyKept
<1>5. CASE listed = "HTTP"
  <2>1. HeadKept /\ HeadKept'
    BY <1>1, <1>5 DEF HeadKept, Owned, SocksOnly
  <2>2. chunk[HeadAt] \in Tunnels \cup Plain
    <3>1. CASE at = "request"
      BY <3>1 DEF EarlyKept
    <3>2. CASE at # "request"
      <4>1. chunk \in Seq(Pieces) /\ Asks(chunk, Tunnels \cup Plain)
        BY <2>1, <3>2 DEF ChunkOK, PipeTypes
      <4> QED
        BY <4>1, HeadIsFound DEF Tunnels, Plain, Heads
    <3> QED
      BY <3>1, <3>2
  <2>3. EarlyKept /\ EarlyKept'
    BY <1>2, <2>1, <2>2 DEF EarlyKept
  <2> QED
    BY <1>1, <1>2, <2>3 DEF Held
<1> QED
  BY <1>3, <1>4, <1>5

LEMMA ListedKept ==
  ASSUME SessionNext
  PROVE  listed' = listed \/ at \in {"accept", "peek", "return"}
<1> USE DEF entry, sockets, relaying, config
<1>1. CASE ThreadStep
  <2>1. CASE \/ Accept \/ Peek \/ Unregister \/ CloseClient \/ RecvFails \/ Reply \/ ReplyFails
             \/ Greet \/ RecvField \/ ReadHead \/ Request \/ SendEarly
             \/ Connects \/ NotConnected \/ Start \/ Finish \/ CloseTarget
    BY <2>1 DEF Accept, Peek, Unregister, CloseClient, RecvFails, Reply, ReplyFails, Greet,
         RecvField, ReadHead, Request, SendEarly, Connects, NotConnected, Start, Finish, CloseTarget
  <2> QED
    BY <1>1, <2>1, PointsOfLink, PointsOfRelay DEF ThreadStep
<1>2. CASE \/ RelayFails \/ Reload \/ NodeAnswers \/ ClientStep
           \/ \E s \in Sides : PeerStep(s) \/ Reads(s)
  BY <1>2, OthersFrame, PointsOfRelay
<1> QED
  BY <1>1, <1>2 DEF SessionNext

\* Steps after which both streams are where they were.
LEMMA StreamsKept ==
  ASSUME SessionInv, WrittenOK, StreamsOK, SessionNext, SessionInv',
         at' \in DownPoints => at \in DownPoints,
         at' \in UpPoints => at \in UpPoints \/ Request,
         at' = "request" => at = "request",
         at' \in {"connected"} \cup RelayPoints => at \in {"connected"} \cup RelayPoints \/ Reply,
         UNCHANGED <<sent, inbox, peer, left>>,
         \A s \in Sides : Delivered(s)' = Delivered(s),
         at' \in {"return", "close", "close_target", "relayed"} \/ chunk' = chunk,
         \A s \in Sides : at' # "relayed" => \/ at' = SendAt(s) <=> at = SendAt(s)
                                             \/ at = SendAt(s) /\ chunk = <<>>
  PROVE  StreamsOK'
<1> USE DEF Sides
<1>1. PointTypes /\ PipeTypes /\ Owned /\ InputOK /\ ChunkOK /\ Owned'
  BY DEF SessionInv, Types
<1>2. \A s \in Sides : Stream(s)' = Stream(s)
  BY DEF Stream
<1>3. \A s \in Sides : Begins(Delivered(s), Stream(s))'
  BY <1>2 DEF StreamsOK, Begins
<1>4. ASSUME at' \in DownPoints PROVE Flows("client")'
  <2>1. at \in DownPoints
    BY <1>4
  <2>2. Held("client")' = Held("client")
    BY <1>4, <2>1 DEF Held, DownPoints, Checked, RelayPoints, SendAt
  <2> QED
    BY <1>2, <2>1, <2>2, FlowsKept DEF StreamsOK
<1>5. ASSUME at' \in UpPoints PROVE Flows("target")'
  <2>1. at \in UpPoints \/ Request
    BY <1>5
  <2>2. chunk' = chunk
    BY <1>5 DEF UpPoints, LinkPoints, SocksPoints, HttpPoints, Checked
  <2>3. ASSUME Request PROVE at = "request" /\ EarlyKept
    <3>1. at = "request" /\ HeadAt' = HeadAt
      BY <2>2, <2>3 DEF Request, HeadAt
    <3>2. chunk[HeadAt] \in Heads
      BY <1>1, <3>1, HeadIsFound DEF ChunkOK, HeadKept, PipeTypes
    <3>3. at' = "connecting"
      BY <1>5, <2>3 DEF Request, Goto, UpPoints, LinkPoints, SocksPoints, HttpPoints, Checked
    <3>4. chunk[HeadAt] \in Tunnels \cup Plain
      BY <2>3, <3>2, <3>3 DEF Request, Goto, Heads, Tunnels, Plain
    <3> QED
      BY <3>1, <3>4 DEF EarlyKept, HeadKept
  <2>4. listed' = listed
    BY <2>1, <2>3, ListedKept DEF UpPoints, LinkPoints, SocksPoints, HttpPoints, Checked
  <2>5. Held("target")' = Held("target")
    BY <1>1, <1>5, <2>1, <2>2, <2>3, <2>4, HeldUp
  <2> QED
    BY <1>2, <2>1, <2>3, <2>5, FlowsKept DEF StreamsOK
<1>6. ASSUME at' = "request", EarlyKept' PROVE Flows("target")'
  <2>1. at = "request" /\ chunk' = chunk
    BY <1>6
  <2>2. EarlyKept /\ Held("target")' = Held("target")
    BY <1>6, <2>1 DEF EarlyKept, HeadKept, HeadAt, Held, EarlyData, SendAt
  <2> QED
    BY <1>2, <2>1, <2>2, FlowsKept DEF StreamsOK
<1>7. ASSUME at' \in {"connected"} \cup RelayPoints, peer'["target"] # "reset"
      PROVE  Flows("target")'
  <2>1. chunk' = chunk
    BY <1>7 DEF RelayPoints
  <2>2. CASE at \in {"connected"} \cup RelayPoints
    <3>1. Held("target")' = Held("target")
      BY <1>7, <2>1, <2>2 DEF Held, EarlyKept, HeadKept, RelayPoints, LinkPoints, SocksPoints,
         HttpPoints, SendAt
    <3> QED
      BY <1>2, <1>7, <2>2, <3>1, FlowsKept DEF StreamsOK
  <2>3. CASE Reply
    <3>1. at = "say_connected" /\ at' = "connected" /\ listed' = listed
      BY <1>7, <2>3, ListedKept DEF Reply, Goto, Replies, AfterReply, RelayPoints
    <3>2. Held("target")' = Held("target") /\ Flows("target")
      BY <1>1, <2>1, <3>1, HeldUp DEF UpPoints, Checked, StreamsOK
    <3> QED
      BY <1>2, <3>2, FlowsKept
  <2> QED
    BY <1>7, <2>2, <2>3
<1> QED
  BY <1>3, <1>4, <1>5, <1>6, <1>7 DEF StreamsOK

LEMMA StreamsKeptBy ==
  ASSUME SessionInv, WrittenOK, StreamsOK, SessionNext, SessionInv',
         \/ Accept \/ Peek \/ Unregister \/ CloseClient \/ RecvFails \/ Reply \/ ReplyFails
         \/ Request \/ Connects \/ Start \/ Finish \/ CloseTarget
         \/ RelayFails \/ Reload \/ \E r \in Sides : Reads(r)
  PROVE  StreamsOK'
<1> USE DEF ends, pipes, buffer, answer, SendAt, Sides
<1>1. \A s \in Sides : Delivered(s)' = Delivered(s)
  <2>1. CASE Reply
    BY <2>1, ReplyEffect
  <2>2. CASE \E r \in Sides : Reads(r)
    BY <2>2, ReadsEffect
  <2>3. CASE ~Reply /\ ~\E r \in Sides : Reads(r)
    <3>1. UNCHANGED <<got, outbox>>
      BY <2>3 DEF Accept, Peek, Unregister, CloseClient, RecvFails, ReplyFails, Request, Connects,
         Start, Finish, CloseTarget, RelayFails, PollFails, Reload, relayVars
    <3> QED
      BY <3>1, DeliveredIsTold
  <2> QED
    BY <2>1, <2>2, <2>3
<1>2. UNCHANGED <<sent, inbox, peer, left>>
  BY DEF Accept, Peek, Unregister, CloseClient, RecvFails, Reply, ReplyFails, Request, Connects,
     ForgetsAttempts, Start, Finish, CloseTarget, RelayFails, PollFails, Reload, Reads, PeerReads,
     relayVars
<1>3. at' \in {"return", "close", "close_target", "relayed"} \/ chunk' = chunk
  BY DEF Accept, Peek, Unregister, CloseClient, RecvFails, Reply, ReplyFails, Request, Connects,
     Start, Finish, CloseTarget, RelayFails, PollFails, Reload, Reads, relayVars, Goto
<1>4. \A s \in Sides : at' = SendAt(s) <=> at = SendAt(s)
  <2>1. CASE Reload \/ \E r \in Sides : Reads(r)
    BY <2>1, OthersFrame
  <2>2. CASE Request \/ Connects \/ Reply \/ ReplyFails
    BY <2>2 DEF Request, Connects, Opened, Reply, ReplyFails, Replies, AfterReply, Goto
  <2>3. CASE \/ Accept \/ Peek \/ Unregister \/ CloseClient \/ RecvFails \/ Start \/ Finish
             \/ CloseTarget \/ RelayFails
    BY <2>3 DEF Accept, Peek, Register, FirstPoint, Unregister, CloseClient, RecvFails, FieldPoints,
       Start, Finish, CloseTarget, RelayFails, PollFails, Goto, Ends
  <2> QED
    BY <2>1, <2>2, <2>3
<1>5. /\ at' \in DownPoints => at \in DownPoints
      /\ at' \in UpPoints => at \in UpPoints \/ Request
      /\ at' = "request" => at = "request"
      /\ at' \in {"connected"} \cup RelayPoints => at \in {"connected"} \cup RelayPoints \/ Reply
  <2> USE DEF DownPoints, UpPoints, LinkPoints, SocksPoints, HttpPoints, Checked, RelayPoints, Goto,
              Ends
  <2>1. CASE Reload \/ \E r \in Sides : Reads(r)
    BY <2>1, OthersFrame
  <2>2. CASE Request \/ Connects \/ Reply \/ ReplyFails
    BY <2>2 DEF Request, Connects, Opened, Reply, ReplyFails, Replies, AfterReply
  <2>3. CASE \/ Accept \/ Peek \/ Unregister \/ CloseClient \/ RecvFails \/ Start \/ Finish
             \/ CloseTarget \/ RelayFails
    BY <2>3 DEF Accept, Peek, Register, FirstPoint, Unregister, CloseClient, RecvFails, FieldPoints,
       Start, Finish, CloseTarget, RelayFails, PollFails
  <2> QED
    BY <2>1, <2>2, <2>3
<1> QED
  BY <1>1, <1>2, <1>3, <1>4, <1>5, StreamsKept

LEMMA StreamsKeptInRelay ==
  ASSUME SessionInv, WrittenOK, StreamsOK, SessionNext, SessionInv', Relays,
         ~\E s \in Sides : Recv(s) \/ Send(s)
  PROVE  StreamsOK'
<1> USE DEF ends, pipes, buffer, answer, SendAt, RecvAt, Sides, Goto, Ends, AfterDirection
<1>1. UNCHANGED <<sent, inbox, peer, left, got, outbox, chunk>>
  BY DEF Relays, RelayStep, PollReady, PollTimeout, Account, HangUp, Pass, RecvEnds, SendWaits,
     SendBreaks, SendDone
<1>2. \A s \in Sides : Delivered(s)' = Delivered(s)
  BY <1>1, DeliveredIsTold
<1>3. \A s \in Sides : at' # "relayed" => \/ at' = SendAt(s) <=> at = SendAt(s)
                                          \/ at = SendAt(s) /\ chunk = <<>>
  BY DEF Relays, RelayStep, PollReady, PollTimeout, Account, HangUp, Pass, RecvEnds, SendWaits,
     SendBreaks, SendDone, Other
<1>4. at \in RelayPoints /\ at' \in InRelay
  BY PointsOfRelay
<1>5. /\ at' \in DownPoints => at \in DownPoints
      /\ at' \in UpPoints => at \in UpPoints \/ Request
      /\ at' = "request" => at = "request"
      /\ at' \in {"connected"} \cup RelayPoints => at \in {"connected"} \cup RelayPoints \/ Reply
  BY <1>4 DEF DownPoints, UpPoints, LinkPoints, SocksPoints, HttpPoints, Checked, RelayPoints, InRelay
<1> QED
  BY <1>1, <1>2, <1>3, <1>5, StreamsKept

-----------------------------------------------------------------------------
(* What is received, sent and said moves the boundaries within a stream.   *)

LEMMA RegroupRecv ==
  ASSUME NEW c \in Seq(Pieces), NEW r \in Seq(Pieces), NEW l \in Seq(Pieces)
  PROVE  <<>> \o ((c \o r) \o l) = c \o (r \o l)
<1> DEFINE w == (c \o r) \o l
<1>1. w = c \o (r \o l)
  BY Associates
<1>2. c \o r \in Seq(Pieces)
  BY Concats
<1>3. w \in Seq(Pieces)
  BY <1>2, Concats
<1> HIDE DEF w
<1>4. <<>> \o w = w
  BY <1>3, Concats
<1> QED
  BY <1>1, <1>4 DEF w

\* A stream that starts: nothing is delivered yet.
LEMMA FlowsFromStart ==
  ASSUME NEW s \in Sides, NEW h \in Seq(Pieces), NEW i \in Seq(Pieces),
         NEW lost \in Seq(Pieces),
         Delivered(s)' = <<>>, Held(s)' = h, inbox'[Other(s)] = i,
         Stream(s)' = h \o (i \o lost), peer'[Other(s)] # "reset" => lost = <<>>
  PROVE  Flows(s)'
<1> DEFINE w == h \o (i \o lost)
<1>1. w \in Seq(Pieces)
  <2>1. i \o lost \in Seq(Pieces)
    BY Concats
  <2> QED
    BY <2>1, Concats
<1> HIDE DEF w
<1>2. <<>> \o w = w
  BY <1>1, Concats
<1> QED
  BY <1>2 DEF Flows, w

\* recv puts the beginning of what is there into the buffer.
LEMMA StreamsOfRecv ==
  ASSUME SessionInv, WrittenOK, StreamsOK, NEW r \in Sides, Recv(r), UNCHANGED <<left, listed>>
  PROVE  StreamsOK'
<1>1. PipeTypes /\ ChunkOK /\ NodeTypes
  BY DEF SessionInv, Types
<1> DEFINE q == inbox[r]
           n == Least(Len(q), Buffer)
           o == Other(r)
<1>2. /\ at = RecvAt(r) /\ at' = SendAt(o) /\ q # <<>> /\ q \in Seq(Pieces)
      /\ chunk' = First(q, n) /\ inbox' = [inbox EXCEPT ![r] = Rest(q, n)]
      /\ UNCHANGED <<sent, got, peer, outbox>>
  BY <1>1 DEF Recv, Goto, ends, PipeTypes
<1>3. n \in 0 .. Len(q) /\ n \in Nat
  <2>1. Len(q) \in Nat /\ Buffer \in Nat
    BY <1>2, LenProperties, RelayAssumption
  <2> HIDE DEF q
  <2> QED
    BY <2>1 DEF Least
<1>4. /\ First(q, n) \o Rest(q, n) = q
      /\ First(q, n) \in Seq(Pieces) /\ Rest(q, n) \in Seq(Pieces)
  <2>1. n \in Int /\ n <= Len(q)
    BY <1>2, <1>3, LenProperties
  <2> HIDE DEF n, q
  <2> QED
    BY <1>2, <1>3, <2>1, FirstAndRest, FirstProperties, RestProperties
<1>5. o \in Sides /\ o # r /\ Other(o) = r /\ Other(r) = o
  BY DEF Other, Sides
<1>6. q = chunk' \o inbox'[r] /\ chunk' \in Seq(Pieces) /\ inbox'[r] \in Seq(Pieces)
      /\ inbox'[o] = inbox[o]
  BY <1>1, <1>2, <1>4, <1>5 DEF PipeTypes
<1>7. \A s \in Sides : Delivered(s)' = Delivered(s) /\ Stream(s)' = Stream(s)
  BY <1>2, DeliveredIsTold DEF Stream
<1>8. ~EarlyKept /\ ~EarlyKept' /\ at \in RelayPoints /\ at' \in RelayPoints
  BY <1>2 DEF EarlyKept, HeadKept, RecvAt, SendAt, LinkPoints, SocksPoints, HttpPoints, RelayPoints
<1>9. Held(o) = <<>> /\ Held(o)' = chunk' /\ Held(r) = <<>> /\ Held(r)' = <<>>
  BY <1>2, <1>5, <1>8 DEF Held, RecvAt, SendAt, Sides
<1>10. ASSUME Flows(r) PROVE Flows(r)'
  BY <1>2, <1>5, <1>6, <1>7, <1>9, <1>10, FlowsKept
<1>11. ASSUME Flows(o) PROVE Flows(o)'
  <2> DEFINE d == Delivered(o)
             c == chunk'
             i == inbox'[r]
  <2>1. PICK lost \in Seq(Pieces) : /\ Stream(o) = d \o (<<>> \o (q \o lost))
                                    /\ peer[r] # "reset" => lost = <<>>
    BY <1>5, <1>9, <1>11 DEF Flows
  <2>2. <<>> \o ((c \o i) \o lost) = c \o (i \o lost)
    <3>1. c \in Seq(Pieces) /\ i \in Seq(Pieces)
      BY <1>6
    <3> HIDE DEF c, i
    <3> QED
      BY <3>1, RegroupRecv
  <2>3. Stream(o)' = Delivered(o)' \o (Held(o)' \o (inbox'[Other(o)] \o lost))
    BY <1>5, <1>6, <1>7, <1>9, <2>1, <2>2
  <2> QED
    BY <1>2, <1>5, <2>1, <2>3 DEF Flows
<1>12. Flows("client") /\ (peer["target"] # "reset" => Flows("target"))
  BY <1>8 DEF StreamsOK, DownPoints
<1>13. Flows("client")' /\ (peer'["target"] # "reset" => Flows("target")')
  BY <1>2, <1>5, <1>10, <1>11, <1>12 DEF Sides
<1>14. \A s \in Sides : Begins(Delivered(s), Stream(s))'
  BY <1>7 DEF StreamsOK, Begins
<1>15. at' \notin UpPoints /\ at' # "request"
  BY <1>8 DEF UpPoints, LinkPoints, SocksPoints, HttpPoints, Checked, RelayPoints
<1> QED
  BY <1>13, <1>14, <1>15 DEF StreamsOK

\* send takes the beginning of what the relay holds.
LEMMA StreamsOfSend ==
  ASSUME SessionInv, WrittenOK, StreamsOK, NEW r \in Sides, Send(r), UNCHANGED <<left, listed>>
  PROVE  StreamsOK'
<1>1. PipeTypes /\ ChunkOK /\ NodeTypes
  BY DEF SessionInv, Types
<1>2. at = SendAt(r) /\ at' = at /\ UNCHANGED <<sent, peer, inbox>>
  BY DEF Send, ends
<1>3. PICK part \in Seq(Talk) :
         /\ Delivered(r)' = Delivered(r) \o part
         /\ chunk = part \o chunk' /\ chunk' \in Seq(Talk)
         /\ \A s \in Sides \ {r} : Delivered(s)' = Delivered(s)
         /\ peer[r] # "reset"
  BY SendEffect
<1>4. \A s \in Sides : Stream(s)' = Stream(s)
  BY <1>2 DEF Stream
<1>5. ~EarlyKept /\ ~EarlyKept' /\ at \in RelayPoints
  BY <1>2 DEF EarlyKept, HeadKept, SendAt, LinkPoints, SocksPoints, HttpPoints, RelayPoints
<1>6. /\ Held(r) = chunk /\ Held(r)' = chunk'
      /\ \A s \in Sides \ {r} : Held(s) = <<>> /\ Held(s)' = <<>>
  BY <1>2, <1>5 DEF Held, SendAt, Sides
<1>7. Flows("client") /\ (peer["target"] # "reset" => Flows("target"))
  BY <1>5 DEF StreamsOK, DownPoints
<1>8. Flows(r)
  BY <1>3, <1>7 DEF Sides
<1>9. Flows(r)' /\ Begins(Delivered(r), Stream(r))'
  <2> DEFINE d == Delivered(r)
             c == chunk'
             i == inbox[Other(r)]
  <2>1. PICK lost \in Seq(Pieces) : /\ Stream(r) = d \o (chunk \o (i \o lost))
                                    /\ peer[Other(r)] # "reset" => lost = <<>>
    BY <1>6, <1>8 DEF Flows
  <2>2. /\ d \in Seq(Pieces) /\ part \in Seq(Pieces) /\ c \in Seq(Pieces) /\ i \in Seq(Pieces)
    BY <1>1, <1>3, StreamTyped, HeldTyped, TalkIsPieces
  <2>3. d \o ((part \o c) \o (i \o lost)) = (d \o part) \o (c \o (i \o lost))
        /\ c \o (i \o lost) \in Seq(Pieces)
    <3> DEFINE x == i \o lost
    <3> HIDE DEF d, c, i
    <3>1. x \in Seq(Pieces)
      BY <2>2, Concats
    <3> HIDE DEF x
    <3> DEFINE y == c \o x
    <3>2. (part \o c) \o x = part \o y
      BY <2>2, <3>1, Associates
    <3>3. y \in Seq(Pieces)
      BY <2>2, <3>1, Concats
    <3> HIDE DEF y
    <3>4. d \o (part \o y) = (d \o part) \o y
      <4>1. \A u, v, w \in Seq(Pieces) : (u \o v) \o w = u \o (v \o w)
        BY Associates
      <4> QED
        BY <2>2, <3>3, <4>1
    <3> QED
      BY <3>2, <3>3, <3>4 DEF x, y
  <2>4. Stream(r)' = Delivered(r)' \o (Held(r)' \o (inbox'[Other(r)] \o lost))
        /\ Held(r)' \o (inbox'[Other(r)] \o lost) \in Seq(Pieces)
    BY <1>2, <1>3, <1>4, <1>6, <2>1, <2>3
  <2> QED
    BY <1>2, <2>1, <2>4 DEF Flows, Begins
<1>10. ASSUME NEW s \in Sides \ {r}
       PROVE  Begins(Delivered(s), Stream(s))' /\ (Flows(s) => Flows(s)')
  BY <1>2, <1>3, <1>4, <1>6, FlowsKept DEF StreamsOK, Begins
<1>11. \A s \in Sides : Begins(Delivered(s), Stream(s))'
  BY <1>9, <1>10
<1>12. Flows("client")' /\ (peer'["target"] # "reset" => Flows("target")')
  BY <1>2, <1>7, <1>9, <1>10 DEF Sides
<1>13. at' \notin UpPoints /\ at' # "request"
  BY <1>2, <1>5 DEF UpPoints, LinkPoints, SocksPoints, HttpPoints, Checked, RelayPoints
<1> QED
  BY <1>11, <1>12, <1>13 DEF StreamsOK

\* What was read too far ahead is sent first.
LEMMA StreamsOfEarly ==
  ASSUME SessionInv, WrittenOK, StreamsOK, SendEarly, SessionInv'
  PROVE  StreamsOK'
<1> USE DEF Sides
<1>1. PipeTypes /\ ChunkOK /\ NodeTypes /\ Other("client") = "target" /\ Other("target") = "client"
  BY DEF SessionInv, Types, Other
<1>2. at = "early" /\ at' = "connected" /\ UNCHANGED <<sent, peer, inbox, left>>
  BY DEF SendEarly, Goto, ends, answer
<1>3. /\ Delivered("client")' = Delivered("client") /\ Delivered("target") = <<>>
      /\ Held("target") = EarlyData
      /\ Delivered("target")' = IF peer["target"] = "reset" THEN <<>> ELSE EarlyData
      /\ EarlyData \in Seq(Pieces)
  BY EarlyEffect, TalkIsPieces
<1>4. \A s \in Sides : Stream(s)' = Stream(s) /\ Stream(s) \in Seq(Pieces)
  BY <1>1, <1>2, StreamTyped DEF Stream
<1>5. Held("target")' = <<>> /\ Held("client")' = <<>> /\ Held("client") = <<>>
  BY <1>2 DEF Held, EarlyKept, HeadKept, SendAt, LinkPoints, SocksPoints, HttpPoints
<1>6. Flows("client") /\ Flows("target")
  BY <1>2 DEF StreamsOK, DownPoints, UpPoints
<1>7. Flows("client")' /\ Begins(Delivered("client"), Stream("client"))'
  BY <1>1, <1>2, <1>3, <1>4, <1>5, <1>6, FlowsKept DEF StreamsOK, Begins
<1>8. PICK lost \in Seq(Pieces) :
         /\ Stream("target") = <<>> \o (EarlyData \o (inbox["client"] \o lost))
         /\ peer["client"] # "reset" => lost = <<>>
  BY <1>1, <1>3, <1>6 DEF Flows
<1> DEFINE x == inbox["client"] \o lost
           e == EarlyData
<1>9. x \in Seq(Pieces) /\ e \in Seq(Pieces)
  <2>1. inbox["client"] \in Seq(Pieces)
    BY <1>1 DEF PipeTypes
  <2> QED
    BY <1>3, <2>1, Concats
<1>10. /\ <<>> \o (e \o x) = e \o (<<>> \o x) /\ <<>> \o x = x
  <2> HIDE DEF x, e
  <2>1. e \o x \in Seq(Pieces)
    BY <1>9, Concats
  <2> QED
    BY <1>9, <2>1, Concats
<1>11. peer["target"] # "reset" =>
          Flows("target")' /\ Begins(Delivered("target"), Stream("target"))'
  BY <1>1, <1>2, <1>3, <1>4, <1>5, <1>8, <1>9, <1>10 DEF Flows, Begins
<1>12. peer["target"] = "reset" => Begins(Delivered("target"), Stream("target"))'
  BY <1>3, <1>4, BeginsAll DEF Begins
<1>13. at' \notin UpPoints /\ at' # "request"
  BY <1>2 DEF UpPoints, LinkPoints, SocksPoints, HttpPoints, Checked
<1> QED
  BY <1>2, <1>7, <1>11, <1>12, <1>13 DEF StreamsOK

\* A handler reads of the client: the stream to the target starts behind the
\* request.
LEMMA StreamsOfInput ==
  ASSUME SessionInv, WrittenOK, StreamsOK, Greet \/ RecvField \/ ReadHead, SessionNext, SessionInv',
         WrittenOK'
  PROVE  StreamsOK'
<1> USE DEF Sides
<1>1. /\ PointTypes /\ PipeTypes /\ Owned /\ InputOK /\ ChunkOK /\ NodeTypes
      /\ PipeTypes' /\ NodeTypes' /\ Other("client") = "target" /\ Other("target") = "client"
  BY DEF SessionInv, Types, Other
<1>2. UNCHANGED <<sent, got, outbox, peer, left>> /\ at \in Unwritten
  BY DEF Greet, RecvField, ReadHead, ends, answer, Unwritten, Before, Fields, FieldPoints
<1>3. \A s \in Sides : Delivered(s)' = Delivered(s) /\ Stream(s)' = Stream(s)
  BY <1>2, DeliveredIsTold DEF Stream
<1>4. \A s \in Sides : Begins(Delivered(s), Stream(s))'
  BY <1>3 DEF StreamsOK, Begins
<1>5. Delivered("target")' = <<>>
  BY <1>2, <1>3, DeliveredIsTold, ToldNothing DEF WrittenOK
<1>6. CASE Greet
  <2>1. at' \in {"return", "greeting", "say_no_method", "say_password", "say_no_auth"}
    BY <1>1, <1>6, GreetEffect
  <2> QED
    BY <1>4, <2>1 DEF StreamsOK, DownPoints, UpPoints, LinkPoints, SocksPoints, HttpPoints, Checked,
       RelayPoints
<1>7. CASE RecvField
  <2> DEFINE q == inbox["client"]
             n == Place(q)
  <2>1. at' \in UpPoints \cup DownPoints => at' = "connecting" /\ at = "port"
    BY <1>1, <1>7, RecvFieldMoves DEF DownPoints, UpPoints, LinkPoints, SocksPoints, HttpPoints,
       Checked, RelayPoints
  <2>2. ASSUME at' = "connecting" PROVE Flows("target")'
    <3>1. sent["client"] = Rest(q, n) /\ inbox' = [inbox EXCEPT !["client"] = Rest(q, n)]
      BY <1>1, <1>7, <2>2, RecvFieldEffect
    <3>2. chunk' = chunk /\ chunk = <<>> /\ listed' = listed /\ listed = "SOCKS5"
      BY <1>1, <1>7 DEF RecvField, buffer, entry, ChunkOK, Owned, SocksOnly
    <3>3. Held("target")' = <<>>
      BY <2>2, <3>2 DEF Held, EarlyKept, HeadKept, SendAt
    <3>4. sent["client"] \in Seq(Pieces)
      BY <1>1 DEF PipeTypes
    <3>5. Stream("target")' = sent["client"] /\ inbox'["client"] = sent["client"]
      BY <1>1, <1>2, <3>1 DEF Stream, PipeTypes
    <3>6. sent["client"] = <<>> \o (sent["client"] \o <<>>) /\ <<>> \in Seq(Pieces)
      <4> DEFINE w == sent["client"]
      <4>1. w \in Seq(Pieces)
        BY <3>4
      <4> HIDE DEF w
      <4>2. w = <<>> \o (w \o <<>>)
        BY <4>1, Concats
      <4> QED
        BY <4>2, EmptySeq DEF w
    <3> QED
      BY <1>1, <1>5, <3>3, <3>4, <3>5, <3>6, FlowsFromStart
  <2>3. at' # "request" /\ at' \notin {"connected"} \cup RelayPoints
    BY <1>1, <1>7, RecvFieldMoves DEF RelayPoints
  <2> QED
    BY <1>4, <2>1, <2>2, <2>3 DEF StreamsOK, DownPoints, UpPoints, LinkPoints, SocksPoints,
       HttpPoints, Checked, RelayPoints
<1>8. CASE ReadHead
  <2>1. /\ chunk' = Unread /\ Unread \in Seq(Pieces) /\ peer["client"] # "reset"
        /\ inbox' = [inbox EXCEPT !["client"] = <<>>] /\ at' \in {"request", "head"}
        /\ at' = "request" =>
               /\ Asks(Unread, Heads)
               /\ sent["client"] = IF Unread[Place(Unread)] \in Plain THEN Unread
                                   ELSE Rest(Unread, Place(Unread))
    BY <1>1, <1>8, ReadHeadEffect
  <2>2. ASSUME at' = "request", EarlyKept' PROVE Flows("target")'
    <3> DEFINE h == HeadAt'
    <3>1. h = CHOOSE i \in DOMAIN chunk' : chunk'[i] \in Heads
      BY DEF HeadAt
    <3>2. h = Place(Unread)
      BY <2>1, <2>2, <3>1, HeadIsPlaced
    <3>3. chunk'[h] \in Tunnels \cup Plain
      BY <2>2 DEF EarlyKept
    <3>4. EarlyData' = IF chunk'[h] \in Tunnels THEN Rest(chunk', h) ELSE chunk'
      BY DEF EarlyData
    <3>5. EarlyData' = sent["client"]
      BY <2>1, <2>2, <3>2, <3>3, <3>4 DEF Tunnels, Plain
    <3>6. Held("target")' = sent["client"] /\ inbox'["client"] = <<>>
      BY <1>1, <2>1, <2>2, <3>5 DEF Held, SendAt, PipeTypes
    <3>7. sent["client"] \in Seq(Pieces) /\ <<>> \in Seq(Pieces)
      BY <1>1, EmptySeq DEF PipeTypes
    <3>8. Stream("target")' = sent["client"] \o (<<>> \o <<>>)
      BY <1>2, <3>7, Concats DEF Stream
    <3> QED
      BY <1>1, <1>5, <3>6, <3>7, <3>8, FlowsFromStart
  <2> QED
    BY <1>4, <2>1, <2>2 DEF StreamsOK, DownPoints, UpPoints, LinkPoints, SocksPoints,
       HttpPoints, Checked, RelayPoints
<1> QED
  BY <1>6, <1>7, <1>8

\* What the handshake leaves is all that stands before what the target says.
LEMMA LinksEffect ==
  ASSUME PipeTypes, NodeTypes, InputOK, NodeOK, ShakingOK, Connecting, at' = "linked"
  PROVE  /\ peer' = peer \/ peer'["target"] = "open"
         /\ peer'["target"] # "reset" => inbox'["target"] = left' \o sent'["target"]
<1> USE DEF Sides, ends, pipes
<1>1. CASE \E way \in Via : Dial(way)
  <2>1. peer'["target"] = "open" /\ inbox'["target"] = <<>> /\ sent'["target"] = <<>> /\ left' = <<>>
    BY <1>1 DEF Dial, PipeTypes
  <2>2. <<>> \o <<>> = <<>>
    BY Concats
  <2> QED
    BY <2>1, <2>2
<1>2. CASE ReadRest
  <2> DEFINE n == IF at = "rest" THEN 2 ELSE 1
             k == Len(Arrived(n))
  <2>1. /\ at \in {"rest", "rest_only"} /\ at \in Shaking /\ Take(n) /\ n \in Nat
        /\ left' = First(inbox'["target"], Len(inbox'["target"]) - Len(sent["target"]))
        /\ UNCHANGED <<sent, peer>>
    BY <1>2 DEF ReadRest, Links, Shaking, SocksPoints
  <2>2. ASSUME peer["target"] # "reset" PROVE inbox'["target"] = left' \o sent["target"]
    <3>1. sent["target"] = <<>> \/ n <= Len(Lead)
      <4>1. sent["target"] # <<>> => Lead \in Expected(at)
        BY <2>1, <2>2, SpokenIsAnswered
      <4>2. /\ Lead \in Expected("rest") => Len(Lead) = 2
            /\ Lead \in Expected("rest_only") => Len(Lead) = 3
        BY AnswersLong
      <4> QED
        BY <2>1, <4>1, <4>2
    <3>2. left' = Rest(Lead, k) /\ inbox'["target"] = Rest(Lead, k) \o sent["target"]
      BY <2>1, <2>2, <3>1, TakeOfShake
    <3> QED
      BY <3>2
  <2> QED
    BY <2>1, <2>2
<1>3. CASE HeadDone
  <2>1. /\ at = "answer" /\ at \in Shaking /\ UNCHANGED <<sent, peer, inbox>>
        /\ left' = Lead
    BY <1>3 DEF HeadDone, Shaking, HttpPoints, Links, Goto, Lead, GivesUp
  <2>2. peer["target"] # "reset" => inbox["target"] = Lead \o sent["target"]
    BY <2>1, InboxOfShake
  <2> QED
    BY <2>1, <2>2
<1>4. ~(\/ \E way \in Via : DialFails(way)
        \/ Retry \/ Say \/ SayFails \/ NodeSilent \/ ReadAnswer \/ ReadLength \/ ReadByte)
  BY DEF DialFails, Retry, Say, AfterSay, SayFails, NodeSilent, ReadAnswer, AfterAnswer, ReadLength,
     ReadByte, GivesUp, Goto
<1> QED
  BY <1>1, <1>2, <1>3, <1>4 DEF Connecting, UpstreamStep

LEMMA StreamsOfLink ==
  ASSUME SessionInv, WrittenOK, StreamsOK, Connecting, SessionInv', WrittenOK'
  PROVE  StreamsOK'
<1> USE DEF Sides
<1>1. /\ PointTypes /\ PipeTypes /\ Owned /\ InputOK /\ ChunkOK /\ NodeTypes /\ NodeOK /\ ShakingOK
      /\ PipeTypes' /\ NodeTypes' /\ Owned' /\ ChunkOK'
      /\ Other("client") = "target" /\ Other("target") = "client"
  BY DEF SessionInv, Types, Other
<1>2. /\ sent'["client"] = sent["client"] /\ inbox'["client"] = inbox["client"]
      /\ peer'["client"] = peer["client"] /\ UNCHANGED <<got, outbox, chunk, listed>>
      /\ at \in LinkPoints \ {"linked"} /\ at' \in LinkPoints
  BY <1>1, LinkClientSide, PointsOfLink
<1>3. \A s \in Sides : Delivered(s)' = Delivered(s)
  BY <1>2, DeliveredIsTold
<1>4. Stream("target")' = Stream("target")
  BY <1>2 DEF Stream
<1>5. Delivered("client") = <<>>
  BY <1>2, DeliveredIsTold, ToldNothing DEF WrittenOK, Quiet
<1>6. /\ Stream("client")' = left' \o sent'["target"]
      /\ left' \in Seq(Pieces) /\ sent'["target"] \in Seq(Pieces)
      /\ inbox'["target"] \in Seq(Pieces)
  BY <1>1, TalkIsPieces DEF NodeTypes, PipeTypes, Stream
<1> DEFINE w == Stream("client")'
<1>7. w \in Seq(Pieces)
  BY <1>6, Concats
<1>8. Begins(Delivered("client"), Stream("client"))'
  <2> HIDE DEF w
  <2>1. Begins(<<>>, w)
    BY <1>7, BeginsAll
  <2> QED
    BY <1>3, <1>5, <2>1 DEF w, Begins
<1>9. Begins(Delivered("target"), Stream("target"))'
  BY <1>3, <1>4 DEF StreamsOK, Begins
<1>10. Flows("target")'
  <2>1. Held("target")' = Held("target") /\ Flows("target")
    BY <1>1, <1>2, HeldUp DEF UpPoints, StreamsOK
  <2> QED
    BY <1>1, <1>2, <1>3, <1>4, <2>1, FlowsKept
<1>11. ASSUME at' = "linked" PROVE Flows("client")'
  <2>1. Held("client")' = <<>> /\ Delivered("client")' = <<>>
    BY <1>3, <1>5, <1>11 DEF Held, SendAt
  <2>2. CASE peer'["target"] # "reset"
    <3>1. inbox'["target"] = w
      BY <1>1, <1>6, <1>11, <2>2, LinksEffect
    <3>2. w = <<>> \o (w \o <<>>) /\ <<>> \in Seq(Pieces)
      <4> HIDE DEF w
      <4> QED
        BY <1>7, Concats
    <3> QED
      BY <1>1, <1>7, <2>1, <3>1, <3>2, FlowsFromStart
  <2>3. CASE peer'["target"] = "reset"
    <3>1. inbox'["target"] = <<>>
      BY <1>1, <2>3, LinkClientSide
    <3>2. w = <<>> \o (<<>> \o w) /\ <<>> \in Seq(Pieces)
      <4> HIDE DEF w
      <4> QED
        BY <1>7, Concats
    <3> QED
      BY <1>1, <1>7, <2>1, <2>3, <3>1, <3>2, FlowsFromStart
  <2> QED
    BY <2>2, <2>3
<1>12. /\ at' \in DownPoints => at' = "linked"
       /\ at' \notin {"connected"} \cup RelayPoints /\ at' # "request"
  BY <1>2 DEF DownPoints, LinkPoints, SocksPoints, HttpPoints, Checked, RelayPoints
<1> QED
  BY <1>8, <1>9, <1>10, <1>11, <1>12 DEF StreamsOK

LEMMA StreamsOfFailure ==
  ASSUME SessionInv, WrittenOK, StreamsOK, NotConnected, SessionInv'
  PROVE  StreamsOK'
<1> USE DEF Sides
<1>1. /\ UNCHANGED <<got, outbox, left>> /\ at = "unlinked" /\ sent'["client"] = sent["client"]
      /\ at' \in {"say_refused", "say_502"} /\ PipeTypes' /\ NodeTypes'
  BY DEF NotConnected, ForgetsAttempts, Goto, pipes, SessionInv, Types, PipeTypes
<1>2. \A s \in Sides : Delivered(s)' = Delivered(s)
  BY <1>1, DeliveredIsTold
<1>3. Begins(Delivered("target"), Stream("target"))'
  BY <1>1, <1>2 DEF StreamsOK, Begins, Stream
<1>4. Delivered("client") = <<>>
  BY <1>1, DeliveredIsTold, ToldNothing DEF WrittenOK, Quiet, LinkPoints
<1> DEFINE w == left' \o sent'["target"]
<1>5. w \in Seq(Pieces)
  <2>1. left' \in Seq(Pieces) /\ sent'["target"] \in Seq(Pieces)
    BY <1>1, TalkIsPieces DEF NodeTypes, PipeTypes
  <2> QED
    BY <2>1, Concats
<1>6. Begins(Delivered("client"), Stream("client"))'
  <2>1. Begins(<<>>, w)
    <3> HIDE DEF w
    <3> QED
      BY <1>5, BeginsAll
  <2> QED
    BY <1>2, <1>4, <2>1 DEF Begins, Stream
<1>7. at' \notin DownPoints \cup UpPoints \cup RelayPoints \cup {"connected", "request"}
  BY <1>1 DEF DownPoints, UpPoints, LinkPoints, SocksPoints, HttpPoints, Checked, RelayPoints
<1> QED
  BY <1>3, <1>6, <1>7 DEF StreamsOK

-----------------------------------------------------------------------------
(* What the peers and the node say.                                        *)

LEMMA HeldStays ==
  ASSUME UNCHANGED <<at, chunk, listed>>, NEW s \in Sides
  PROVE  Held(s)' = Held(s) /\ EarlyKept' = EarlyKept
BY DEF Held, EarlyKept, HeadKept, EarlyData, HeadAt, SendAt

\* More is said, and arrives behind what was said before.
LEMMA FlowsMore ==
  ASSUME PipeTypes, ChunkOK, NodeTypes, WrittenOK, NEW s \in Sides, NEW c \in Seq(Pieces),
         peer[Other(s)] = "open", UNCHANGED <<at, chunk, listed, peer>>,
         Delivered(s)' = Delivered(s), Stream(s)' = Stream(s) \o c,
         inbox'[Other(s)] = inbox[Other(s)] \o c, Begins(Delivered(s), Stream(s))
  PROVE  Begins(Delivered(s), Stream(s))' /\ (Flows(s) => Flows(s)')
<1> DEFINE d == Delivered(s)
           h == Held(s)
           i == inbox[Other(s)]
           w == Stream(s)
<1>1. d \in Seq(Pieces) /\ h \in Seq(Pieces) /\ i \in Seq(Pieces) /\ w \in Seq(Pieces)
  BY StreamTyped, HeldTyped
<1>2. Begins(d, w \o c)
  <2>1. Begins(d, w)
    OBVIOUS
  <2> HIDE DEF d, w
  <2> QED
    BY <1>1, <2>1, BeginsMore
<1>3. ASSUME Flows(s) PROVE Flows(s)'
  <2>1. w = d \o (h \o (i \o <<>>))
    BY <1>3 DEF Flows
  <2>2. (d \o (h \o (i \o <<>>))) \o c = d \o (h \o ((i \o c) \o <<>>))
    <3> HIDE DEF d, h, i
    <3>0. \A u, v, x \in Seq(Pieces) : (u \o v) \o x = u \o (v \o x)
      BY Associates
    <3>1. i \o <<>> = i /\ (i \o c) \o <<>> = i \o c
      <4> DEFINE j == i \o c
      <4>1. j \in Seq(Pieces)
        BY <1>1, Concats
      <4> HIDE DEF j
      <4>2. j \o <<>> = j /\ i \o <<>> = i
        BY <1>1, <4>1, Concats
      <4> QED
        BY <4>2 DEF j
    <3>2. (h \o i) \o c = h \o (i \o c)
      BY <1>1, <3>0
    <3> DEFINE e == h \o i
    <3>3. e \in Seq(Pieces)
      BY <1>1, Concats
    <3> HIDE DEF e
    <3>4. (d \o e) \o c = d \o (e \o c)
      BY <1>1, <3>0, <3>3
    <3> QED
      BY <3>1, <3>2, <3>4 DEF e
  <2>3. Held(s)' = h
    BY HeldStays
  <2>4. Stream(s)' = Delivered(s)' \o (Held(s)' \o (inbox'[Other(s)] \o <<>>))
    BY <2>1, <2>2, <2>3
  <2> QED
    BY <2>4, EmptySeq DEF Flows
<1> QED
  BY <1>2, <1>3 DEF Begins

\* A reset loses what was not received; the end of a stream loses nothing.
LEMMA FlowsCut ==
  ASSUME PipeTypes, NEW s \in Sides, NEW r \in Sides, UNCHANGED <<at, chunk, listed>>,
         PeerShuts(r) \/ PeerResets(r), Delivered(s)' = Delivered(s), Stream(s)' = Stream(s)
  PROVE  Flows(s) => Flows(s)'
<1>1. Held(s)' = Held(s) /\ Other(s) \in Sides
  BY HeldStays DEF Other, Sides
<1>2. CASE PeerShuts(r) \/ Other(s) # r
  <2>1. /\ inbox'[Other(s)] = inbox[Other(s)]
        /\ peer'[Other(s)] # "reset" => peer[Other(s)] # "reset"
    BY <1>1, <1>2 DEF PeerShuts, PeerResets, pipes, PipeTypes
  <2> QED
    BY <1>1, <2>1 DEF Flows
<1>3. CASE PeerResets(r) /\ Other(s) = r
  <2>1. inbox'[r] = <<>> /\ peer'[r] = "reset"
    BY <1>3 DEF PeerResets, PipeTypes
  <2>2. SUFFICES ASSUME Flows(s) PROVE Flows(s)'
    OBVIOUS
  <2>3. PICK lost \in Seq(Pieces) : Stream(s) = Delivered(s) \o (Held(s) \o (inbox[r] \o lost))
    BY <1>3, <2>2 DEF Flows
  <2> DEFINE l == inbox[r] \o lost
  <2>4. l \in Seq(Pieces)
    BY Concats DEF PipeTypes
  <2>5. Stream(s) = Delivered(s) \o (Held(s) \o l)
    BY <2>3
  <2> HIDE DEF l
  <2>6. <<>> \o l = l
    BY <2>4, Concats
  <2>7. Stream(s)' = Delivered(s)' \o (Held(s)' \o (inbox'[Other(s)] \o l))
    BY <1>1, <1>3, <2>1, <2>5, <2>6
  <2> QED
    BY <1>3, <2>1, <2>4, <2>7 DEF Flows
<1> QED
  BY <1>2, <1>3

\* Steps in which the thread stands still.
LEMMA StreamsOfOthers ==
  ASSUME StreamsOK, UNCHANGED <<at, chunk, listed>>, \A s \in Sides : Begins(Delivered(s), Stream(s))',
         at \in DownPoints /\ Flows("client") => Flows("client")', Flows("target") => Flows("target")',
         peer["target"] = "reset" => peer'["target"] = "reset"
  PROVE  StreamsOK'
<1>1. EarlyKept' = EarlyKept
  BY DEF EarlyKept, HeadKept, HeadAt
<1> QED
  BY <1>1 DEF StreamsOK

LEMMA StreamsOfFields ==
  ASSUME SessionInv, WrittenOK, StreamsOK, ClientStep, SessionInv', WrittenOK'
  PROVE  StreamsOK'
<1> USE DEF Sides
<1>1. /\ UNCHANGED <<at, chunk, listed, got, outbox, left>> /\ at \in Unwritten /\ PipeTypes /\ PipeTypes'
      /\ at \in DOMAIN Fields /\ sent'["target"] = sent["target"]
  BY DEF ClientStep, SendsField, buffer, entry, answer, Unwritten, Before, SessionInv, Types, PipeTypes
<1>2. \A s \in Sides : Delivered(s)' = Delivered(s)
  BY <1>1, DeliveredIsTold
<1>3. Begins(Delivered("client"), Stream("client"))'
  BY <1>1, <1>2 DEF StreamsOK, Begins, Stream
<1>4. Begins(Delivered("target"), Stream("target"))'
  <2> DEFINE w == sent'["client"]
  <2>1. w \in Seq(Pieces)
    BY <1>1 DEF PipeTypes
  <2>2. Stream("target")' = w
    BY DEF Stream
  <2> HIDE DEF w
  <2>3. Begins(<<>>, w)
    BY <2>1, BeginsAll
  <2>4. Delivered("target")' = <<>>
    BY <1>1, <1>2, DeliveredIsTold, ToldNothing DEF WrittenOK
  <2> QED
    BY <2>2, <2>3, <2>4 DEF Begins
<1>5. at' \notin DownPoints \cup UpPoints \cup RelayPoints \cup {"connected", "request"}
  BY <1>1 DEF Fields, DownPoints, UpPoints, LinkPoints, SocksPoints, HttpPoints, Checked, RelayPoints
<1> QED
  BY <1>3, <1>4, <1>5 DEF StreamsOK

LEMMA StreamsOfNode ==
  ASSUME SessionInv, WrittenOK, StreamsOK, NodeAnswers, SessionInv', WrittenOK'
  PROVE  StreamsOK'
<1> USE DEF Sides
<1>1. /\ PipeTypes /\ ChunkOK /\ NodeTypes /\ NodeOK
      /\ Other("client") = "target" /\ Other("target") = "client"
  BY DEF SessionInv, Types, Other
<1> DEFINE b == Head(owes)
<1>2. /\ UNCHANGED <<at, chunk, listed, got, outbox, sent, peer>>
      /\ peer["target"] = "open" /\ owes # <<>>
      /\ inbox' = [inbox EXCEPT !["target"] = Append(@, b)]
      /\ left' = IF at \in LinkPoints \ {"linked"} THEN left ELSE Append(left, b)
  BY DEF NodeAnswers, NodeSends, ends, buffer, entry
<1>3. \A s \in Sides : Delivered(s)' = Delivered(s)
  BY <1>2, DeliveredIsTold
<1>4. b \in Pieces /\ <<b>> \in Seq(Pieces)
  <2>1. b \in AnswerPieces
    BY <1>1, <1>2, HeadTailProperties DEF NodeTypes
  <2>2. b \in Pieces
    BY <2>1, TalkIsPieces DEF Pieces
  <2> HIDE DEF b
  <2> QED
    BY <2>2
<1>5. /\ inbox["target"] \in Seq(Pieces) /\ left \in Seq(Pieces)
      /\ sent["target"] = <<>>
  BY <1>1, <1>2, TalkIsPieces DEF PipeTypes, NodeTypes, NodeOK
<1>6. inbox'["target"] = inbox["target"] \o <<b>> /\ inbox'["client"] = inbox["client"]
  <2>1. Append(inbox["target"], b) = inbox["target"] \o <<b>>
    <3> DEFINE q == inbox["target"]
    <3>1. q \in Seq(Pieces)
      BY <1>5
    <3> HIDE DEF q, b
    <3> QED
      BY <1>4, <3>1, AppendIsConcat
  <2> QED
    BY <1>1, <1>2, <2>1 DEF PipeTypes
<1>7. Stream("target")' = Stream("target")
  BY <1>2 DEF Stream
<1>8. Begins(Delivered("target"), Stream("target"))' /\ (Flows("target") => Flows("target")')
  BY <1>1, <1>2, <1>3, <1>6, <1>7, FlowsKept, HeldStays DEF StreamsOK, Begins
<1>9. CASE at \in LinkPoints \ {"linked"}
  <2>1. Stream("client")' = Stream("client")
    BY <1>2, <1>9 DEF Stream
  <2>2. at \notin DownPoints
    BY <1>9 DEF DownPoints, LinkPoints, SocksPoints, HttpPoints, Checked, RelayPoints
  <2> QED
    BY <1>2, <1>3, <1>8, <2>1, <2>2, StreamsOfOthers DEF StreamsOK, Begins
<1>10. CASE at \notin LinkPoints \ {"linked"}
  <2>1. Stream("client")' = Stream("client") \o <<b>>
    <3> DEFINE p == left
    <3>1. left' = Append(left, b)
      BY <1>2, <1>10
    <3>2. p \in Seq(Pieces) /\ Append(p, b) \in Seq(Pieces)
      BY <1>4, <1>5, AppendProperties
    <3>3. Stream("client") = p \o <<>> /\ Stream("client")' = Append(p, b) \o <<>>
      BY <1>2, <1>5, <3>1 DEF Stream
    <3> HIDE DEF p, b
    <3>4. p \o <<>> = p /\ Append(p, b) \o <<>> = Append(p, b) /\ Append(p, b) = p \o <<b>>
      BY <1>4, <3>2, Concats, AppendIsConcat
    <3> QED
      BY <3>3, <3>4
  <2>2. Begins(Delivered("client"), Stream("client"))
    BY DEF StreamsOK
  <2> HIDE DEF b
  <2>3. Begins(Delivered("client"), Stream("client"))' /\ (Flows("client") => Flows("client")')
    BY <1>1, <1>2, <1>3, <1>4, <1>6, <2>1, <2>2, FlowsMore
  <2> QED
    BY <1>2, <1>8, <2>3, StreamsOfOthers
<1> QED
  BY <1>9, <1>10

LEMMA StreamsOfPeer ==
  ASSUME SessionInv, WrittenOK, StreamsOK, NEW r \in Sides, PeerStep(r), SessionInv', WrittenOK'
  PROVE  StreamsOK'
<1> USE DEF Sides
<1>1. /\ PipeTypes /\ ChunkOK /\ NodeTypes
      /\ Other("client") = "target" /\ Other("target") = "client"
  BY DEF SessionInv, Types, Other
<1>2. UNCHANGED <<at, chunk, listed, got, outbox, left>>
  BY DEF PeerStep, SendsBody, PeerSends, PeerShuts, PeerResets, buffer, entry, pipes
<1>3. \A s \in Sides : Delivered(s)' = Delivered(s) /\ Begins(Delivered(s), Stream(s))
  BY <1>2, DeliveredIsTold DEF StreamsOK
<1>4. CASE SendsBody(r)
  <2>1. PICK b \in Talk : PeerSends(r, b)
    BY <1>4, TalkFacts DEF SendsBody
  <2> DEFINE o == Other(r)
             c == <<b>>
  <2>2. c \in Seq(Pieces)
    <3>1. b \in Pieces
      BY <2>1, TalkIsPieces
    <3> QED
      BY <3>1
  <2>3. /\ peer[r] = "open" /\ UNCHANGED peer /\ o \in Sides /\ Other(o) = r /\ o # r
        /\ sent' = [sent EXCEPT ![r] = Append(@, b)] /\ inbox' = [inbox EXCEPT ![r] = Append(@, b)]
    BY <1>1, <2>1 DEF PeerSends
  <2>4. /\ sent[r] \in Seq(Pieces) /\ inbox[r] \in Seq(Pieces) /\ left \in Seq(Pieces)
    BY <1>1, TalkIsPieces DEF PipeTypes, NodeTypes
  <2>5. Append(sent[r], b) = sent[r] \o c /\ Append(inbox[r], b) = inbox[r] \o c
    <3> DEFINE p == sent[r]
               q == inbox[r]
    <3>1. p \in Seq(Pieces) /\ q \in Seq(Pieces) /\ b \in Pieces
      BY <2>1, <2>4, TalkIsPieces
    <3> HIDE DEF p, q
    <3> QED
      BY <3>1, AppendIsConcat
  <2> HIDE DEF c
  <2>6. /\ sent'[r] = sent[r] \o c /\ inbox'[r] = inbox[r] \o c
        /\ sent'[o] = sent[o] /\ inbox'[o] = inbox[o]
    BY <1>1, <2>3, <2>5 DEF PipeTypes
  <2>7. Stream(r)' = Stream(r)
    BY <1>1, <1>2, <2>6 DEF Stream
  <2>8. Stream(o)' = Stream(o) \o c
    <3>1. CASE r = "client"
      BY <1>1, <2>6, <3>1 DEF Stream
    <3>2. CASE r = "target"
      <4> DEFINE p == left
                 q == sent["target"]
      <4>1. p \in Seq(Pieces) /\ q \in Seq(Pieces)
        BY <2>4, <3>2
      <4>2. Stream(o) = p \o q /\ Stream(o)' = p \o (q \o c)
        BY <1>1, <1>2, <2>6, <3>2 DEF Stream
      <4> HIDE DEF p, q
      <4>3. \A u, v, x \in Seq(Pieces) : (u \o v) \o x = u \o (v \o x)
        BY Associates
      <4>4. (p \o q) \o c = p \o (q \o c)
        BY <2>2, <4>1, <4>3
      <4> QED
        BY <4>2, <4>4
    <3> QED
      BY <3>1, <3>2
  <2>9. Begins(Delivered(r), Stream(r))' /\ (Flows(r) => Flows(r)')
    BY <1>2, <1>3, <2>3, <2>6, <2>7, FlowsKept, HeldStays DEF Begins
  <2>10. Begins(Delivered(o), Stream(o))' /\ (Flows(o) => Flows(o)')
    BY <1>1, <1>2, <1>3, <2>2, <2>3, <2>6, <2>8, FlowsMore
  <2>11. \A s \in Sides : Begins(Delivered(s), Stream(s))' /\ (Flows(s) => Flows(s)')
    BY <1>1, <2>9, <2>10
  <2> QED
    BY <1>2, <2>3, <2>11, StreamsOfOthers
<1>5. CASE PeerShuts(r) \/ PeerResets(r)
  <2>1. sent' = sent /\ (peer["target"] = "reset" => peer'["target"] = "reset")
    BY <1>1, <1>5 DEF PeerShuts, PeerResets, PipeTypes
  <2>2. \A s \in Sides : Stream(s)' = Stream(s)
    BY <1>2, <2>1 DEF Stream
  <2>3. \A s \in Sides : Flows(s) => Flows(s)'
    BY <1>1, <1>2, <1>3, <1>5, <2>2, FlowsCut
  <2> QED
    BY <1>2, <1>3, <2>1, <2>2, <2>3, StreamsOfOthers DEF Begins
<1> QED
  BY <1>4, <1>5 DEF PeerStep

-----------------------------------------------------------------------------
(* The streams are intact.                                                 *)

StreamsInv == SessionInv /\ WrittenOK /\ StreamsOK

LEMMA StreamsStep ==
  ASSUME SessionInv, WrittenOK, StreamsOK, SessionNext
  PROVE  StreamsOK'
<1>1. SessionInv'
  BY SessionInvStep
<1>2. WrittenOK'
  BY WrittenStep
<1>3. CASE ThreadStep
  <2>1. CASE \/ Accept \/ Peek \/ Unregister \/ CloseClient \/ RecvFails \/ Reply \/ ReplyFails
             \/ Request \/ Connects \/ Start \/ Finish \/ CloseTarget
    BY <1>1, <2>1, StreamsKeptBy
  <2>2. CASE Greet \/ RecvField \/ ReadHead
    BY <1>1, <1>2, <2>2, StreamsOfInput
  <2>3. CASE SendEarly
    BY <1>1, <2>3, StreamsOfEarly
  <2>4. CASE Connecting
    BY <1>1, <1>2, <2>4, StreamsOfLink
  <2>5. CASE NotConnected
    BY <1>1, <2>5, StreamsOfFailure
  <2>6. CASE Relays
    <3>1. UNCHANGED <<left, listed>>
      BY <2>6 DEF Relays, answer, entry
    <3>2. CASE \E s \in Sides : Recv(s) \/ Send(s)
      BY <3>1, <3>2, StreamsOfRecv, StreamsOfSend
    <3> QED
      BY <1>1, <2>6, <3>2, StreamsKeptInRelay
  <2> QED
    BY <1>3, <2>1, <2>2, <2>3, <2>4, <2>5, <2>6 DEF ThreadStep
<1>4. CASE RelayFails \/ Reload \/ \E s \in Sides : Reads(s)
  BY <1>1, <1>4, StreamsKeptBy
<1>5. CASE NodeAnswers
  BY <1>1, <1>2, <1>5, StreamsOfNode
<1>6. CASE ClientStep
  BY <1>1, <1>2, <1>6, StreamsOfFields
<1>7. CASE \E s \in Sides : PeerStep(s)
  BY <1>1, <1>2, <1>7, StreamsOfPeer
<1> QED
  BY <1>3, <1>4, <1>5, <1>6, <1>7 DEF SessionNext

LEMMA StreamsInvInit == SessionInit => StreamsInv
<1> SUFFICES ASSUME SessionInit PROVE StreamsInv
  OBVIOUS
<1> USE DEF Sides
<1>1. SessionInv
  BY SessionInvInit
<1>2. /\ \A s \in Sides : sent[s] = <<>> /\ got[s] = <<>> /\ outbox[s] = <<>> /\ Stream(s) = <<>>
      /\ at = "accept"
  <2>1. <<>> \o <<>> = <<>>
    BY Concats
  <2> QED
    BY <2>1 DEF SessionInit, RelayInit, UpstreamInit, Stream
<1>3. WrittenOK
  BY <1>2, TalkFacts, ToldNothing DEF WrittenOK, FieldPoints
<1>4. \A s \in Sides : Begins(Delivered(s), Stream(s))
  BY <1>2, DeliveredIsTold, ToldNothing, BeginsAll, EmptySeq
<1>5. at \notin DownPoints \cup UpPoints \cup RelayPoints \cup {"connected", "request"}
  BY <1>2 DEF DownPoints, UpPoints, LinkPoints, SocksPoints, HttpPoints, Checked, RelayPoints
<1> QED
  BY <1>1, <1>3, <1>4, <1>5 DEF StreamsInv, StreamsOK

LEMMA StreamsInvStep == StreamsInv /\ [SessionNext]_vars => StreamsInv'
<1> SUFFICES ASSUME StreamsInv, [SessionNext]_vars PROVE StreamsInv'
  OBVIOUS
<1>1. SessionInv'
  BY SessionInvStep DEF StreamsInv
<1>2. CASE SessionNext
  BY <1>1, <1>2, WrittenStep, StreamsStep DEF StreamsInv
<1>3. CASE UNCHANGED vars
  <2> USE DEF vars, relayVars, ends, pipes, buffer, entry, answer, sockets, history, config
  <2>1. /\ UNCHANGED <<at, sent, got, outbox, inbox, peer, chunk, listed, left, speaks>>
    BY <1>3
  <2>2. Unwritten' = Unwritten /\ Unread' = Unread
    BY <2>1 DEF Unwritten, Before, Fields, Opening, Unread
  <2>3. WrittenOK'
    BY <2>1, <2>2 DEF StreamsInv, WrittenOK, Spoken
  <2>4. \A s \in Sides : Stream(s)' = Stream(s) /\ Delivered(s)' = Delivered(s)
    BY <2>1, DeliveredIsTold DEF Stream
  <2>5. \A s \in Sides : Flows(s) => Flows(s)'
    BY <2>1, <2>4, FlowsKept, HeldStays
  <2>6. StreamsOK'
    BY <2>1, <2>4, <2>5, StreamsOfOthers DEF StreamsInv, StreamsOK, Begins, Sides
  <2> QED
    BY <1>1, <2>3, <2>6 DEF StreamsInv
<1> QED
  BY <1>2, <1>3

LEMMA StreamsInvariant == SessionSpec => []StreamsInv
<1> QED
  BY StreamsInvInit, StreamsInvStep, PTL DEF SessionSpec

\* In the relay, what is held is in the buffer, and nothing is lost of the stream
\* of a peer that was not reset.
LEMMA FlowIsWhole ==
  ASSUME SessionInv, WrittenOK, NEW s \in Sides, Flows(s), at \in RelayPoints,
         peer[Other(s)] # "reset"
  PROVE  Delivered(s) \o InHand(s) \o inbox[Other(s)] = Stream(s)
<1> DEFINE d == Delivered(s)
           h == InHand(s)
           i == inbox[Other(s)]
<1>1. Held(s) = h
  BY DEF Held, InHand, EarlyKept, HeadKept, RelayPoints, LinkPoints, SocksPoints, HttpPoints
<1>2. Stream(s) = d \o (h \o (i \o <<>>))
  BY <1>1 DEF Flows
<1>3. d \in Seq(Pieces) /\ h \in Seq(Pieces) /\ i \in Seq(Pieces)
  BY <1>1, StreamTyped, HeldTyped DEF SessionInv, Types
<1> HIDE DEF d, h, i
<1>4. \A u, v, x \in Seq(Pieces) : (u \o v) \o x = u \o (v \o x)
  BY Associates
<1>5. i \o <<>> = i
  BY <1>3, Concats
<1>6. (d \o h) \o i = d \o (h \o i)
  BY <1>3, <1>4
<1> QED
  BY <1>2, <1>5, <1>6 DEF d, h, i

LEMMA StreamsAreIntact == StreamsInv => StreamsIntact
<1> SUFFICES ASSUME StreamsInv PROVE StreamsIntact
  OBVIOUS
<1> USE DEF Sides
<1>1. SessionInv /\ WrittenOK /\ StreamsOK /\ NodeTypes
  BY DEF StreamsInv, SessionInv, Types
<1>2. ASSUME NEW s \in Sides PROVE IsPrefix(Delivered(s), Stream(s))
  <2> DEFINE d == Delivered(s)
             w == Stream(s)
  <2>1. d \in Seq(Pieces) /\ Begins(d, w)
    BY <1>1, StreamTyped DEF StreamsOK
  <2> HIDE DEF d, w
  <2>2. IsPrefix(d, w)
    BY <2>1, BeginsIsPrefix
  <2> QED
    BY <2>2 DEF d, w
<1>3. ASSUME at \in RelayPoints, Sound, NEW s \in Sides
      PROVE  Delivered(s) \o InHand(s) \o inbox[Other(s)] = Stream(s)
  <2>1. peer["client"] # "reset" /\ peer["target"] # "reset" /\ Other(s) \in Sides
    BY <1>3 DEF Sound, Other
  <2>2. Flows(s)
    BY <1>1, <1>3, <2>1 DEF StreamsOK, DownPoints
  <2> QED
    BY <1>1, <1>3, <2>1, <2>2, FlowIsWhole
<1> QED
  BY <1>2, <1>3 DEF StreamsIntact

\* Whatever the peers and the node send and however they end, a socket is only
\* ever given the beginning of what is meant for it, in order and once, and in
\* the relay all of it is on its way: read too far ahead by the handshake or
\* with the header, in the buffer of a send taken in part, or not yet received.
THEOREM NothingLostOrDoubled == SessionSpec => []StreamsIntact
<1> QED
  BY StreamsInvariant, StreamsAreIntact, PTL

-----------------------------------------------------------------------------
(* The counters.                                                           *)

LEMMA WhoCounts ==
  ASSUME PointTypes, PipeTypes, Owned, InputOK, ChunkOK, SessionNext
  PROVE  \/ /\ UNCHANGED <<bytes, given>> /\ (reason = "write" => reason' = "write")
            /\ \A s \in Sides : Counting(s)' = Counting(s)
         \/ SendEarly
         \/ \E r \in Sides : Relays /\ (Recv(r) \/ Send(r) \/ SendDone(r) \/ SendBreaks(r))
<1> USE DEF SendAt, RecvAt, Counting, buffer, clock, relaying, history, Goto, Sides
<1>1. CASE ThreadStep
  <2>1. CASE \/ Accept \/ Peek \/ Unregister \/ CloseClient \/ RecvFails \/ Start \/ Finish
             \/ CloseTarget
    <3>1. UNCHANGED <<bytes, given, reason>>
      BY <2>1 DEF Accept, Peek, Unregister, CloseClient, RecvFails, Start, Finish, CloseTarget
    <3>2. at \notin {"send_client", "send_target"} /\ at' \notin {"send_client", "send_target"}
      BY <2>1 DEF Accept, Peek, Register, FirstPoint, Unregister, CloseClient, RecvFails, FieldPoints,
         Start, Finish, CloseTarget
    <3> QED
      BY <3>1, <3>2
  <2>2. CASE Reply \/ ReplyFails \/ Greet \/ ReadHead \/ Request \/ Connects \/ NotConnected
    <3>1. UNCHANGED <<bytes, given, reason>>
      BY <2>2 DEF Reply, ReplyFails, Greet, ReadHead, Request, Connects, NotConnected
    <3>2. at \notin {"send_client", "send_target"} /\ at' \notin {"send_client", "send_target"}
      BY <2>2 DEF Reply, ReplyFails, Replies, AfterReply, Greet, MethodReply, ReadHead, Request,
         Connects, Opened, NotConnected
    <3> QED
      BY <3>1, <3>2
  <2>3. CASE RecvField
    <3>1. UNCHANGED <<bytes, given, reason>> /\ at \in FieldPoints
      BY <2>3 DEF RecvField
    <3>2. at' \in {"return", "password", "say_welcome", "say_denied", "addr", "say_unsupported",
                    "port", "connecting"}
      BY <2>3, RecvFieldMoves
    <3> QED
      BY <3>1, <3>2 DEF FieldPoints
  <2>4. CASE Connecting
    <3>1. at \in LinkPoints /\ at' \in LinkPoints /\ UNCHANGED <<bytes, given, reason>>
      BY <2>4, PointsOfLink DEF Connecting
    <3> QED
      BY <3>1 DEF LinkPoints, SocksPoints, HttpPoints
  <2>5. CASE Relays /\ ~\E r \in Sides : Recv(r) \/ Send(r) \/ SendDone(r) \/ SendBreaks(r)
    <3>1. reason = "none" /\ given' = given
      BY <2>5, PointsOfRelay DEF Relays, Owned
    <3>2. CASE \E s \in Sides : SendWaits(s)
      BY <3>1, <3>2 DEF SendWaits
    <3>3. CASE \/ PollReady \/ PollTimeout \/ Account \/ HangUp
               \/ \E s \in Sides : Pass(s) \/ RecvEnds(s)
      <4>1. bytes' = bytes
        BY <3>3 DEF PollReady, PollTimeout, Account, HangUp, Pass, RecvEnds
      <4>2. at \notin {"send_client", "send_target"} /\ at' \notin {"send_client", "send_target"}
        BY <3>3 DEF PollReady, PollTimeout, Account, HangUp, Pass, RecvEnds, Ends, AfterDirection
      <4> QED
        BY <3>1, <4>1, <4>2
    <3> QED
      BY <2>5, <3>2, <3>3 DEF Relays, RelayStep
  <2> QED
    BY <1>1, <2>1, <2>2, <2>3, <2>4, <2>5 DEF ThreadStep, Relays, RelayStep
<1>2. CASE RelayFails
  BY <1>2 DEF RelayFails, PollFails, Ends, Owned, RelayPoints
<1>3. CASE \/ Reload \/ NodeAnswers \/ ClientStep
           \/ \E s \in Sides : PeerStep(s) \/ Reads(s)
  BY <1>3, OthersFrame
<1> QED
  BY <1>1, <1>2, <1>3 DEF SessionNext

\* What the relay has put on a socket, and counts when all of it is sent.
LEMMA CountsInRelay ==
  ASSUME StreamsInv, CountTypes, CountsOK, SessionNext, given' = given, NEW r \in Sides,
         Recv(r) \/ Send(r) \/ SendDone(r) \/ SendBreaks(r)
  PROVE  CountsOK'
<1> USE DEF Sides
<1>1. /\ PipeTypes /\ ChunkOK /\ NodeTypes
      /\ SessionInv /\ WrittenOK /\ StreamsOK
  BY DEF StreamsInv, SessionInv, Types
<1>2. at' \notin Unwritten'
  BY DEF Recv, Send, SendDone, SendBreaks, Goto, Ends, SendAt, RecvAt, AfterDirection, Unwritten, Before, Fields, Replies, AfterReply,
     LinkPoints, SocksPoints, HttpPoints
<1>3. \A s \in Sides : /\ Len(Delivered(s)) \in Nat /\ bytes[s] \in Nat
  BY <1>1, StreamTyped, LenProperties DEF CountTypes
<1>4. Len(chunk) \in Nat /\ size \in Nat /\ Buffer \in Nat
  BY <1>1, LenProperties, RelayAssumption DEF PipeTypes, CountTypes
<1>5. /\ at \in {"recv_client", "recv_target", "send_client", "send_target"}
      /\ at = "send_client" => at # "send_target"
  BY DEF Recv, Send, SendDone, SendBreaks, RecvAt, SendAt
<1>6. CASE Recv(r)
  <2> DEFINE q == inbox[r]
             n == Least(Len(q), Buffer)
  <2>1. /\ at = RecvAt(r) /\ at' = SendAt(Other(r)) /\ q # <<>> /\ q \in Seq(Pieces)
        /\ chunk' = First(q, n) /\ size' = n /\ UNCHANGED <<got, outbox, bytes, reason>>
    BY <1>1, <1>6 DEF Recv, Goto, ends, PipeTypes
  <2>2. n \in Nat /\ n >= 1 /\ n <= Len(q)
    <3>1. Len(q) \in Nat /\ Len(q) # 0 /\ Buffer \in Nat \ {0}
      BY <2>1, LenProperties, EmptySeq, RelayAssumption
    <3> HIDE DEF q
    <3> QED
      BY <3>1 DEF Least
  <2> HIDE DEF n
  <2>3. Len(chunk') = n
    <3>1. n \in Int
      BY <2>2
    <3>2. Len(First(q, n)) = IF n >= 1 THEN n ELSE 0
      BY <2>1, <2>2, <3>1, FirstProperties
    <3> QED
      BY <2>1, <2>2, <3>2
  <2>4. \A s \in Sides : Counting(s) = 0 /\ Counting(s)' = 0
    BY <2>1, <2>2, <2>3 DEF Counting, RecvAt, SendAt
  <2>5. \A s \in Sides : Delivered(s)' = Delivered(s)
    BY <2>1, DeliveredIsTold
  <2> QED
    BY <1>1, <1>2, <2>1, <2>4, <2>5 DEF CountsOK
<1>7. CASE Send(r)
  <2>1. at = SendAt(r) /\ UNCHANGED <<at, bytes, reason, size>>
    BY <1>7 DEF Send
  <2>2. PICK part \in Seq(Talk) :
           /\ Delivered(r)' = Delivered(r) \o part /\ chunk = part \o chunk' /\ chunk' \in Seq(Talk)
           /\ \A s \in Sides \ {r} : Delivered(s)' = Delivered(s)
    BY <1>1, <1>7, SendEffect
  <2>3. Len(chunk) = Len(part) + Len(chunk') /\ Len(part) \in Nat /\ Len(chunk') \in Nat
    BY <2>2, Concats
  <2>4. Len(Delivered(r)') = Len(Delivered(r)) + Len(part)
    <3> DEFINE d == Delivered(r)
    <3>1. d \in Seq(Talk)
      BY <1>1, StreamTyped
    <3> HIDE DEF d
    <3>2. Len(d \o part) = Len(d) + Len(part)
      BY <2>2, <3>1, Concats
    <3> QED
      BY <2>2, <3>2 DEF d
  <2>5. Counting(r)' = Counting(r) + Len(part) /\ Counting(r) \in Int
    BY <1>4, <2>1, <2>3 DEF Counting
  <2>6. \A s \in Sides \ {r} : Counting(s) = 0 /\ Counting(s)' = 0
    BY <2>1 DEF Counting, SendAt
  <2>7. ASSUME NEW s \in Sides
        PROVE  \E k \in Nat : /\ Len(Delivered(s)') = Len(Delivered(s)) + k
                              /\ Counting(s)' = Counting(s) + k
    <3>1. CASE s = r
      BY <2>3, <2>4, <2>5, <3>1
    <3>2. CASE s # r
      <4>1. /\ Delivered(s)' = Delivered(s) /\ Counting(s) = 0 /\ Counting(s)' = 0
            /\ Len(Delivered(s)) \in Nat
        BY <1>3, <2>2, <2>6, <3>2
      <4>2. Len(Delivered(s)') = Len(Delivered(s)) + 0 /\ Counting(s)' = Counting(s) + 0
        BY <4>1
      <4> QED
        BY <4>2
    <3> QED
      BY <3>1, <3>2
  <2>8. \A s \in Sides : Counting(s) \in Int
    BY <2>5, <2>6
  <2>9. ASSUME reason # "write"
        PROVE  bytes["client"] + Counting("client")' = Len(Delivered("client")')
    <3>1. PICK k \in Nat : /\ Len(Delivered("client")') = Len(Delivered("client")) + k
                           /\ Counting("client")' = Counting("client") + k
      BY <2>7
    <3> QED
      BY <1>3, <2>8, <2>9, <3>1 DEF CountsOK
  <2>10. ASSUME reason # "write"
         PROVE  bytes["target"] + Counting("target")' = Len(Delivered("target")') - given
    <3>1. PICK k \in Nat : /\ Len(Delivered("target")') = Len(Delivered("target")) + k
                           /\ Counting("target")' = Counting("target") + k
      BY <2>7
    <3> DEFINE a == bytes["target"]
               e == Counting("target")
               l == Len(Delivered("target"))
    <3>2. a + e = l - given
      BY <2>10 DEF CountsOK
    <3>3. a \in Nat /\ e \in Int /\ l \in Nat /\ given \in Nat
      BY <1>3, <2>8 DEF CountsOK
    <3> HIDE DEF a, e, l
    <3>4. a + (e + k) = (l + k) - given
      BY <3>2, <3>3
    <3> QED
      BY <3>1, <3>4 DEF a, e, l
  <2> QED
    BY <1>2, <2>1, <2>9, <2>10 DEF CountsOK
<1>8. CASE SendDone(r)
  <2>1. /\ at = SendAt(r) /\ chunk = <<>> /\ at' = AfterDirection(Other(r))
        /\ bytes' = [bytes EXCEPT ![r] = @ + size] /\ UNCHANGED <<got, outbox, reason>>
    BY <1>8 DEF SendDone, Goto, ends, pipes
  <2>2. \A s \in Sides : Counting(s) = (IF s = r THEN size ELSE 0) /\ Counting(s)' = 0
    <3>1. Len(chunk) = 0
      BY <2>1
    <3>2. at' \in {"recv_target", "account"}
      BY <2>1 DEF AfterDirection
    <3> QED
      BY <1>4, <2>1, <3>1, <3>2 DEF Counting, SendAt
  <2>3. \A s \in Sides : Delivered(s)' = Delivered(s)
    BY <2>1, DeliveredIsTold
  <2>4. \A s \in Sides : bytes'[s] + Counting(s)' = bytes[s] + Counting(s)
    BY <1>3, <1>4, <2>1, <2>2 DEF CountTypes
  <2> QED
    BY <1>1, <1>2, <2>1, <2>3, <2>4 DEF CountsOK
<1>9. CASE SendBreaks(r)
  BY <1>2, <1>9 DEF SendBreaks, Ends, CountsOK
<1> QED
  BY <1>6, <1>7, <1>8, <1>9

LEMMA CountsStep ==
  ASSUME StreamsInv, CountsOK, SessionNext
  PROVE  CountsOK'
<1> USE DEF Sides
<1>1. /\ PointTypes /\ PipeTypes /\ Owned /\ ChunkOK /\ NodeTypes /\ InputOK /\ CountTypes
      /\ SessionInv /\ WrittenOK /\ StreamsOK
  BY DEF StreamsInv, SessionInv, Types
<1>2. CASE /\ given' = given
           /\ \E r \in Sides : Recv(r) \/ Send(r) \/ SendDone(r) \/ SendBreaks(r)
  BY <1>1, <1>2, CountsInRelay
<1>3. CASE SendEarly
  <2>1. /\ at = "early" /\ at' = "connected" /\ UNCHANGED <<bytes, reason>> /\ reason = "none"
        /\ given' = IF peer["target"] = "reset" THEN given ELSE Len(EarlyData)
    BY <1>1, <1>3 DEF SendEarly, Goto, relaying, Owned
  <2>2. /\ Delivered("client")' = Delivered("client") /\ Delivered("target") = <<>>
        /\ Delivered("target")' = IF peer["target"] = "reset" THEN <<>> ELSE EarlyData
        /\ EarlyData \in Seq(Talk)
    BY <1>1, <1>3, EarlyEffect
  <2>3. \A s \in Sides : Counting(s) = 0 /\ Counting(s)' = 0
    BY <2>1 DEF Counting, SendAt
  <2>4. given = 0 /\ bytes["target"] = 0
    <3>1. given = 0 /\ bytes["target"] + Counting("target") = Len(Delivered("target")) - given
      BY <2>1 DEF CountsOK, Unwritten
    <3>2. Len(<<>>) = 0 /\ bytes["target"] \in Nat
      BY <1>1 DEF CountTypes
    <3> QED
      BY <2>2, <2>3, <3>1, <3>2
  <2>5. at' \notin Unwritten'
    BY <2>1 DEF Unwritten, Before, Fields, Replies, AfterReply, LinkPoints, SocksPoints, HttpPoints
  <2>6. Len(EarlyData) \in Nat /\ Len(<<>>) = 0 /\ given' \in Nat
    BY <2>1, <2>2, <2>4, LenProperties
  <2>7. bytes'["target"] + Counting("target")' = Len(Delivered("target")') - given'
    BY <2>1, <2>2, <2>3, <2>4, <2>6
  <2> QED
    BY <2>1, <2>2, <2>3, <2>5, <2>6, <2>7 DEF CountsOK
<1>4. CASE /\ UNCHANGED <<bytes, given>> /\ (reason = "write" => reason' = "write")
           /\ \A s \in Sides : Counting(s)' = Counting(s)
           /\ ~SendEarly /\ ~\E r \in Sides : Send(r)
  <2>1. \A s \in Sides : Delivered(s)' = Delivered(s)
    BY <1>1, <1>4, WrittenStep
  <2>2. at' \in Unwritten => at \in Unwritten
    BY <1>1, Moves
  <2>3. Unwritten' = Unwritten
    BY DEF Unwritten, Before, Fields
  <2> QED
    BY <1>4, <2>1, <2>2, <2>3 DEF CountsOK
<1>5. Relays => given' = given
  BY DEF Relays, history
<1> QED
  BY <1>1, <1>2, <1>3, <1>4, <1>5, WhoCounts

LEMMA CountsInvInit == SessionInit => CountsOK
<1> SUFFICES ASSUME SessionInit PROVE CountsOK
  OBVIOUS
<1> USE DEF Sides
<1>1. /\ \A s \in Sides : got[s] = <<>> /\ outbox[s] = <<>> /\ bytes[s] = 0
      /\ at = "accept" /\ given = 0
  BY DEF SessionInit, RelayInit
<1>2. \A s \in Sides : Delivered(s) = <<>>
  BY <1>1, DeliveredIsTold, ToldNothing
<1>3. \A s \in Sides : Counting(s) = 0
  BY <1>1 DEF Counting, SendAt
<1>4. \A s \in Sides : Len(Delivered(s)) = 0
  <2>1. Len(<<>>) = 0
    OBVIOUS
  <2> QED
    BY <1>2, <2>1
<1>5. /\ bytes["client"] + Counting("client") = Len(Delivered("client"))
      /\ bytes["target"] + Counting("target") = Len(Delivered("target")) - given
  <2>1. /\ bytes["client"] = 0 /\ bytes["target"] = 0 /\ given = 0
        /\ Counting("client") = 0 /\ Counting("target") = 0
    BY <1>1, <1>3
  <2>2. Len(Delivered("client")) = 0 /\ Len(Delivered("target")) = 0
    BY <1>4
  <2> QED
    BY <2>1, <2>2
<1> QED
  BY <1>1, <1>5 DEF CountsOK

LEMMA CountsInvStep == StreamsInv /\ CountsOK /\ [SessionNext]_vars => CountsOK'
<1> SUFFICES ASSUME StreamsInv, CountsOK, [SessionNext]_vars PROVE CountsOK'
  OBVIOUS
<1>1. CASE SessionNext
  BY <1>1, CountsStep
<1>2. CASE UNCHANGED vars
  <2> USE DEF vars, relayVars, ends, pipes, buffer, history
  <2>1. UNCHANGED <<at, got, outbox, chunk, size, bytes, reason, given>>
    BY <1>2
  <2>2. \A s \in Sides : Counting(s)' = Counting(s) /\ Delivered(s)' = Delivered(s)
    BY <2>1, DeliveredIsTold DEF Counting, SendAt
  <2>3. Unwritten' = Unwritten
    BY DEF Unwritten, Before, Fields
  <2> QED
    BY <2>1, <2>2, <2>3 DEF CountsOK, Sides
<1> QED
  BY <1>1, <1>2

LEMMA CountsAreRight == StreamsInv /\ CountsOK => CountsAgree
<1> SUFFICES ASSUME StreamsInv, CountsOK, at \notin {"send_client", "send_target"}, reason # "write"
             PROVE  /\ bytes["client"] = Len(Delivered("client"))
                    /\ bytes["target"] = Len(Delivered("target")) - given
  BY DEF CountsAgree
<1>1. bytes["client"] \in Nat /\ bytes["target"] \in Nat
  BY DEF StreamsInv, SessionInv, Types, CountTypes, Sides
<1>2. Counting("client") = 0 /\ Counting("target") = 0
  BY DEF Counting, SendAt
<1> QED
  BY <1>1, <1>2 DEF CountsOK

\* What the tracker and the statistics count is what each peer was sent by the
\* relay, over all its partial sends, until a send fails.
THEOREM CountersAreExact == SessionSpec => []CountsAgree
<1>1. SessionSpec => []CountsOK
  BY StreamsInvariant, CountsInvInit, CountsInvStep, PTL DEF SessionSpec
<1> QED
  BY <1>1, StreamsInvariant, CountsAreRight, PTL

-----------------------------------------------------------------------------
(* What a session is as a channel.                                         *)

Said(e) == IF e = "target" /\ Unlinked THEN <<>> ELSE Stream(Other(e))
CutOff(e) == peer[e] = "reset" /\ ~(e = "target" /\ Unlinked)

ChannelStep == Chan!ChannelNext \/ UNCHANGED Chan!channel

LEMMA PrefixIsPrefix == \A x, y : Chan!IsPrefix(x, y) <=> IsPrefix(x, y)
BY DEF IsPrefix, Chan!IsPrefix

LEMMA FacingIsOther == \A e : Chan!Facing(e) = Other(e)
BY DEF Chan!Facing, Other

\* A step that leaves the two streams, the ends and the verdict alone.
LEMMA StutterStep ==
  ASSUME \A e \in Sides : Said(e)' = Said(e) /\ Delivered(e)' = Delivered(e) /\ (CutOff(e)' <=> CutOff(e)),
         reason' = reason
  PROVE  ChannelStep
BY DEF ChannelStep, Chan!channel, Said, CutOff

LEMMA SayStepOf ==
  ASSUME NEW e \in Sides, Said(e)' = Said(e) \/ IsPrefix(Said(e), Said(e)'),
         \A f \in Sides \ {e} : Said(f)' = Said(f) /\ (CutOff(f)' <=> CutOff(f)),
         \A f \in Sides : Delivered(f)' = Delivered(f),
         CutOff(e) => CutOff(e)', reason' = reason
  PROVE  ChannelStep
<1> DEFINE c == {s \in Sides : CutOff(s)}
<1>1. c' \in {c, c \cup {e}}
  OBVIOUS
<1>2. CASE Said(e)' = Said(e)
  <2>1. CASE c' = c
    BY <1>2, <2>1, StutterStep
  <2>2. CASE c' = c \cup {e}
    <3>1. Chan!Cut(e)
      BY <1>2, <2>2 DEF Chan!Cut, Said, CutOff
    <3> QED
      BY <3>1 DEF ChannelStep, Chan!ChannelNext
  <2> QED
    BY <1>1, <2>1, <2>2
<1>3. CASE Said(e)' # Said(e)
  <2>1. Chan!Say(e)
    BY <1>1, <1>3, PrefixIsPrefix DEF Chan!Say, Said, CutOff
  <2> QED
    BY <2>1 DEF ChannelStep, Chan!ChannelNext
<1> QED
  BY <1>2, <1>3

LEMMA GiveStepOf ==
  ASSUME NEW e \in Sides, reason = "none", reason' = reason,
         \A f \in Sides : Said(f)' = Said(f) /\ (CutOff(f)' <=> CutOff(f)),
         \A f \in Sides \ {e} : Delivered(f)' = Delivered(f),
         IsPrefix(Delivered(e), Delivered(e)'), IsPrefix(Delivered(e)', Said(Other(e)))
  PROVE  ChannelStep
<1>1. CASE Delivered(e)' = Delivered(e)
  BY <1>1, StutterStep
<1>2. CASE Delivered(e)' # Delivered(e)
  <2>1. Other(e) \in Sides
    BY DEF Other, Sides
  <2>2. Chan!IsPrefix(Delivered(e), Delivered(e)') /\ Chan!IsPrefix(Delivered(e)', Said(Other(e)))
    BY PrefixIsPrefix
  <2>3. Chan!Facing(e) = Other(e)
    BY FacingIsOther
  <2> DEFINE said == [s \in Sides |-> IF s = "target" /\ Unlinked THEN <<>> ELSE Stream(Other(s))]
             heard == [s \in Sides |-> Delivered(s)]
             cut == {s \in Sides : peer[s] = "reset" /\ ~(s = "target" /\ Unlinked)}
             over == CASE reason = "none" -> "no" [] reason \in Sides -> reason
                       [] OTHER -> "broken"
  <2>4. /\ heard[e] = Delivered(e) /\ heard'[e] = Delivered(e)'
        /\ said[Chan!Facing(e)] = Said(Other(e))
    BY <2>1, <2>3 DEF Said
  <2>5. heard' = [heard EXCEPT ![e] = heard'[e]]
    OBVIOUS
  <2>6. said' = said
    BY DEF Said
  <2>7. cut' = cut
    BY DEF CutOff
  <2>8. over' = over /\ over = "no"
    BY DEF Sides
  <2>9. heard'[e] # heard[e]
    BY <1>2, <2>4
  <2>10. Chan!IsPrefix(heard[e], heard'[e]) /\ Chan!IsPrefix(heard'[e], said[Chan!Facing(e)])
    BY <2>2, <2>4
  <2>11. Chan!Give(e)
    BY <2>5, <2>6, <2>7, <2>8, <2>9, <2>10 DEF Chan!Give
  <2> QED
    BY <2>11 DEF ChannelStep, Chan!ChannelNext
<1> QED
  BY <1>1, <1>2

LEMMA EndStepOf ==
  ASSUME reason = "none", reason' # "none",
         \A f \in Sides : Said(f)' = Said(f) /\ (CutOff(f)' <=> CutOff(f)) /\ Delivered(f)' = Delivered(f),
         reason' \in Sides => \/ Delivered(Other(reason')) = Said(reason')
                              \/ CutOff(Other(reason'))
  PROVE  ChannelStep
<1>1. CASE reason' \in Sides
  <2>1. Other(reason') \in Sides
    BY <1>1 DEF Other, Sides
  <2>2. Chan!Close(reason')
    BY <1>1, <2>1, FacingIsOther DEF Chan!Close, Said, CutOff, Sides
  <2> QED
    BY <1>1, <2>2 DEF ChannelStep, Chan!ChannelNext
<1>2. CASE reason' \notin Sides
  <2>1. Chan!Break
    BY <1>2 DEF Chan!Break, Said, CutOff, Sides
  <2> QED
    BY <2>1 DEF ChannelStep, Chan!ChannelNext
<1> QED
  BY <1>1, <1>2

-----------------------------------------------------------------------------
(* The steps of a session as steps of the channel.                         *)

LEMMA UnlinkedKept ==
  ASSUME PointTypes, PipeTypes, Owned, InputOK, ChunkOK,
         \/ Accept \/ Peek \/ Unregister \/ CloseClient \/ RecvFails \/ Reply \/ ReplyFails
         \/ Greet \/ RecvField \/ ReadHead \/ Request \/ SendEarly \/ Connects \/ Start \/ Finish
         \/ CloseTarget \/ Relays \/ RelayFails \/ Reload \/ NodeAnswers \/ ClientStep
         \/ \E s \in Sides : PeerStep(s) \/ Reads(s)
  PROVE  (Unlinked' <=> Unlinked) \/ at \in Before
<1> USE DEF Unlinked, Before, RelayPoints, LinkPoints, SocksPoints, HttpPoints, Checked,
            FieldPoints, Fields, Replies, AfterReply, Goto
<1>1. CASE \/ Accept \/ Peek \/ Unregister \/ CloseClient \/ RecvFails \/ Start \/ Finish \/ CloseTarget
  BY <1>1 DEF Accept, Peek, Register, FirstPoint, Unregister, CloseClient, RecvFails, Start, Finish,
     CloseTarget
<1>2. CASE Reply \/ ReplyFails
  BY <1>2 DEF Reply, ReplyFails
<1>3. CASE Greet \/ RecvField \/ ReadHead \/ Request
  BY <1>3 DEF Greet, RecvField, ReadHead, Request
<1>4. CASE SendEarly \/ Connects
  BY <1>4 DEF SendEarly, Connects, Opened
<1>5. CASE Relays \/ RelayFails
  BY <1>5, PointsOfRelay DEF InRelay
<1>6. CASE \/ Reload \/ NodeAnswers \/ ClientStep
           \/ \E s \in Sides : PeerStep(s) \/ Reads(s)
  BY <1>6, OthersFrame
<1> QED
  BY <1>1, <1>2, <1>3, <1>4, <1>5, <1>6

LEMMA SaidKept ==
  ASSUME NodeOK, (Unlinked' <=> Unlinked) \/ at \in Before, UNCHANGED <<sent, left, peer>>
  PROVE  \A e \in Sides : Said(e)' = Said(e) /\ (CutOff(e)' <=> CutOff(e))
<1>1. \A e \in Sides : Stream(Other(e))' = Stream(Other(e))
  BY DEF Stream
<1>2. CASE Unlinked' <=> Unlinked
  BY <1>1, <1>2 DEF Said, CutOff
<1>3. CASE at \in Before
  <2>1. peer["target"] = "open" /\ left = <<>> /\ sent["target"] = <<>>
    BY <1>3 DEF NodeOK
  <2>2. <<>> \o <<>> = <<>>
    BY Concats
  <2>3. Stream(Other("target")) = <<>>
    BY <2>1, <2>2 DEF Stream, Other, Sides
  <2> QED
    BY <1>1, <2>1, <2>3 DEF Said, CutOff, Sides
<1> QED
  BY <1>2, <1>3

LEMMA ChannelOfHandlers ==
  ASSUME StreamsInv,
         \/ Accept \/ Peek \/ Unregister \/ CloseClient \/ RecvFails \/ Reply \/ ReplyFails
         \/ Greet \/ RecvField \/ ReadHead \/ Request \/ Connects \/ Start \/ Finish \/ CloseTarget
         \/ Reload \/ \E r \in Sides : Reads(r)
  PROVE  ChannelStep
<1> USE DEF ends, pipes, answer, relaying
<1>1. /\ PointTypes /\ PipeTypes /\ Owned /\ InputOK /\ ChunkOK /\ NodeOK /\ SessionInv /\ WrittenOK
  BY DEF StreamsInv, SessionInv, Types
<1>2. UNCHANGED <<sent, left, peer, reason>>
  BY DEF Accept, Peek, Unregister, CloseClient, RecvFails, Reply, ReplyFails, Greet, RecvField,
     ReadHead, Request, Connects, ForgetsAttempts, Start, Finish, CloseTarget, Reload, Reads,
     PeerReads, relayVars
<1>3. \A s \in Sides : Delivered(s)' = Delivered(s)
  <2>1. CASE Reply
    BY <1>1, <2>1, ReplyEffect
  <2>2. CASE \E r \in Sides : Reads(r)
    BY <1>1, <2>2, ReadsEffect
  <2>3. CASE ~Reply /\ ~\E r \in Sides : Reads(r)
    <3>1. UNCHANGED <<got, outbox>>
      BY <2>3 DEF Accept, Peek, Unregister, CloseClient, RecvFails, ReplyFails, Greet, RecvField,
         ReadHead, Request, Connects, Start, Finish, CloseTarget, Reload, relayVars
    <3> QED
      BY <3>1, DeliveredIsTold
  <2> QED
    BY <2>1, <2>2, <2>3
<1>4. \A e \in Sides : Said(e)' = Said(e) /\ (CutOff(e)' <=> CutOff(e))
  BY <1>1, <1>2, SaidKept, UnlinkedKept
<1> QED
  BY <1>2, <1>3, <1>4, StutterStep


LEMMA ChannelOfRelay ==
  ASSUME StreamsInv, StreamsInv', Relays \/ RelayFails
  PROVE  ChannelStep
<1> USE DEF Sides
<1>1. /\ PointTypes /\ PipeTypes /\ Owned /\ InputOK /\ ChunkOK /\ NodeOK /\ NodeTypes
      /\ SessionInv /\ WrittenOK /\ StreamsOK /\ WrittenOK' /\ StreamsOK' /\ NodeTypes'
  BY DEF StreamsInv, SessionInv, Types
<1>2. /\ at \in RelayPoints /\ UNCHANGED <<sent, left, peer>> /\ reason = "none"
      /\ reason' = reason \/ at' = "relayed"
  BY <1>1, RelayReceives, PointsOfRelay DEF Relays, RelayFails, answer, Owned
<1>3. \A e \in Sides : Said(e)' = Said(e) /\ (CutOff(e)' <=> CutOff(e))
  BY <1>1, <1>2, SaidKept, UnlinkedKept
<1>4. \A e \in Sides : Said(e) = Stream(Other(e)) /\ Other(e) \in Sides /\ Other(Other(e)) = e
  BY <1>2 DEF Said, Unlinked, RelayPoints, LinkPoints, SocksPoints, HttpPoints, Other
<1>5. CASE \E r \in Sides : Send(r)
  <2>1. PICK r \in Sides : Send(r)
    BY <1>5
  <2>2. reason' = reason /\ \A s \in Sides \ {r} : Delivered(s)' = Delivered(s)
    BY <1>1, <2>1, SendEffect DEF Send
  <2>3. PICK part \in Seq(Talk) : Delivered(r)' = Delivered(r) \o part
    BY <1>1, <2>1, SendEffect
  <2>4. Begins(Delivered(r), Delivered(r)') /\ Delivered(r) \in Seq(Pieces)
        /\ Delivered(r)' \in Seq(Pieces)
    <3> DEFINE d == Delivered(r)
    <3>1. d \in Seq(Pieces) /\ part \in Seq(Pieces) /\ Delivered(r)' = d \o part
      BY <1>1, <2>3, StreamTyped, TalkIsPieces
    <3> HIDE DEF d
    <3>2. d \o part \in Seq(Pieces) /\ Begins(d, d \o part)
      BY <3>1, Concats DEF Begins
    <3> QED
      BY <3>1, <3>2 DEF d
  <2>5. Begins(Delivered(r)', Stream(r)')
    BY <1>1 DEF StreamsOK, Begins
  <2>6. Stream(r)' = Said(Other(r))
    BY <1>2, <1>4 DEF Stream
  <2>7. IsPrefix(Delivered(r), Delivered(r)') /\ IsPrefix(Delivered(r)', Said(Other(r)))
    <3> DEFINE x == Delivered(r)
               y == Delivered(r)'
               z == Stream(r)'
    <3>1. x \in Seq(Pieces) /\ y \in Seq(Pieces) /\ Begins(x, y) /\ Begins(y, z)
      BY <2>4, <2>5
    <3> HIDE DEF x, y, z
    <3>2. IsPrefix(x, y) /\ IsPrefix(y, z)
      BY <3>1, BeginsIsPrefix
    <3> QED
      BY <2>6, <3>2 DEF x, y, z
  <2> QED
    BY <1>2, <1>3, <2>2, <2>7, GiveStepOf
<1>6. CASE ~\E r \in Sides : Send(r)
  <2>1. UNCHANGED <<got, outbox>>
    BY <1>6 DEF Relays, RelayStep, RelayFails, PollFails, PollReady, PollTimeout, Account, HangUp, Pass,
       Recv, RecvEnds, SendWaits, SendBreaks, SendDone, ends, pipes
  <2>2. \A s \in Sides : Delivered(s)' = Delivered(s)
    BY <2>1, DeliveredIsTold
  <2>3. CASE reason' = reason
    BY <1>3, <2>2, <2>3, StutterStep
  <2>4. CASE reason' # reason
    <3>1. ASSUME reason' \in Sides
          PROVE  \/ Delivered(Other(reason')) = Said(reason')
                 \/ CutOff(Other(reason'))
      <4> DEFINE s == reason'
                 o == Other(s)
      <4>1. RecvEnds(s) /\ peer[s] = "fin"
        BY <1>2, <2>4, <3>1 DEF Relays, RelayStep, RelayFails, PollFails, PollReady, PollTimeout, Account,
           HangUp, Pass, Recv, RecvEnds, Send, SendWaits, SendBreaks, SendDone, Ends
      <4>2. inbox[s] = <<>> /\ at = RecvAt(s)
        BY <4>1 DEF RecvEnds
      <4>3. o \in Sides /\ Other(o) = s /\ Said(s) = Stream(o)
        BY <1>4, <3>1
      <4>4. CASE Flows(o)
        <5>1. Delivered(o) \o InHand(o) \o inbox[s] = Stream(o)
          BY <1>1, <1>2, <4>1, <4>3, <4>4, FlowIsWhole
        <5>2. InHand(o) = <<>>
          BY <3>1, <4>2, <4>3 DEF InHand, RecvAt, SendAt
        <5>3. Delivered(o) \o <<>> = Delivered(o)
          <6> DEFINE d == Delivered(o)
          <6>1. d \in Seq(Pieces)
            BY <1>1, <4>3, StreamTyped
          <6> HIDE DEF d
          <6> QED
            BY <6>1, Concats
        <5> QED
          BY <4>2, <4>3, <5>1, <5>2, <5>3
      <4>5. CASE ~Flows(o)
        <5>1. o = "target" /\ peer["target"] = "reset"
          BY <1>1, <1>2, <4>3, <4>5 DEF StreamsOK, DownPoints
        <5> QED
          BY <1>2, <5>1 DEF CutOff, Unlinked, RelayPoints, LinkPoints, SocksPoints, HttpPoints
      <4> QED
        BY <4>4, <4>5
    <3> QED
      BY <1>2, <1>3, <2>2, <2>4, <3>1, EndStepOf
  <2> QED
    BY <2>3, <2>4
<1> QED
  BY <1>5, <1>6

LEMMA ChannelOfEarly ==
  ASSUME StreamsInv, StreamsInv', SendEarly
  PROVE  ChannelStep
<1> USE DEF Sides
<1>1. /\ PointTypes /\ PipeTypes /\ Owned /\ InputOK /\ ChunkOK /\ NodeOK /\ NodeTypes
      /\ SessionInv /\ WrittenOK /\ StreamsOK /\ StreamsOK'
  BY DEF StreamsInv, SessionInv, Types
<1>2. /\ at = "early" /\ UNCHANGED <<sent, left, peer, reason>> /\ reason = "none"
  BY <1>1 DEF SendEarly, ends, answer, relaying, Owned
<1>3. \A e \in Sides : Said(e)' = Said(e) /\ (CutOff(e)' <=> CutOff(e))
  BY <1>1, <1>2, SaidKept, UnlinkedKept
<1>4. Said("client") = Stream("target") /\ Other("target") = "client"
  BY DEF Said, Other
<1>5. Delivered("client")' = Delivered("client") /\ Delivered("target") = <<>>
      /\ EarlyData \in Seq(Pieces)
      /\ Delivered("target")' = IF peer["target"] = "reset" THEN <<>> ELSE EarlyData
  BY <1>1, EarlyEffect, TalkIsPieces
<1> DEFINE y == Delivered("target")'
           z == Stream("target")'
<1>6. y \in Seq(Pieces) /\ Begins(y, z) /\ z = Said("client") /\ <<>> \in Seq(Pieces)
  BY <1>1, <1>2, <1>4, <1>5, EmptySeq DEF StreamsOK, Begins, Stream
<1> HIDE DEF y, z
<1>7. IsPrefix(<<>>, y) /\ IsPrefix(y, z)
  BY <1>6, BeginsAll, BeginsIsPrefix
<1>8. IsPrefix(Delivered("target"), Delivered("target")')
      /\ IsPrefix(Delivered("target")', Said(Other("target")))
  BY <1>4, <1>5, <1>6, <1>7 DEF y, z
<1> QED
  BY <1>2, <1>3, <1>5, <1>8, GiveStepOf

\* The target is heard of when the connection is made.
LEMMA ChannelOfLink ==
  ASSUME StreamsInv, StreamsInv', Connecting \/ NotConnected
  PROVE  ChannelStep
<1> USE DEF Sides
<1>1. /\ PipeTypes /\ InputOK /\ NodeOK /\ WrittenOK' /\ NodeTypes'
  BY DEF StreamsInv, SessionInv, Types
<1>2. /\ Unlinked /\ reason' = reason
      /\ sent'["client"] = sent["client"] /\ peer'["client"] = peer["client"]
      /\ UNCHANGED <<got, outbox>>
  <2>1. CASE Connecting
    BY <1>1, <2>1, PointsOfLink, LinkClientSide DEF Unlinked
  <2>2. CASE NotConnected
    BY <1>1, <2>2 DEF NotConnected, Unlinked, LinkPoints, relaying, pipes, PipeTypes
  <2> QED
    BY <2>1, <2>2
<1>3. \A s \in Sides : Delivered(s)' = Delivered(s)
  BY <1>2, DeliveredIsTold
<1>4. Said("client")' = Said("client") /\ (CutOff("client")' <=> CutOff("client"))
  BY <1>2 DEF Said, CutOff, Stream, Other
<1>5. Said("target") = <<>> /\ ~CutOff("target")
  BY <1>2 DEF Said, CutOff
<1>6. Said("target")' \in Seq(Pieces)
  <2>1. Stream("client")' \in Seq(Pieces)
    <3>1. left' \in Seq(Pieces) /\ sent'["target"] \in Seq(Pieces)
      BY <1>1, TalkIsPieces DEF NodeTypes, WrittenOK
    <3>2. left' \o sent'["target"] \in Seq(Pieces)
      BY <3>1, Concats
    <3> QED
      BY <3>2 DEF Stream
  <2> QED
    BY <2>1, EmptySeq DEF Said, Other
<1>7. IsPrefix(Said("target"), Said("target")')
  <2> DEFINE y == Said("target")'
  <2>1. y \in Seq(Pieces) /\ <<>> \in Seq(Pieces)
    BY <1>6, EmptySeq
  <2> HIDE DEF y
  <2>2. IsPrefix(<<>>, y)
    BY <2>1, BeginsAll, BeginsIsPrefix
  <2> QED
    BY <1>5, <2>2 DEF y
<1>8. \A f \in Sides \ {"target"} : Said(f)' = Said(f) /\ (CutOff(f)' <=> CutOff(f))
  BY <1>4
<1> QED
  BY <1>2, <1>3, <1>5, <1>7, <1>8, SayStepOf

\* A request is the first that a client says; what else is said comes behind.
LEMMA AppendLast ==
  ASSUME NEW p \in Seq(Pieces), NEW q \in Seq(Pieces), NEW x \in Pieces
  PROVE  Append(p \o q, x) = p \o Append(q, x)
<1>1. <<x>> \in Seq(Pieces) /\ p \o q \in Seq(Pieces)
  BY ConcatProperties
<1>2. Append(p \o q, x) = (p \o q) \o <<x>> /\ Append(q, x) = q \o <<x>>
  BY <1>1, AppendIsConcat
<1> QED
  BY <1>1, <1>2, ConcatAssociative

LEMMA ChannelOfPeers ==
  ASSUME StreamsInv, StreamsInv', ClientStep \/ NodeAnswers \/ \E s \in Sides : PeerStep(s)
  PROVE  ChannelStep
<1> USE DEF Sides
<1>1. /\ PointTypes /\ PipeTypes /\ Owned /\ InputOK /\ ChunkOK /\ NodeOK /\ NodeTypes
      /\ WrittenOK /\ WrittenOK' /\ NodeTypes'
      /\ Other("client") = "target" /\ Other("target") = "client"
  BY DEF StreamsInv, SessionInv, Types, Other
<1>2. UNCHANGED <<at, got, outbox, reason>> /\ (Unlinked' <=> Unlinked)
  <2>1. UNCHANGED <<at, reason>>
    BY OthersFrame
  <2>2. UNCHANGED <<got, outbox>>
    BY DEF ClientStep, SendsField, NodeAnswers, NodeSends, PeerStep, SendsBody, PeerSends, PeerShuts,
       PeerResets, ends, pipes
  <2> QED
    BY <2>1, <2>2 DEF Unlinked
<1>3. \A s \in Sides : Delivered(s)' = Delivered(s)
  BY <1>2, DeliveredIsTold
<1>4. ASSUME NEW x, NEW b, x \in Seq(Pieces), b \in Pieces
      PROVE  IsPrefix(x, Append(x, b))
  <2>1. <<b>> \in Seq(Pieces) /\ Append(x, b) = x \o <<b>>
    BY <1>4, AppendIsConcat
  <2>2. Begins(x, Append(x, b))
    BY <2>1 DEF Begins
  <2> QED
    BY <1>4, <2>2, BeginsIsPrefix
<1>5. CASE ClientStep
  <2>1. UNCHANGED <<peer, left>> /\ sent'["target"] = sent["target"]
    BY <1>1, <1>5 DEF ClientStep, SendsField, answer, PipeTypes
  <2>2. Said("target")' = Said("target") /\ \A e \in Sides : CutOff(e)' <=> CutOff(e)
    BY <1>1, <1>2, <2>1 DEF Said, Stream, CutOff
  <2>3. Said("client")' = Said("client") \/ Said("client") = <<>>
    <3>1. sent' = sent \/ Unread \in {<<>>, <<"part">>}
      BY <1>1, <1>5 DEF ClientStep, SendsField, Unread, PipeTypes
    <3>2. at \in DOMAIN Fields /\ peer["client"] # "reset"
      BY <1>5 DEF ClientStep, SendsField
    <3>3. Unread \in {<<>>, <<"part">>} => sent["client"] = <<>>
      <4>1. ASSUME Unread \in {<<>>, <<"part">>} PROVE ~Asks(Unread, Fields[at])
        BY <3>2, <4>1, NothingIsNoField
      <4> QED
        BY <1>1, <3>2, <4>1 DEF InputOK, NothingAsked
    <3>4. Said("client") = sent["client"] /\ Said("client")' = sent'["client"]
      BY <1>1 DEF Said, Stream
    <3> QED
      BY <3>1, <3>3, <3>4
  <2>4. Said("client") = <<>> => IsPrefix(Said("client"), Said("client")')
    <3> DEFINE y == Said("client")'
    <3>1. y \in Seq(Pieces) /\ <<>> \in Seq(Pieces)
      BY <1>1, TalkIsPieces, EmptySeq DEF Said, Stream, WrittenOK
    <3> HIDE DEF y
    <3>2. IsPrefix(<<>>, y)
      BY <3>1, BeginsAll, BeginsIsPrefix
    <3> QED
      BY <3>2 DEF y
  <2> QED
    BY <1>2, <1>3, <2>2, <2>3, <2>4, SayStepOf
<1>6. CASE NodeAnswers
  <2>1. /\ UNCHANGED <<peer, sent>> /\ owes # <<>>
        /\ left' = IF Unlinked THEN left ELSE Append(left, Head(owes))
    BY <1>6 DEF NodeAnswers, NodeSends, ends, Unlinked
  <2>2. Said("client")' = Said("client") /\ \A e \in Sides : CutOff(e)' <=> CutOff(e)
    BY <1>1, <1>2, <2>1 DEF Said, Stream, CutOff
  <2>3. Said("target")' = Said("target") \/ IsPrefix(Said("target"), Said("target")')
    <3>1. CASE Unlinked
      BY <1>2, <3>1 DEF Said
    <3>2. CASE ~Unlinked
      <4> DEFINE x == left
                 b == Head(owes)
      <4>1. sent["target"] = <<>> /\ left' = Append(x, b)
        BY <1>1, <2>1, <3>2 DEF NodeOK
      <4>2. x \in Seq(Pieces) /\ b \in Pieces
        <5>1. b \in AnswerPieces /\ x \in Seq(Pieces)
          BY <1>1, <2>1, HeadTailProperties, TalkIsPieces DEF NodeTypes
        <5> QED
          BY <5>1 DEF Pieces
      <4>3. Said("target") = x \o <<>> /\ Said("target")' = Append(x, b) \o <<>>
        BY <1>1, <1>2, <2>1, <3>2, <4>1 DEF Said, Stream
      <4> HIDE DEF x, b
      <4>4. Append(x, b) \in Seq(Pieces)
        BY <4>2, AppendProperties
      <4>5. x \o <<>> = x /\ Append(x, b) \o <<>> = Append(x, b)
        BY <4>2, <4>4, Concats
      <4> QED
        BY <1>4, <4>2, <4>3, <4>5
    <3> QED
      BY <3>1, <3>2
  <2> QED
    BY <1>2, <1>3, <2>2, <2>3, SayStepOf
<1>7. ASSUME NEW s \in Sides, PeerStep(s), SendsBody(s) PROVE ChannelStep
  <2>1. PICK b \in Talk : PeerSends(s, b)
    BY <1>7, TalkFacts DEF SendsBody
  <2>2. /\ UNCHANGED <<peer, left>> /\ sent' = [sent EXCEPT ![s] = Append(@, b)]
        /\ b \in Pieces /\ sent[s] \in Seq(Pieces) /\ left \in Seq(Pieces)
    BY <1>1, <1>7, <2>1, TalkIsPieces DEF PeerStep, SendsBody, PeerSends, PipeTypes, NodeTypes
  <2>3. \A e \in Sides : CutOff(e)' <=> CutOff(e)
    BY <1>2, <2>2 DEF CutOff
  <2>4. sent'[s] = Append(sent[s], b) /\ \A f \in Sides \ {s} : sent'[f] = sent[f]
    BY <1>1, <2>2 DEF PipeTypes
  <2>5. \A f \in Sides \ {s} : Said(f)' = Said(f)
    BY <1>1, <1>2, <2>2, <2>4 DEF Said, Stream
  <2>6. Said(s)' = Said(s) \/ IsPrefix(Said(s), Said(s)')
    <3>1. CASE s = "client"
      BY <1>1, <1>4, <2>2, <2>4, <3>1 DEF Said, Stream
    <3>2. CASE s = "target" /\ Unlinked
      BY <1>2, <3>2 DEF Said
    <3>3. CASE s = "target" /\ ~Unlinked
      <4> DEFINE x == left
                 y == sent["target"]
                 w == x \o y
      <4>1. Said(s) = w /\ Said(s)' = x \o Append(y, b)
        BY <1>1, <1>2, <2>2, <2>4, <3>3 DEF Said, Stream
      <4>2. x \in Seq(Pieces) /\ y \in Seq(Pieces)
        BY <2>2, <3>3
      <4> HIDE DEF x, y
      <4>3. b \in Pieces
        BY <2>2
      <4>4. Append(w, b) = x \o Append(y, b)
        BY <4>2, <4>3, AppendLast
      <4>5. w \in Seq(Pieces)
        BY <4>2, Concats
      <4> HIDE DEF w
      <4>6. IsPrefix(w, Append(w, b))
        BY <1>4, <4>3, <4>5
      <4> QED
        BY <4>1, <4>4, <4>6
    <3> QED
      BY <3>1, <3>2, <3>3
  <2> QED
    BY <1>2, <1>3, <2>3, <2>5, <2>6, SayStepOf
<1>8. ASSUME NEW s \in Sides, PeerStep(s), PeerShuts(s) \/ PeerResets(s) PROVE ChannelStep
  <2>1. UNCHANGED <<sent, left>>
    BY <1>8 DEF PeerStep, PeerShuts, PeerResets
  <2>2. \A f \in Sides : peer[f] = "reset" => peer'[f] = "reset"
    BY <1>1, <1>8 DEF PeerShuts, PeerResets, PipeTypes
  <2>3. \A f \in Sides \ {s} : peer'[f] = peer[f]
    BY <1>1, <1>8 DEF PeerShuts, PeerResets, PipeTypes
  <2>4. \A f \in Sides : Said(f)' = Said(f)
    BY <1>1, <1>2, <2>1 DEF Said, Stream
  <2>5. (\A f \in Sides \ {s} : CutOff(f)' <=> CutOff(f)) /\ (CutOff(s) => CutOff(s)')
    BY <1>2, <2>2, <2>3 DEF CutOff
  <2> QED
    BY <1>2, <1>3, <2>4, <2>5, SayStepOf
<1> QED
  BY <1>5, <1>6, <1>7, <1>8 DEF PeerStep

LEMMA ChannelOfStep ==
  ASSUME StreamsInv, [SessionNext]_vars
  PROVE  [Chan!ChannelNext]_(Chan!channel)
<1> SUFFICES ChannelStep
  BY DEF ChannelStep
<1>1. StreamsInv'
  BY StreamsInvStep
<1>2. CASE UNCHANGED vars
  <2>1. UNCHANGED <<at, sent, got, outbox, peer, left, reason>>
    BY <1>2 DEF vars, relayVars, ends, pipes, answer
  <2>2. \A s \in Sides : Stream(s)' = Stream(s) /\ Delivered(s)' = Delivered(s)
    BY <2>1, DeliveredIsTold DEF Stream
  <2>3. \A e \in Sides : Said(e)' = Said(e) /\ (CutOff(e)' <=> CutOff(e))
    BY <2>1, <2>2 DEF Said, CutOff, Unlinked, Stream
  <2> QED
    BY <2>1, <2>2, <2>3, StutterStep
<1>3. CASE SessionNext
  <2>1. CASE ThreadStep
    <3>1. CASE \/ Accept \/ Peek \/ Unregister \/ CloseClient \/ RecvFails \/ Reply \/ ReplyFails
               \/ Greet \/ RecvField \/ ReadHead \/ Request \/ Connects \/ Start \/ Finish \/ CloseTarget
      BY <1>1, <3>1, ChannelOfHandlers
    <3>2. CASE Relays
      BY <1>1, <3>2, ChannelOfRelay
    <3>3. CASE SendEarly
      BY <1>1, <3>3, ChannelOfEarly
    <3>4. CASE Connecting \/ NotConnected
      BY <1>1, <3>4, ChannelOfLink
    <3> QED
      BY <2>1, <3>1, <3>2, <3>3, <3>4 DEF ThreadStep
  <2>2. CASE RelayFails \/ Reload \/ \E s \in Sides : Reads(s)
    <3>1. CASE RelayFails
      BY <1>1, <3>1, ChannelOfRelay
    <3>2. CASE Reload \/ \E s \in Sides : Reads(s)
      BY <1>1, <3>2, ChannelOfHandlers
    <3> QED
      BY <2>2, <3>1, <3>2
  <2>3. CASE NodeAnswers \/ ClientStep \/ \E s \in Sides : PeerStep(s)
    BY <1>1, <2>3, ChannelOfPeers
  <2> QED
    BY <1>3, <2>1, <2>2, <2>3 DEF SessionNext
<1> QED
  BY <1>2, <1>3

LEMMA ChannelOfInit == SessionInit => Chan!ChannelInit
<1> SUFFICES ASSUME SessionInit PROVE Chan!ChannelInit
  OBVIOUS
<1> USE DEF Sides
<1>1. /\ \A s \in Sides : sent[s] = <<>> /\ got[s] = <<>> /\ outbox[s] = <<>> /\ peer[s] = "open"
      /\ left = <<>> /\ reason = "none"
  BY DEF SessionInit, RelayInit, UpstreamInit
<1>2. \A s \in Sides : Stream(Other(s)) = <<>> /\ Delivered(s) = <<>>
  <2>1. <<>> \o <<>> = <<>>
    BY Concats
  <2> QED
    BY <1>1, <2>1, DeliveredIsTold, ToldNothing DEF Stream, Other
<1> QED
  BY <1>1, <1>2 DEF Chan!ChannelInit

\* A session implements Channel, whichever protocol the client speaks, however
\* the target is reached and whatever either peer does: what an end hears is the
\* beginning of what the other has said, nothing is heard once the session's
\* relay has ended, and it ends with the end of a stream only when all of that
\* stream was heard, or the end that should hear it was cut off.
THEOREM SessionIsAChannel == SessionSpec => ChannelIsImplemented
<1>1. SessionInit => Chan!ChannelInit
  BY ChannelOfInit
<1>2. StreamsInv /\ [SessionNext]_vars => [Chan!ChannelNext]_(Chan!channel)
  BY ChannelOfStep
<1> QED
  BY <1>1, <1>2, StreamsInvariant, PTL DEF SessionSpec, ChannelIsImplemented, Chan!ChannelSpec

=============================================================================
