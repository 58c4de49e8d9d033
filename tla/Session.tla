------------------------------- MODULE Session -------------------------------
(***************************************************************************)
(* One connection of a client, from accept to close: process_client        *)
(* (src/tunnel.cpp), the SOCKS5 and HTTP handlers (src/socks5.cpp,         *)
(* src/http_proxy.cpp), the relay, and the connection's entry in the       *)
(* tracker and in the counters (src/socket_utils.cpp).                     *)
(*                                                                         *)
(* What a client sends is a sequence of pieces: a field of the protocol is *)
(* one piece, preceded by "part" when it arrives in two segments.  How the *)
(* destination is reached is Upstream, by which node ConnectTarget.  UDP   *)
(* ASSOCIATE is left out of the commands; it is UdpAssociate.              *)
(***************************************************************************)
EXTENDS Upstream

CONSTANTS
    Modes,      \* the modes the server may be configured for
    Protocols,  \* the protocols a client may speak
    Requests,   \* the kinds of HTTP header it may send, of Heads
    Body,       \* Body[s]: what the peer at socket s has to say once connected
    Auths,      \* whether local_auth_enabled may be on or off at first
    MaxReloads  \* bound: changes of local_auth_enabled under the session

ASSUME SessionAssumption ==
    /\ Modes \subseteq {"SOCKS5", "HTTP", "DUAL"}
    /\ Protocols \subseteq {"SOCKS5", "HTTP"} /\ Auths \subseteq BOOLEAN
    /\ Body \in [Sides -> Seq(STRING)] /\ MaxReloads \in Nat

VARIABLES
    mode,       \* config.mode
    auth,       \* config.local_auth_enabled
    speaks,     \* the protocol the client speaks
    listed,     \* the protocol in its tracker entry, "none" without an entry
    active,     \* what it adds to Stats::active_connections
    client,     \* client_sock: "open" or "closed"
    reloads,    \* changes of auth so far
    cleared,    \* history: the client has sent what passes for the right
                \* credentials (see Authorized), or authentication has been off
                \* at some moment of the session
    given       \* history: pieces the handler itself sent to the target

config   == <<mode, auth, reloads>>
history  == <<cleared, given>>
entry    == <<listed, active>>
sockets  == <<client, target>>
relaying == <<rev, clock, bytes, reason, size>>
vars == <<relayVars, config, entry, sockets, speaks, answer, history>>

Hellos == {"offers_none", "offers_password", "offers_both", "offers_neither"}
\* "no_host" is also a header of 16 KB that has no end: both return unanswered.
Heads == {"CONNECT", "CONNECT_authorized", "CONNECT_miscased", "GET",
          "GET_authorized", "no_host", "port_no_number"}
\* check_auth compares in lower case, the base64 of the credentials too, and
\* looks for them anywhere in what has been read: "CONNECT_miscased", which has
\* other credentials that differ in the case of their base64, passes.
Authorized == {"CONNECT_authorized", "CONNECT_miscased", "GET_authorized"}
Tunnels == {"CONNECT", "CONNECT_authorized", "CONNECT_miscased"}
Plain == {"GET", "GET_authorized"}
Opening == IF speaks = "SOCKS5" THEN Hellos ELSE Requests

\* The fields a client may send when the handler stands at a point.
Fields ==
    [peek |-> Opening, greeting |-> Opening, head |-> Opening,
     user |-> {"user", "junk"}, password |-> {"password_right", "password_wrong"},
     header |-> {"connect", "other_command", "junk"},
     addr |-> {"addr"}, port |-> {"port"}]

\* The fields authenticate and handle_client read with one recv of their size.
FieldPoints == {"user", "password", "header", "addr", "port"}

\* Every reply of the handlers, and where its sender goes on.
AfterReply ==
    [say_no_auth |-> "header", say_password |-> "user",
     say_no_method |-> "return", say_welcome |-> "header",
     say_denied |-> "return", say_unsupported |-> "return",
     say_refused |-> "return", say_connected |-> "connected",
     say_407 |-> "return", say_502 |-> "return", say_200 |-> "early"]
Replies == DOMAIN AfterReply
Checked == {"say_connected", "say_200"}

Points == RelayPoints \cup LinkPoints \cup DOMAIN Fields \cup Replies \cup
    {"accept", "request", "early", "connected", "relayed",
     "close_target", "return", "close", "ended", "terminated"}
Over == {"ended", "terminated"}

\* The names of payloads and of lines are none of the names above.
ASSUME PieceAssumption ==
    /\ Requests \subseteq Heads
    /\ \A s \in Sides : ToSet(Body[s]) \cap (Heads \cup Replies \cup {"part"}) = {}
    /\ AnswerPieces \cap Replies = {}

IsBody(s, piece) == \E i \in DOMAIN Body[s] : piece = Body[s][i]
BodyOf(s, q) == SelectSeq(q, LAMBDA piece : IsBody(s, piece))

SessionInit ==
    /\ RelayInit /\ UpstreamInit /\ at = "accept"
    /\ mode \in Modes /\ auth \in Auths /\ reloads = 0 /\ cleared = ~auth
    /\ speaks \in Protocols
    /\ listed = "none" /\ active = 0
    /\ client = "open"
    /\ given = 0

-----------------------------------------------------------------------------
(* The client, the target, and the operator who reloads.  sent holds what  *)
(* is for the peer at the other socket; a client that has read a reply     *)
(* forgets it.                                                             *)

\* A client reads each reply before it sends its next field, and sends a field
\* once.
SendsField ==
    /\ at \in DOMAIN Fields /\ peer["client"] = "open" /\ outbox["client"] = <<>>
    /\ Len(inbox["client"]) < Window
    /\ LET before == chunk \o inbox["client"] IN
       /\ before \in {<<>>, <<"part">>}
       /\ \E piece \in Fields[at] \cup (IF before = <<>> THEN {"part"} ELSE {}) :
             /\ inbox' = [inbox EXCEPT !["client"] = Append(@, piece)]
             /\ sent' = [sent EXCEPT !["client"] =
                            IF piece \in Plain THEN Append(before, piece) ELSE @]
             /\ cleared' = (cleared \/ piece \in {"password_right"} \cup Authorized)
    /\ UNCHANGED <<got, peer, outbox>>

\* What follows the request need not wait.
Requested ==
    \/ Has(inbox["client"], {"port"} \cup Heads)
    \/ at \in {"request", "early", "connected"}
              \cup Checked \cup RelayPoints \cup LinkPoints

\* The target speaks when it is reached, after what the node has to say.
Reached == target = "open" /\ granted /\ owes = <<>>

SendsBody(s) ==
    /\ IF s = "client" THEN Requested ELSE Reached
    /\ LET k == Len(BodyOf(s, sent[s])) + 1 IN
          k \in DOMAIN Body[s] /\ PeerSends(s, Body[s][k])

Connected(s) == IF s = "client" THEN client = "open" ELSE target = "open"

PeerStep(s) ==
    /\ Connected(s)
    /\ \/ SendsBody(s) /\ UNCHANGED owes
       \/ /\ PeerShuts(s) \/ PeerResets(s)
          /\ owes' = IF s = "target" THEN <<>> ELSE owes
    /\ UNCHANGED <<at, buffer, relaying, config, entry, sockets, speaks, resp,
                   tries, granted, left, history>>

NodeAnswers ==
    /\ NodeSends
    /\ UNCHANGED <<buffer, relaying, config, entry, client, speaks, history>>

ClientStep ==
    /\ SendsField
    /\ UNCHANGED <<at, buffer, relaying, config, entry, sockets, speaks, answer, given>>

Reads(s) ==
    /\ IF outbox[s] # <<>> /\ Head(outbox[s]) \in Replies
       THEN /\ outbox' = [outbox EXCEPT ![s] = Tail(@)]
            /\ UNCHANGED <<ends, inbox>>
       ELSE PeerReads(s)
    /\ UNCHANGED <<at, buffer, relaying, config, entry, sockets, speaks, answer, history>>

\* A change later than this is read by nobody in the session.
Reload ==
    /\ reloads < MaxReloads /\ target = "none" /\ at \notin Over
    /\ auth' = ~auth /\ cleared' = (cleared \/ ~auth')
    /\ reloads' = reloads + 1
    /\ UNCHANGED <<relayVars, mode, entry, sockets, speaks, answer, given>>

-----------------------------------------------------------------------------
(* process_client.                                                         *)

FirstPoint(protocol) == IF protocol = "SOCKS5" THEN "greeting" ELSE "head"

Register(protocol) == listed' = protocol /\ Goto(FirstPoint(protocol))

Accept ==
    /\ at = "accept"
    /\ IF mode = "DUAL" THEN Goto("peek") /\ UNCHANGED listed ELSE Register(mode)
    /\ UNCHANGED <<ends, pipes, buffer, relaying, config, active, sockets, speaks, answer, history>>

\* recv with MSG_PEEK, on a blocking socket without a timeout.
Peek ==
    /\ at = "peek" /\ Readable("client")
    /\ IF inbox["client"] # <<>> THEN Register(speaks)
       ELSE Goto("close") /\ UNCHANGED listed
    /\ UNCHANGED <<ends, pipes, buffer, relaying, config, active, sockets, speaks, answer, history>>

Unregister ==
    /\ at = "return" /\ listed' = "none" /\ Goto("close") /\ chunk' = <<>>
    /\ UNCHANGED <<ends, pipes, relaying, config, active, sockets, speaks, answer, history>>

CloseClient ==
    /\ at = "close" /\ client' = "closed" /\ Goto("ended")
    /\ UNCHANGED <<ends, pipes, buffer, relaying, config, entry, target, speaks, answer, history>>

-----------------------------------------------------------------------------
(* What both handlers do: recv_with_timeout, replies.                      *)

\* Mutant: recv without a timeout.
RecvFailsUntimed ==
    /\ at \in {"greeting", "head"} \cup FieldPoints /\ inbox["client"] = <<>>
    /\ peer["client"] # "open" /\ Goto("return")
    /\ UNCHANGED <<ends, pipes, buffer, relaying, config, entry, sockets, speaks, answer, history>>

\* A timeout, the end of the stream or a reset, wherever a handler receives.
RecvFails ==
    /\ at \in {"greeting", "head"} \cup FieldPoints /\ inbox["client"] = <<>>
    /\ Goto("return")
    /\ UNCHANGED <<ends, pipes, buffer, relaying, config, entry, sockets, speaks, answer, history>>

Reply ==
    /\ at \in Replies /\ CanSend("client")
    /\ outbox' = [outbox EXCEPT !["client"] = Append(@, at)]
    /\ Goto(AfterReply[at])
    /\ UNCHANGED <<ends, inbox, buffer, relaying, config, entry, sockets, speaks, answer, history>>

\* Mutant: returns without closing the target.
ReplyFailsLeaky ==
    /\ at \in Replies /\ peer["client"] = "reset"
    /\ Goto(IF at \in Checked THEN "return" ELSE AfterReply[at])
    /\ UNCHANGED <<ends, pipes, buffer, relaying, config, entry, sockets, speaks, answer, history>>

\* Only the two replies that open the tunnel look at what send_all returned.
ReplyFails ==
    /\ at \in Replies /\ peer["client"] = "reset"
    /\ Goto(IF at \in Checked THEN "close_target" ELSE AfterReply[at])
    /\ UNCHANGED <<ends, pipes, buffer, relaying, config, entry, sockets, speaks, answer, history>>

-----------------------------------------------------------------------------
(* Socks5Handler.                                                          *)

\* Mutant: takes the method the client has when it has not the one wanted.
MethodReplyLenient(hello) ==
    CASE hello = "offers_neither" -> "say_no_method"
      [] hello = "offers_password" -> "say_password"
      [] hello = "offers_none" -> "say_no_auth"
      [] hello = "offers_both" -> IF auth THEN "say_password" ELSE "say_no_auth"

MethodReply(hello) ==
    IF auth
    THEN IF hello \in {"offers_password", "offers_both"} THEN "say_password"
         ELSE "say_no_method"
    ELSE IF hello \in {"offers_none", "offers_both"} THEN "say_no_auth"
         ELSE "say_no_method"

\* Reads on until the greeting is whole; one of another protocol has another
\* version.
Greet ==
    /\ at = "greeting" /\ inbox["client"] # <<>>
    /\ inbox' = [inbox EXCEPT !["client"] = <<>>]
    /\ LET hello == Last(inbox["client"]) IN
       IF speaks # "SOCKS5" THEN chunk' = <<>> /\ Goto("return")
       ELSE IF hello = "part" THEN chunk' = <<"part">> /\ Goto("greeting")
       ELSE chunk' = <<>> /\ Goto(MethodReply(hello))
    /\ UNCHANGED <<ends, outbox, relaying, config, entry, sockets, speaks, answer, history>>

AfterField(field) ==
    CASE field = "user" -> "password"
      [] field = "password_right" -> "say_welcome"
      [] field = "password_wrong" -> "say_denied"
      [] field = "connect" -> "addr"
      [] field = "other_command" -> "say_unsupported"
      [] field = "addr" -> "port"
      [] field = "port" -> "connecting"
      [] field = "junk" -> "return"

\* A recv that gives less than the field ends the session.
RecvField ==
    /\ at \in FieldPoints /\ inbox["client"] # <<>>
    /\ LET n == IF Head(inbox["client"]) = "part" THEN 2 ELSE 1 IN
       IF Len(inbox["client"]) < n
       THEN inbox' = [inbox EXCEPT !["client"] = <<>>] /\ Goto("return")
       ELSE /\ inbox' = [inbox EXCEPT !["client"] = Rest(@, n)]
            /\ Goto(AfterField(inbox["client"][n]))
    /\ UNCHANGED <<ends, outbox, buffer, relaying, config, entry, sockets, speaks, answer, history>>

-----------------------------------------------------------------------------
(* HttpProxyHandler.  chunk is header_data.                                *)

ReadHead ==
    /\ at = "head" /\ inbox["client"] # <<>>
    /\ chunk' = chunk \o inbox["client"]
    /\ inbox' = [inbox EXCEPT !["client"] = <<>>]
    /\ Goto(IF Has(chunk', Heads) THEN "request" ELSE "head")
    /\ UNCHANGED <<ends, outbox, relaying, config, entry, sockets, speaks, answer, history>>

HeadAt == CHOOSE i \in DOMAIN chunk : chunk[i] \in Heads

\* parse_request_line, the Host header, check_auth.  std::stoi throws out of
\* the thread, which terminates the process.
Request ==
    /\ at = "request"
    /\ LET head == chunk[HeadAt] IN
       Goto(IF head = "port_no_number" THEN "terminated"
            ELSE IF head = "no_host" THEN "return"
            ELSE IF auth /\ head \notin Authorized THEN "say_407"
            ELSE "connecting")
    /\ UNCHANGED <<ends, pipes, buffer, relaying, config, entry, sockets, speaks, answer, history>>

EarlyData ==
    IF chunk[HeadAt] \in Tunnels THEN Rest(chunk, HeadAt) ELSE chunk

\* send_all with its result unused.  A new connection has room for the 16 KB
\* header_data may hold.
SendEarly ==
    /\ at = "early"
    /\ IF peer["target"] = "reset" THEN UNCHANGED <<outbox, given>>
       ELSE /\ outbox' = [outbox EXCEPT !["target"] = @ \o EarlyData]
            /\ given' = Len(EarlyData)
    /\ chunk' = <<>> /\ Goto("connected")
    /\ UNCHANGED <<ends, inbox, size, relaying, config, entry, sockets, speaks, answer, cleared>>

-----------------------------------------------------------------------------
(* connect_target, the relay and its end, the same in both handlers.       *)

Opened ==
    IF listed = "SOCKS5" THEN "say_connected"
    ELSE IF chunk[HeadAt] \in Tunnels THEN "say_200" ELSE "early"

Connecting ==
    /\ UpstreamStep
    /\ UNCHANGED <<buffer, relaying, config, entry, client, speaks, history>>

\* The locals of connect_target are gone.
ForgetsAttempts == resp' = <<>> /\ tries' = 0 /\ UNCHANGED <<owes, granted, left>>

Connects ==
    /\ at = "linked" /\ Goto(Opened) /\ ForgetsAttempts
    /\ UNCHANGED <<ends, pipes, buffer, relaying, config, entry, sockets, speaks, history>>

NotConnected ==
    /\ at = "unlinked" /\ ForgetsAttempts
    /\ Goto(IF listed = "SOCKS5" THEN "say_refused" ELSE "say_502")
    /\ sent' = [sent EXCEPT !["target"] = <<>>]
    /\ UNCHANGED <<got, peer, pipes, buffer, relaying, config, entry, sockets, speaks, history>>

Start ==
    /\ at = "connected" /\ active' = active + 1 /\ Goto("poll")
    /\ UNCHANGED <<ends, pipes, buffer, relaying, config, listed, sockets, speaks, answer, history>>

Relays ==
    /\ RelayStep
    /\ UNCHANGED <<config, entry, sockets, speaks, answer, history>>

RelayFails ==
    /\ PollFails
    /\ UNCHANGED <<config, entry, sockets, speaks, answer, history>>

\* The locals of relay_traffic are gone.
Finish ==
    /\ at = "relayed" /\ active' = active - 1 /\ Goto("close_target")
    /\ chunk' = <<>> /\ size' = 0 /\ rev' = NoEvents /\ idle' = 0 /\ lag' = 0
    /\ UNCHANGED <<ends, pipes, bytes, reason, config, listed, sockets, speaks, answer, history>>

CloseTarget ==
    /\ at = "close_target" /\ target' = "closed" /\ Goto("return")
    /\ UNCHANGED <<ends, pipes, buffer, relaying, config, entry, client, speaks, answer, history>>

-----------------------------------------------------------------------------
ThreadStep ==
    \/ Accept \/ Peek \/ Unregister \/ CloseClient
    \/ RecvFails \/ Reply \/ ReplyFails
    \/ Greet \/ RecvField \/ ReadHead \/ Request \/ SendEarly
    \/ Connecting \/ Connects \/ NotConnected \/ Start \/ Relays \/ Finish \/ CloseTarget

SessionNext ==
    \/ ThreadStep \/ RelayFails \/ Reload \/ NodeAnswers
    \/ ClientStep \/ \E s \in Sides : PeerStep(s) \/ Reads(s)

SessionSpec == SessionInit /\ [][SessionNext]_vars

\* The thread runs when it can; the peers read what they are sent.
SessionFairSpec ==
    /\ SessionSpec /\ WF_vars(ThreadStep)
    /\ \A s \in Sides : WF_vars(Reads(s))

\* The same with peers that need not read.
SessionSlowSpec == SessionSpec /\ WF_vars(ThreadStep)

-----------------------------------------------------------------------------
(* Properties.                                                             *)

\* All there is to be sent: fields, headers, replies, payloads, and what a node
\* answers.
Pieces ==
    {"part", "user", "junk", "password_right", "password_wrong", "connect",
     "other_command", "addr", "port"} \cup Hellos \cup Heads \cup Replies
        \cup AnswerPieces \cup ToSet(Body["client"]) \cup ToSet(Body["target"])

\* The values the variables may have.
SessionTypeOK ==
    /\ at \in Points /\ mode \in Modes /\ auth \in BOOLEAN /\ cleared \in BOOLEAN
    /\ speaks \in Protocols /\ listed \in {"none", "SOCKS5", "HTTP"}
    /\ active \in {0, 1} /\ reloads \in 0..MaxReloads
    /\ client \in {"open", "closed"} /\ target \in {"none", "open", "closed"}
    /\ peer \in [Sides -> {"open", "fin", "reset"}]
    /\ \A v \in {sent, inbox, outbox, got} : v \in [Sides -> Seq(Pieces)]
    /\ \A s \in Sides : Len(inbox[s]) <= Window
    /\ chunk \in Seq(Pieces)
    /\ bytes \in [Sides -> Nat] /\ size \in 0..Buffer
    /\ {idle, lag} \subseteq 0..Limit
    /\ owes \in Seq(AnswerPieces) /\ resp \in Seq(AnswerPieces)
    /\ left \in Seq(AnswerPieces) /\ granted \in BOOLEAN /\ tries \in 0..2
    /\ reason \in {"none", "idle", "poll", "client", "target", "reset",
                    "write", "hang_up"}

\* What the peer at the other socket has said for the peer at socket s (in
\* SOCKS5 and CONNECT what follows the request, otherwise the request too; from
\* a node what its handshake has left and then the target's), and what socket s
\* has been given of it: a reply is the first thing that is written, and a
\* client that has read it has forgotten it.
Stream(s) == IF s = "client" THEN left \o sent["target"] ELSE sent["client"]
Delivered(s) ==
    IF Written(s) # <<>> /\ Written(s)[1] \in Replies THEN Rest(Written(s), 1)
    ELSE Written(s)
InHand(s) == IF at = SendAt(s) THEN chunk ELSE <<>>
Sound == \A s \in Sides : peer[s] # "reset"

\* Nothing is lost, doubled or put out of order on its way through: whatever a
\* handler read too far ahead, the pieces a send took only in part, and the
\* order in which the relay looks at its two sockets.
StreamsIntact ==
    /\ \A s \in Sides : IsPrefix(Delivered(s), Stream(s))
    /\ at \in RelayPoints /\ Sound =>
          \A s \in Sides :
             Delivered(s) \o InHand(s) \o inbox[Other(s)] = Stream(s)

\* A session is a channel between the two peers, whichever way the target is
\* reached: an attempt that fails, a handshake and a header read too far ahead
\* leave no trace in the streams, nobody is given anything after the relay has
\* ended, and when it ends with the end of one peer's stream the other peer has
\* been given all of that stream.  The target says nothing before it is linked.
Unlinked == at \in LinkPoints \ {"linked"}
Chan == INSTANCE Channel WITH
    Pair  <- Sides,
    said  <- [s \in Sides |-> IF s = "target" /\ Unlinked THEN <<>>
                              ELSE Stream(Other(s))],
    heard <- [s \in Sides |-> Delivered(s)],
    cut   <- {s \in Sides : peer[s] = "reset" /\ ~(s = "target" /\ Unlinked)},
    over  <- CASE reason = "none" -> "no" [] reason \in Sides -> reason
               [] OTHER -> "broken"
ChannelIsImplemented == Chan!ChannelSpec

\* The counters of the tracker and of the statistics are what the relay has
\* put on each socket, less what a failed send may have.
CountsAgree ==
    at \notin {"send_client", "send_target"} /\ reason # "write" =>
        /\ bytes["client"] = Len(Delivered("client"))
        /\ bytes["target"] = Len(Delivered("target")) - given

\* No connection is made for a client that has not sent what passes for the
\* right credentials, unless authentication was off at some moment of its
\* session: neither the order of the fields nor a reload in between gets around
\* it.  Over HTTP, what passes includes credentials that are right but for the
\* case of their base64 (OnlyRightCredentials).
OnlyAuthenticated ==
    target # "none" => cleared

\* While authentication is on, HTTP credentials that are not the right ones are
\* refused.
OnlyRightCredentials ==
    [][at = "request" /\ auth /\ at' = "connecting" =>
           chunk[HeadAt] # "CONNECT_miscased"]_vars

\* The idle limit ends no relay that has just spent its time sending.
IdleIsSilence == [][at = "poll" /\ reason' = "idle" => lag = 0]_vars

\* A relay that ends without an error leaves nothing unread that a peer had
\* sent before.
NothingLeftBehind ==
    at = "relayed" /\ reason \in Sides \cup {"hang_up"} /\ Sound =>
        \A s \in Sides : inbox[s] = <<>>

\* A field that comes in two segments is waited for.
FieldsReadWhole ==
    [][inbox["client"] = <<"part">> /\ at \in FieldPoints => at' # "return"]_vars

\* What is reported as sent to the target is what it was sent.
TxIsSent == at = "relayed" /\ reason # "write" =>
    bytes["target"] = Len(Delivered("target"))

\* Nothing of what a node answers comes out at the client.
NodeStaysHidden == at \in RelayPoints => left = <<>>

\* A client that is told of a connection has one: its node has granted it.
GrantedIsTold == at \in Checked => granted

\* A connection the server waits to see the protocol of is not kept for ever.
PeekEnds == (at = "peek") ~> (at # "peek")

\* Whichever of the early returns ends a session, its entry, its place in the
\* counter and both sockets are released, and the target is never left open by
\* a connection that is not listed.
EndsReleased ==
    /\ target = "open" => listed # "none"
    /\ active = 1 => target = "open"
    /\ at = "ended" => /\ listed = "none" /\ active = 0
                       /\ client = "closed" /\ target # "open"

\* A connection that has sent something, or was accepted in a mode that need
\* not see it first, comes to its end, whatever its peers leave unsaid.
SessionEnds == (at \notin {"accept", "peek"}) ~> (at \in Over)

=============================================================================
