------------------------------- MODULE Upstream -------------------------------
(***************************************************************************)
(* connect_via_node (src/upstream.cpp): the connection of a session's      *)
(* target socket, directly or by the handshake of SOCKS5 or of an HTTP     *)
(* CONNECT with a node, on the sockets of Relay.                           *)
(*                                                                         *)
(* What the proxy sends here fits the send buffer of a new connection, so  *)
(* it is not kept.  What the node answers is a sequence of pieces, two for *)
(* each field of SOCKS5, one for each line of HTTP; they arrive one by one *)
(* (NodeSends) and recv takes those that have arrived.  Which node is used *)
(* and how often is ConnectTarget.                                         *)
(***************************************************************************)
EXTENDS Relay, SequencesExt

CONSTANTS
    Via,        \* how a target is reached: a subset of Ways
    HttpAnswers,\* the headers an HTTP node may answer with
    HeadMax,    \* 8192: what connect_via_http reads of a header, in pieces
    Attempts    \* 2 where connect_target may find a backup node, or 1

Ways == {"direct", "socks5", "http"}

ASSUME UpstreamAssumption ==
    /\ Via \subseteq Ways /\ HttpAnswers \subseteq Seq(STRING)
    /\ \A a \in HttpAnswers : Len(a) > 1 /\ \A i \in DOMAIN a : a[i] = "end" <=> i = Len(a)
    /\ HeadMax \in Nat \ {0} /\ Attempts \in 1..2

VARIABLES
    target,     \* target_sock: "none", "open" or "closed"
    owes,       \* what the node has answered and has not arrived
    resp,       \* resp of connect_via_http
    tries,      \* calls of connect_via_node so far
    granted,    \* history: the target or the node has granted the connection
    left        \* history: the part of the answer that the handshake has left
                \* in the stream

answer == <<owes, resp, tries, granted, left>>

SocksPoints == {"greet", "method", "login", "status", "ask", "reply", "length",
                "rest", "rest_only"}
HttpPoints == {"ask_http", "answer"}
LinkPoints == {"connecting", "linked", "unlinked"} \cup SocksPoints \cup HttpPoints

\* Where connect_via_node waits for the node.
Waits == {"method", "status", "reply", "answer"}

\* What a node of SOCKS5 may answer, by what it was sent.
SocksAnswers ==
    [greet |-> {<<"version", m>> : m \in {"none", "password", "refused"}}
                   \cup {<<"junk", "none">>},
     login |-> {<<"version", "accepted">>, <<"version", "rejected">>},
     ask   |-> {<<"version", "ipv4", "addr", "port">>,
                <<"version", "domain", "length", "addr", "port">>,
                <<"version", "error", "addr", "port">>}]

Grants(a) == a[1] = "200" \/ a[2] \in {"ipv4", "domain"}

Has(q, kinds) == \E i \in DOMAIN q : q[i] \in kinds

AnswerPieces ==
    (UNION {ToSet(a) : a \in HttpAnswers}) \cup
    {"version", "junk", "none", "password", "refused", "accepted", "rejected",
     "ipv4", "domain", "error", "length", "addr", "port"}

UpstreamInit ==
    /\ target = "none" /\ owes = <<>> /\ resp = <<>>
    /\ tries = 0 /\ granted = FALSE /\ left = <<>>

-----------------------------------------------------------------------------
(* The node.                                                               *)

\* The next piece of its answer arrives; when the handshake is over, in the
\* stream of the target.
NodeSends ==
    /\ owes # <<>> /\ peer["target"] = "open" /\ target = "open"
    /\ Len(inbox["target"]) < Window
    /\ inbox' = [inbox EXCEPT !["target"] = Append(@, Head(owes))]
    /\ owes' = Tail(owes)
    /\ left' = IF at \in LinkPoints \ {"linked"} THEN left
               ELSE Append(left, Head(owes))
    /\ UNCHANGED <<ends, outbox, at, target, resp, tries, granted>>

-----------------------------------------------------------------------------
(* connect_to_host, and what both handshakes share.                        *)

\* A direct connection that fails is not tried again.
Counts(way) == tries' = IF way = "direct" THEN Attempts ELSE tries + 1

\* A new socket: nothing of an earlier attempt is in it.
Dial(way) ==
    /\ at = "connecting"
    /\ target' = "open" /\ granted' = (way = "direct")
    /\ sent' = [sent EXCEPT !["target"] = <<>>]
    /\ inbox' = [inbox EXCEPT !["target"] = <<>>]
    /\ peer' = [peer EXCEPT !["target"] = "open"]
    /\ owes' = <<>> /\ resp' = <<>> /\ left' = <<>> /\ Counts(way)
    /\ Goto(CASE way = "direct" -> "linked" [] way = "socks5" -> "greet"
              [] way = "http" -> "ask_http")
    /\ UNCHANGED <<got, outbox>>

\* No name, no candidate address that answers in time, or a route that may not
\* be taken.
DialFails(way) ==
    /\ at = "connecting" /\ Goto("unlinked") /\ Counts(way)
    /\ UNCHANGED <<ends, pipes, target, owes, resp, granted, left>>

\* connect_target turns to a backup node, if the pool has one.
Retry ==
    /\ at = "unlinked" /\ tries < Attempts /\ Goto("connecting")
    /\ UNCHANGED <<ends, pipes, target, answer>>

\* Every return of INVALID_SOCKET after connect_to_host has closed the socket.
GivesUp == target' = "closed" /\ Goto("unlinked")

\* The header of an HTTP answer is whole, or longer than is read.
HeadRead == Has(resp, {"end"}) \/ Len(resp) >= HeadMax

\* recv_with_timeout gives nothing: a timeout, the end of the stream, a reset.
NodeSilent ==
    /\ at \in Waits /\ inbox["target"] = <<>> /\ ~(at = "answer" /\ HeadRead)
    /\ GivesUp
    /\ UNCHANGED <<ends, pipes, answer>>

\* send_all fails on a connection that was reset.
SayFails ==
    /\ at \in {"greet", "login", "ask", "ask_http"} /\ peer["target"] = "reset"
    /\ GivesUp
    /\ UNCHANGED <<ends, pipes, answer>>

AfterSay == [greet |-> "method", login |-> "status", ask |-> "reply",
             ask_http |-> "answer"]

\* The proxy sends a message; the node makes up its mind about it.
Say ==
    /\ at \in DOMAIN AfterSay /\ peer["target"] # "reset"
    /\ \E a \in IF at = "ask_http" THEN HttpAnswers ELSE SocksAnswers[at] :
          /\ owes' = IF peer["target"] = "open" THEN owes \o a ELSE owes
          /\ granted' = (peer["target"] = "open" /\ at \in {"ask", "ask_http"}
                            /\ Grants(a))
    /\ Goto(AfterSay[at])
    /\ UNCHANGED <<ends, pipes, target, resp, tries, left>>

\* One recv of a field of n pieces, and what is left of the stream after it.
Arrived(n) == First(inbox["target"], Least(n, Len(inbox["target"])))
Take(n) == inbox' = [inbox EXCEPT !["target"] = Rest(@, Len(Arrived(n)))]

\* The socket is given to connect_target's caller; what the handshake has left
\* is all that stands before what the target has said.
Links ==
    /\ Goto("linked")
    /\ left' = First(inbox'["target"], Len(inbox'["target"]) - Len(sent["target"]))

-----------------------------------------------------------------------------
(* connect_via_socks5.                                                     *)

\* The fields it insists on: a short recv or a wrong value gives up.
AfterAnswer(field) ==
    CASE at = "method" ->
            IF field[1] = "junk" \/ field[2] = "refused" THEN "unlinked"
            ELSE IF field[2] = "password" THEN "login" ELSE "ask"
      [] at = "status" -> IF field[2] = "accepted" THEN "ask" ELSE "unlinked"
      [] at = "reply" ->
            CASE field[2] = "error" -> "unlinked" [] field[2] = "ipv4" -> "rest"
              [] field[2] = "domain" -> "length" [] OTHER -> "rest"

ReadAnswer ==
    /\ at \in {"method", "status", "reply"} /\ inbox["target"] # <<>>
    /\ Take(2)
    /\ IF Len(Arrived(2)) < 2 \/ AfterAnswer(Arrived(2)) = "unlinked" THEN GivesUp
       ELSE Goto(AfterAnswer(Arrived(2))) /\ UNCHANGED target
    /\ UNCHANGED <<ends, outbox, answer>>

\* The length of a name: without it addr_len is 0, and the two bytes read next
\* are less than what comes.
ReadLength ==
    /\ at = "length"
    /\ Take(1) /\ Goto(IF Arrived(1) = <<>> THEN "rest_only" ELSE "rest")
    /\ UNCHANGED <<ends, outbox, target, answer>>

\* What the last recv gives is not looked at: all of the address, a part of
\* it, or nothing.
ReadRest ==
    /\ at \in {"rest", "rest_only"}
    /\ Take(IF at = "rest" THEN 2 ELSE 1)
    /\ Links
    /\ UNCHANGED <<ends, outbox, target, owes, resp, tries, granted>>

-----------------------------------------------------------------------------
(* connect_via_http.                                                       *)

\* Mutant: reads as much as there is, instead of one byte after the other.
ReadByBlocks ==
    /\ at = "answer" /\ inbox["target"] # <<>> /\ ~HeadRead
    /\ resp' = resp \o inbox["target"] /\ Take(Window)
    /\ UNCHANGED <<ends, outbox, at, target, owes, tries, granted, left>>

ReadByte ==
    /\ at = "answer" /\ inbox["target"] # <<>> /\ ~HeadRead
    /\ resp' = resp \o Arrived(1) /\ Take(1)
    /\ UNCHANGED <<ends, outbox, at, target, owes, tries, granted, left>>

\* " 200 " anywhere in what was read.
HeadDone ==
    /\ at = "answer" /\ HeadRead
    /\ UNCHANGED <<ends, pipes, owes, tries, granted>>
    /\ IF Has(resp, {"200", "mentions_200"}) THEN Links /\ UNCHANGED target
       ELSE GivesUp /\ UNCHANGED left
    /\ resp' = <<>>

UpstreamStep ==
    \/ \E way \in Via : Dial(way) \/ DialFails(way)
    \/ Retry \/ Say \/ SayFails \/ ReadAnswer \/ ReadLength \/ ReadRest
    \/ NodeSilent \/ ReadByte \/ HeadDone
=============================================================================
