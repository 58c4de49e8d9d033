-------------------------------- MODULE Relay --------------------------------
(***************************************************************************)
(* relay_traffic (src/socket_utils.cpp): one thread that moves bytes       *)
(* between the socket of a client and that of its target, with the two     *)
(* peers at the far ends of the connections.                               *)
(*                                                                         *)
(* A connection holds what its peer has sent and the proxy has not         *)
(* received (inbox), and what the proxy has sent and the peer has not read *)
(* (outbox), Window pieces each at most.  Time passes only while the relay *)
(* waits: in WSAPoll, a second at a time, or in a blocking send.           *)
(***************************************************************************)
EXTENDS Integers, Sequences

CONSTANTS
    Window,     \* pieces a connection holds in one direction
    Buffer,     \* buffer_size, in pieces
    Limit       \* timeout_seconds

ASSUME RelayAssumption ==
    /\ Window \in Nat \ {0} /\ Buffer \in Nat \ {0} /\ Limit \in Nat \ {0}

VARIABLES
    sent,       \* sent[s]: what the peer at socket s has sent
    inbox, outbox,
    got,        \* got[s]: what that peer has read
    peer,       \* peer[s]: "open", "fin" (sends no more) or "reset"
    at,         \* program point of the thread that serves the connection
    chunk,      \* what is left of the buffer being sent
    size,       \* n: how much the last recv gave
    rev,        \* the revents of the last WSAPoll
    idle,       \* now - last_io at the last WSAPoll
    lag,        \* seconds since that WSAPoll returned
    bytes,      \* bytes[s]: bytes_up for the target, bytes_down for the client
    reason      \* termination_reason

ends   == <<sent, got, peer>>
pipes  == <<inbox, outbox>>
buffer == <<chunk, size>>
clock  == <<idle, lag>>
relayVars == <<ends, pipes, at, buffer, rev, clock, bytes, reason>>

Sides == {"client", "target"}
Other(s) == CHOOSE o \in Sides : o # s
NoEvents == [s \in Sides |-> [in |-> FALSE, hup |-> FALSE]]
RecvAt(s) == IF s = "client" THEN "recv_client" ELSE "recv_target"
SendAt(s) == IF s = "client" THEN "send_client" ELSE "send_target"
RelayPoints == {"poll", "recv_client", "send_target", "recv_target",
                "send_client", "account", "hang_up"}
Written(s) == got[s] \o outbox[s]
Least(a, b) == IF a < b THEN a ELSE b
First(q, n) == SubSeq(q, 1, n)
Rest(q, n)  == SubSeq(q, n + 1, Len(q))
Later(n)    == Least(n + 1, Limit)

RelayInit ==
    /\ sent = [s \in Sides |-> <<>>] /\ got = [s \in Sides |-> <<>>]
    /\ inbox = [s \in Sides |-> <<>>] /\ outbox = [s \in Sides |-> <<>>]
    /\ peer = [s \in Sides |-> "open"]
    /\ chunk = <<>> /\ size = 0 /\ rev = NoEvents
    /\ idle = 0 /\ lag = 0
    /\ bytes = [s \in Sides |-> 0] /\ reason = "none"

-----------------------------------------------------------------------------
(* The peers, and TCP between them and the proxy.                          *)

PeerSends(s, piece) ==
    /\ peer[s] = "open" /\ Len(inbox[s]) < Window
    /\ sent' = [sent EXCEPT ![s] = Append(@, piece)]
    /\ inbox' = [inbox EXCEPT ![s] = Append(@, piece)]
    /\ UNCHANGED <<got, peer, outbox>>

PeerReads(s) ==
    /\ outbox[s] # <<>> /\ peer[s] # "reset"
    /\ got' = [got EXCEPT ![s] = Append(@, Head(outbox[s]))]
    /\ outbox' = [outbox EXCEPT ![s] = Tail(@)]
    /\ UNCHANGED <<sent, peer, inbox>>

\* The peer shuts its sending side down: what it sent arrives, then the end.
PeerShuts(s) ==
    /\ peer[s] = "open"
    /\ peer' = [peer EXCEPT ![s] = "fin"]
    /\ UNCHANGED <<sent, got, pipes>>

\* The connection is reset: what was not received yet is lost.
PeerResets(s) ==
    /\ peer[s] # "reset"
    /\ peer' = [peer EXCEPT ![s] = "reset"]
    /\ inbox' = [inbox EXCEPT ![s] = <<>>]
    /\ UNCHANGED <<sent, got, outbox>>

-----------------------------------------------------------------------------
(* relay_traffic.                                                          *)

Goto(p) == at' = p
Ends(why) == Goto("relayed") /\ reason' = why
Readable(s) == inbox[s] # <<>> \/ peer[s] # "open"

\* WSAPoll reports what is to be received; the end of a peer's stream as a
\* hang-up, as an end to be received or both; a reset as an error, perhaps
\* with something to receive that recv then fails to give.
Revents ==
    {r \in [Sides -> [in : BOOLEAN, hup : BOOLEAN]] : \A s \in Sides :
        /\ r[s].in => Readable(s)
        /\ r[s].hup => peer[s] # "open"
        /\ inbox[s] # <<>> => r[s].in
        /\ peer[s] = "fin" => r[s].in \/ r[s].hup
        /\ peer[s] = "reset" => r[s].hup}

PollReady ==
    /\ at = "poll" /\ \E s \in Sides : Readable(s)
    /\ rev' \in Revents
    /\ idle' = Least(idle + lag, Limit) /\ lag' = 0
    /\ Goto("recv_client")
    /\ UNCHANGED <<ends, pipes, buffer, bytes, reason>>

\* A second has passed with nothing to do.
PollTimeout ==
    /\ at = "poll" /\ \A s \in Sides : ~Readable(s)
    /\ idle' = Least(idle + lag + 1, Limit) /\ lag' = 0
    /\ IF idle' >= Limit THEN Ends("idle") ELSE UNCHANGED <<at, reason>>
    /\ UNCHANGED <<ends, pipes, buffer, rev, bytes>>

\* No step of RelayStep: nothing makes it happen in the end.
PollFails ==
    /\ at = "poll" /\ Ends("poll")
    /\ UNCHANGED <<ends, pipes, buffer, rev, clock, bytes>>

\* The point after the direction that starts at socket s.
AfterDirection(s) == IF s = "client" THEN "recv_target" ELSE "account"

Pass(s) ==
    /\ at = RecvAt(s) /\ ~rev[s].in
    /\ Goto(AfterDirection(s))
    /\ UNCHANGED <<ends, pipes, buffer, rev, clock, bytes, reason>>

Recv(s) ==
    /\ at = RecvAt(s) /\ rev[s].in /\ inbox[s] # <<>>
    /\ LET n == Least(Len(inbox[s]), Buffer) IN
          /\ chunk' = First(inbox[s], n) /\ size' = n
          /\ inbox' = [inbox EXCEPT ![s] = Rest(@, n)]
    /\ Goto(SendAt(Other(s)))
    /\ UNCHANGED <<ends, outbox, rev, clock, bytes, reason>>

RecvEnds(s) ==
    /\ at = RecvAt(s) /\ rev[s].in /\ inbox[s] = <<>>
    /\ Ends(IF peer[s] = "fin" THEN s ELSE "reset")
    /\ UNCHANGED <<ends, pipes, buffer, rev, clock, bytes>>

-----------------------------------------------------------------------------
(* send_all, called by the relay and by the handlers, on a blocking socket.*)

CanSend(s) == peer[s] # "reset" /\ Len(outbox[s]) < Window

\* Mutant: send called once.
SendSomeOnce(s) ==
    LET n == Least(Len(chunk), Window - Len(outbox[s])) IN
    /\ chunk # <<>> /\ CanSend(s)
    /\ outbox' = [outbox EXCEPT ![s] = @ \o First(chunk, n)]
    /\ chunk' = <<>>

\* One call of send takes as much as there is room for.
SendSome(s) ==
    LET n == Least(Len(chunk), Window - Len(outbox[s])) IN
    /\ chunk # <<>> /\ CanSend(s)
    /\ outbox' = [outbox EXCEPT ![s] = @ \o First(chunk, n)]
    /\ chunk' = Rest(chunk, n)

Blocked(s) == chunk # <<>> /\ peer[s] # "reset" /\ ~CanSend(s)

\* Only the sockets connect_to_host opens have a send timeout.
SendFails(s) ==
    \/ chunk # <<>> /\ peer[s] = "reset"
    \/ Blocked(s) /\ s = "target" /\ lag = Limit

Send(s) ==
    /\ at = SendAt(s) /\ SendSome(s)
    /\ UNCHANGED <<ends, inbox, at, size, rev, clock, bytes, reason>>

\* Blocked in send while the seconds pass.
SendWaits(s) ==
    /\ at = SendAt(s) /\ Blocked(s) /\ lag < Limit
    /\ lag' = Later(lag)
    /\ UNCHANGED <<ends, pipes, at, buffer, rev, idle, bytes, reason>>

SendBreaks(s) ==
    /\ at = SendAt(s) /\ SendFails(s)
    /\ Ends("write")
    /\ UNCHANGED <<ends, pipes, buffer, rev, clock, bytes>>

\* Mutant: the two counters exchanged.
SendDoneSwapped(s) ==
    /\ at = SendAt(s) /\ chunk = <<>>
    /\ bytes' = [bytes EXCEPT ![Other(s)] = @ + size] /\ size' = 0
    /\ Goto(AfterDirection(Other(s)))
    /\ UNCHANGED <<ends, pipes, chunk, rev, clock, reason>>

\* All of it is sent: bytes_up or bytes_down and the statistics.
SendDone(s) ==
    /\ at = SendAt(s) /\ chunk = <<>>
    /\ bytes' = [bytes EXCEPT ![s] = @ + size] /\ size' = 0
    /\ Goto(AfterDirection(Other(s)))
    /\ UNCHANGED <<ends, pipes, chunk, rev, clock, reason>>

Account ==
    /\ at = "account" /\ Goto("hang_up")
    /\ idle' = IF \E s \in Sides : rev[s].in THEN 0 ELSE idle
    /\ UNCHANGED <<ends, pipes, buffer, rev, lag, bytes, reason>>

HangUp ==
    /\ at = "hang_up" /\ rev' = NoEvents
    /\ IF \E s \in Sides : rev[s].hup THEN Ends("hang_up")
       ELSE Goto("poll") /\ UNCHANGED reason
    /\ UNCHANGED <<ends, pipes, buffer, clock, bytes>>

RelayStep ==
    \/ PollReady \/ PollTimeout \/ Account \/ HangUp
    \/ \E s \in Sides :
          \/ Pass(s) \/ Recv(s) \/ RecvEnds(s)
          \/ Send(s) \/ SendWaits(s) \/ SendBreaks(s) \/ SendDone(s)
=============================================================================
