----------------------------- MODULE UdpAssociate -----------------------------
(***************************************************************************)
(* UDP ASSOCIATE: the handler thread of the SOCKS5 session that asked for  *)
(* it (src/socks5.cpp), which keeps the control connection, and the worker *)
(* thread of Socks5UdpRelay (src/socks5_udp.cpp), which moves datagrams    *)
(* between the client and the targets and looks at the same connection.    *)
(*                                                                         *)
(* A datagram has a form instead of bytes: "ipv4" has the header of SOCKS5 *)
(* with an IPv4 address and a load behind it, "empty" the same without a   *)
(* load, "zeros" begins with three zero bytes and is neither (a name or an *)
(* IPv6 address in its header, or a load that begins like a header),       *)
(* "plain" begins otherwise, "short" has less than 10 bytes.  Datagrams    *)
(* may be lost or overtake each other.                                     *)
(***************************************************************************)
EXTENDS Naturals, FiniteSets

CONSTANTS
    Clients,    \* the addresses the client sends from
    Targets,    \* the addresses it sends to
    Strangers,  \* other addresses that find the relay's port
    Answers,    \* the forms a target's answers may have
    Intrusions, \* the forms of what the other addresses send
    Loads,      \* the payloads
    MaxSent,    \* bound: datagrams that reach the relay
    MaxControl, \* bound: bytes the client sends on the control connection
    HupAllowed  \* whether WSAPoll may accept POLLHUP among the events, or fail

Forms == {"ipv4", "empty", "zeros", "plain", "short"}
Addresses == Clients \cup Targets \cup Strangers

ASSUME UdpAssumption ==
    /\ Answers \subseteq Forms /\ Intrusions \subseteq Forms
    /\ HupAllowed \subseteq BOOLEAN
    /\ MaxSent \in Nat /\ MaxControl \in Nat
    /\ Clients \cap Targets = {} /\ Strangers \cap (Clients \cup Targets) = {}
    /\ "none" \notin Addresses

VARIABLES
    handler,    \* program point of the session's thread
    worker,     \* program point of relay_loop
    running, udp_sock,
    loaded,     \* udp_sock as the worker has read it for a recvfrom
    handle,     \* the handle of init: "none", "open", "closed" or "reused", by
                \* a socket of another thread
    revents,    \* of the worker's last WSAPoll
    client_udp_addr,
    control,    \* bytes of the control connection to be received
    ended,      \* its end: "no", "fin" or "reset"
    hup,        \* whether WSAPoll accepts POLLHUP
    queue,      \* the datagrams at the relay's socket
    out,        \* the datagrams it has sent; from is in the header, or "none"
    spent,      \* datagrams and bytes sent so far
    arrived,    \* history: the datagrams anybody has sent to the relay
    foreign     \* history: the worker has received on a socket of another thread

threads == <<handler, worker>>
relay   == <<running, udp_sock, loaded, handle, revents, client_udp_addr, hup>>
line    == <<control, ended>>
vars    == <<threads, relay, line, queue, out, spent, arrived, foreign>>

UdpInit ==
    /\ handler = "init" /\ worker = "none"
    /\ running = FALSE /\ udp_sock = "none" /\ loaded = "none" /\ handle = "none"
    /\ revents = {} /\ client_udp_addr = "none"
    /\ control = 0 /\ ended = "no" /\ hup \in HupAllowed
    /\ queue = {} /\ out = {} /\ spent = [datagrams |-> 0, bytes |-> 0]
    /\ arrived = {} /\ foreign = FALSE

-----------------------------------------------------------------------------
(* The client, the targets, the network.                                   *)

Datagram(f, form, to, load) == [from |-> f, form |-> form, to |-> to, load |-> load]

\* The port is open, and somebody sends to it.
Arrives(d) ==
    /\ handle = "open" /\ spent.datagrams < MaxSent
    /\ queue' = queue \cup {d} /\ spent' = [spent EXCEPT !.datagrams = @ + 1]
    /\ arrived' = arrived \cup {d}
    /\ UNCHANGED <<threads, relay, line, out, foreign>>

ClientSends(c, form, t, load) ==
    /\ handler \in {"start", "recv"} /\ Arrives(Datagram(c, form, t, load))

\* A target answers the address a datagram came from, with anything: what it
\* says may look like a header of SOCKS5.
TargetAnswers(t, form, to, load) ==
    /\ \E m \in out : m.to = t /\ m.from = "none"
    /\ Arrives(Datagram(t, form, to, load))

StrangerSends(x, form, to, load) == Arrives(Datagram(x, form, to, load))

ClientWrites ==
    /\ ended = "no" /\ spent.bytes < MaxControl /\ handler \in {"start", "recv"}
    /\ control' = control + 1 /\ spent' = [spent EXCEPT !.bytes = @ + 1]
    /\ UNCHANGED <<threads, relay, ended, queue, out, arrived, foreign>>

ClientLeaves ==
    /\ ended = "no"
    /\ \/ ended' = "fin" /\ UNCHANGED control
       \/ ended' = "reset" /\ control' = 0
    /\ UNCHANGED <<threads, relay, queue, out, spent, arrived, foreign>>

\* Another thread opens a socket and is given the handle.
OtherOpens ==
    /\ handle = "closed" /\ handle' = "reused"
    /\ UNCHANGED <<threads, running, udp_sock, loaded, revents, client_udp_addr,
                   hup, line, queue, out, spent, arrived, foreign>>

Environment ==
    \/ \E c \in Clients, t \in Targets, load \in Loads,
          form \in {"ipv4", "empty", "zeros", "short"} : ClientSends(c, form, t, load)
    \/ \E t, to \in Targets, form \in Answers, load \in Loads :
          TargetAnswers(t, form, to, load)
    \/ \E x \in Strangers, to \in Targets, load \in Loads, form \in Intrusions :
          StrangerSends(x, form, to, load)
    \/ ClientWrites \/ ClientLeaves \/ OtherOpens

-----------------------------------------------------------------------------
(* handle_client, with start and stop of the relay.                        *)

HandlerGoes(from, to) == handler = from /\ handler' = to

\* init: socket, bind and getsockname, or a failure of one of them, which is
\* answered.
HandlerInit ==
    /\ \/ HandlerGoes("init", "start") /\ udp_sock' = "open" /\ handle' = "open"
       \/ HandlerGoes("init", "done") /\ UNCHANGED <<udp_sock, handle>>
    /\ UNCHANGED <<worker, running, loaded, revents, client_udp_addr, hup, line,
                   queue, out, spent, arrived, foreign>>

\* The success reply, then start.
HandlerStart ==
    /\ HandlerGoes("start", "recv")
    /\ running' = TRUE /\ worker' = "check"
    /\ UNCHANGED <<udp_sock, loaded, handle, revents, client_udp_addr, hup, line,
                   queue, out, spent, arrived, foreign>>

\* while (recv(client_sock, &ch, 1, 0) > 0) {}
HandlerRecv ==
    /\ \/ HandlerGoes("recv", "recv") /\ control > 0 /\ control' = control - 1
       \/ HandlerGoes("recv", "stop") /\ control = 0 /\ ended # "no" /\ UNCHANGED control
    /\ UNCHANGED <<worker, relay, ended, queue, out, spent, arrived, foreign>>

\* Mutant: running is left as it is.
HandlerStopForgets ==
    /\ HandlerGoes("stop", "close")
    /\ UNCHANGED <<worker, relay, line, queue, out, spent, arrived, foreign>>

HandlerStop ==
    /\ HandlerGoes("stop", "close") /\ running' = FALSE
    /\ UNCHANGED <<worker, udp_sock, loaded, handle, revents, client_udp_addr, hup,
                   line, queue, out, spent, arrived, foreign>>

\* closesocket, then the member: another thread may come in between.
HandlerClose ==
    /\ HandlerGoes("close", "forget") /\ handle' = "closed" /\ queue' = {}
    /\ UNCHANGED <<worker, running, udp_sock, loaded, revents, client_udp_addr, hup,
                   line, out, spent, arrived, foreign>>

HandlerForget ==
    /\ HandlerGoes("forget", "join") /\ udp_sock' = "none"
    /\ UNCHANGED <<worker, running, loaded, handle, revents, client_udp_addr, hup,
                   line, queue, out, spent, arrived, foreign>>

\* Mutant: the worker is not waited for.
HandlerLeaves ==
    /\ HandlerGoes("join", "done")
    /\ UNCHANGED <<worker, relay, line, queue, out, spent, arrived, foreign>>

\* join, and the relay is destroyed.
HandlerJoin ==
    /\ HandlerGoes("join", "done") /\ worker = "ended"
    /\ UNCHANGED <<worker, relay, line, queue, out, spent, arrived, foreign>>

HandlerStep ==
    \/ HandlerInit \/ HandlerStart \/ HandlerRecv \/ HandlerStop \/ HandlerClose
    \/ HandlerForget \/ HandlerJoin

-----------------------------------------------------------------------------
(* relay_loop.                                                             *)

WorkerGoes(from, to) == worker = from /\ worker' = to

WorkerCheck ==
    /\ WorkerGoes("check", IF running THEN "poll" ELSE "ended")
    /\ UNCHANGED <<handler, relay, line, queue, out, spent, arrived, foreign>>

\* What WSAPoll reports.  The events of a closed handle are none that the loop
\* asks about, those of a handle with another owner any.
Events ==
    {e \in SUBSET {"control", "udp"} :
        /\ "control" \in e <=> control > 0 \/ ended # "no"
        /\ handle = "open" => ("udp" \in e <=> queue # {})
        /\ handle = "closed" => "udp" \notin e}

\* Ready, a timeout of 500 ms, or an error, which is not told from a timeout.
WorkerPoll ==
    /\ worker = "poll" /\ revents' \in IF hup THEN Events ELSE {{}}
    /\ WorkerGoes("poll", CASE revents' = {} -> "check" [] "control" \in revents' -> "peek"
                            [] OTHER -> "load")
    /\ UNCHANGED <<handler, running, udp_sock, loaded, handle, client_udp_addr, hup,
                   line, queue, out, spent, arrived, foreign>>

\* recv with MSG_PEEK on the blocking control socket: the byte that was
\* reported may be gone.
WorkerPeek ==
    /\ control > 0 \/ ended # "no"
    /\ WorkerGoes("peek", CASE control = 0 -> "ended" [] "udp" \in revents -> "load"
                            [] OTHER -> "check")
    /\ UNCHANGED <<handler, relay, line, queue, out, spent, arrived, foreign>>

\* udp_sock is read for recvfrom.
WorkerLoad ==
    /\ WorkerGoes("load", "recvfrom") /\ loaded' = udp_sock
    /\ UNCHANGED <<handler, running, udp_sock, handle, revents, client_udp_addr, hup,
                   line, queue, out, spent, arrived, foreign>>

\* sendto: what it says is not looked at.
Sends(to, from, load) ==
    out' \in {out, out \cup {[to |-> to, from |-> from, load |-> load]}}

Zeros(d) == d.form \in {"ipv4", "empty", "zeros"}

\* Mutant: the address is taken before the header is looked at.
LearnsAlways(d) == client_udp_addr' = d.from

\* Any sender of three zero bytes is the client from then on.
Learns(d) == client_udp_addr' = IF Zeros(d) THEN d.from ELSE client_udp_addr

Handles(d) ==
    /\ queue' = queue \ {d} /\ Learns(d)
    /\ IF d.form = "ipv4" THEN Sends(d.to, "none", d.load)
       ELSE IF d.form = "plain" /\ client_udp_addr' # "none"
       THEN Sends(client_udp_addr', d.from, d.load)
       ELSE UNCHANGED out

Foreign == loaded = "open" /\ handle = "reused"

\* recvfrom on the relay's non-blocking socket, or on a handle that is closed,
\* and what is done with the datagram.
WorkerRecvfrom ==
    /\ WorkerGoes("recvfrom", "check") /\ ~Foreign
    /\ IF loaded = "open" /\ handle = "open" /\ queue # {}
       THEN \E d \in queue : Handles(d)
       ELSE UNCHANGED <<queue, client_udp_addr, out>>
    /\ UNCHANGED <<handler, running, udp_sock, loaded, handle, revents, hup,
                   line, spent, arrived, foreign>>

\* recvfrom on a socket of another thread: it blocks, or something comes.
WorkerIntrudes ==
    /\ WorkerGoes("recvfrom", "check") /\ Foreign /\ foreign' = TRUE
    /\ UNCHANGED <<handler, relay, line, queue, out, spent, arrived>>

WorkerStep == WorkerCheck \/ WorkerPoll \/ WorkerPeek \/ WorkerLoad \/ WorkerRecvfrom

UdpNext == Environment \/ HandlerStep \/ WorkerStep \/ WorkerIntrudes

UdpSpec == UdpInit /\ [][UdpNext]_vars

\* Each thread runs when it can; nothing says that a recvfrom on the socket of
\* another thread ever returns.
UdpFairSpec == UdpSpec /\ WF_vars(HandlerStep) /\ WF_vars(WorkerStep)

-----------------------------------------------------------------------------
(* Properties.                                                             *)

\* The values the variables may have; while the handler waits for the client
\* the relay runs.
UdpTypeOK ==
    /\ handler = "recv" => running /\ worker # "none" /\ handle = "open"
    /\ handler \in {"init", "start", "recv", "stop", "close", "forget", "join", "done"}
    /\ worker \in {"none", "check", "poll", "peek", "load", "recvfrom", "ended"}
    /\ running \in BOOLEAN /\ {udp_sock, loaded} \subseteq {"none", "open"}
    /\ handle \in {"none", "open", "closed", "reused"}
    /\ revents \subseteq {"control", "udp"} /\ client_udp_addr \in Addresses \cup {"none"}
    /\ control \in 0..MaxControl /\ ended \in {"no", "fin", "reset"}
    /\ queue \subseteq arrived
    /\ \A d \in arrived : d.from \in Addresses /\ d.form \in Forms
    /\ \A m \in out : m.to \in Addresses /\ m.from \in Addresses \cup {"none"}

\* Whoever sends what: a load goes to a target without a header only if it came
\* to the relay behind a header that named this target, and what the relay puts
\* a header before is a datagram the address in the header has sent it, and goes
\* to an address that has sent it three zero bytes.
OnlyRelayed ==
    \A m \in out :
        IF m.from = "none"
        THEN \E d \in arrived : d.form = "ipv4" /\ d.to = m.to /\ d.load = m.load
        ELSE /\ \E d \in arrived : d.form = "plain" /\ d.from = m.from /\ d.load = m.load
             /\ \E d \in arrived : Zeros(d) /\ d.from = m.to

\* However the client leaves, with the worker waiting in its poll, in the peek
\* or in the middle of a datagram, both threads come to their end, unless the
\* worker has come to receive on a handle that is another thread's socket by
\* then, and that recvfrom does not return.
AssociationEnds ==
    (ended # "no") ~> \/ handler = "done"
                      \/ [](worker = "recvfrom" /\ Foreign)

\* When the handler returns, and with it the relay object goes away, its worker
\* has ended and its socket is closed.
NothingOutlives ==
    handler = "done" => worker \in {"none", "ended"} /\ handle # "open"

\* Datagrams of a connected client do not wait for ever.
DatagramsMove == (queue # {}) ~> (queue = {} \/ handler # "recv")

\* The relay receives on no socket but its own.
OwnSocketOnly == ~foreign

\* A target is sent only what the client wrapped for it, and only the client is
\* sent what the targets answer ("Response from remote target -> encapsulate
\* back into SOCKS5 UDP packet", socks5_udp.cpp).
OnlyForTheClient ==
    \A m \in out :
        IF m.from = "none"
        THEN \E d \in arrived : d.form = "ipv4" /\ d.to = m.to /\ d.load = m.load
                                /\ d.from \in Clients
        ELSE m.to \in Clients

\* However the client leaves, the handler comes to its end.
HandlerEnds == (ended # "no") ~> (handler = "done")
=============================================================================
