------------------------- MODULE UdpAssociate_proofs -------------------------
(* Theorems about UdpAssociate, for all values of its constants.           *)
EXTENDS UdpAssociate, TLAPS

\* Where the two threads and the relay's socket are with respect to each other.
InStep ==
  /\ handler \in {"init", "start"} => worker = "none"
  /\ handler = "init" => handle = "none"
  /\ handler = "start" => handle = "open"
  /\ handler \in {"forget", "join", "done"} => handle # "open"
  /\ handler = "done" => worker \in {"none", "ended"}

\* The client cannot have more to be received than it has sent.
Counted ==
  /\ spent \in [datagrams : Nat, bytes : 0 .. MaxControl]
  /\ control <= spent.bytes

\* A header of SOCKS5 with an IPv4 address names a target.
Addressed == \A d \in queue : d.form = "ipv4" => d.to \in Addresses

UdpInv == UdpTypeOK /\ InStep /\ Counted /\ Addressed

LEMMA UdpInitInv == UdpInit => UdpInv
<1> SUFFICES ASSUME UdpInit PROVE UdpInv
  OBVIOUS
<1>1. UdpTypeOK
  <2>1. MaxControl \in Nat
    BY UdpAssumption
  <2>2. running \in BOOLEAN
    BY DEF UdpInit
  <2>3. handler = "init" /\ control \in 0 .. MaxControl
    BY <2>1 DEF UdpInit
  <2> QED
    BY <2>2, <2>3 DEF UdpInit, UdpTypeOK
<1>2. Counted
  BY UdpAssumption DEF UdpInit, Counted
<1>3. InStep /\ Addressed
  BY DEF UdpInit, InStep, Addressed
<1> QED
  BY <1>1, <1>2, <1>3 DEF UdpInv

\* The datagrams that others put into the queue.
LEMMA EnvironmentInv ==
  ASSUME UdpInv, Environment
  PROVE  UdpInv'
<1> USE DEF UdpInv
<1>1. ASSUME NEW d, Arrives(d), d.from \in Addresses, d.form \in Forms,
             d.form = "ipv4" => d.to \in Addresses
      PROVE  UdpInv'
  <2>1. /\ UNCHANGED <<threads, relay, line, out>>
        /\ queue' = queue \cup {d} /\ arrived' = arrived \cup {d}
        /\ spent' \in [datagrams : Nat, bytes : 0 .. MaxControl]
        /\ spent'.bytes = spent.bytes
    BY <1>1 DEF Arrives, Counted
  <2> QED
    BY <1>1, <2>1 DEF UdpTypeOK, InStep, Counted, Addressed, threads, relay, line
<1>2. CASE \E c \in Clients, t \in Targets, load \in Loads,
              form \in {"ipv4", "empty", "zeros", "short"} : ClientSends(c, form, t, load)
  BY <1>1, <1>2 DEF ClientSends, Datagram, Addresses, Forms
<1>3. CASE \E t, to \in Targets, form \in Answers, load \in Loads :
              TargetAnswers(t, form, to, load)
  BY <1>1, <1>3, UdpAssumption DEF TargetAnswers, Datagram, Addresses
<1>4. CASE \E x \in Strangers, to \in Targets, load \in Loads, form \in Intrusions :
              StrangerSends(x, form, to, load)
  BY <1>1, <1>4, UdpAssumption DEF StrangerSends, Datagram, Addresses
<1>5. CASE ClientWrites
  <2>1. MaxControl \in Nat /\ control \in 0 .. MaxControl
    BY UdpAssumption DEF UdpTypeOK
  <2>2. spent' \in [datagrams : Nat, bytes : 0 .. MaxControl]
        /\ spent'.bytes = spent.bytes + 1
    BY <1>5, <2>1 DEF ClientWrites, Counted
  <2>3. control' \in 0 .. MaxControl /\ control' <= spent'.bytes
    BY <1>5, <2>1, <2>2 DEF ClientWrites, Counted
  <2> QED
    BY <1>5, <2>2, <2>3
       DEF ClientWrites, UdpTypeOK, InStep, Counted, Addressed, threads, relay
<1>6. CASE ClientLeaves
  <2>1. MaxControl \in Nat /\ control \in 0 .. MaxControl
    BY UdpAssumption DEF UdpTypeOK
  <2>2. control' \in 0 .. MaxControl /\ control' <= spent.bytes
        /\ ended' \in {"fin", "reset"}
    BY <1>6, <2>1 DEF ClientLeaves, Counted
  <2> QED
    BY <1>6, <2>2
       DEF ClientLeaves, UdpTypeOK, InStep, Counted, Addressed, threads, relay
<1>7. CASE OtherOpens
  BY <1>7 DEF OtherOpens, UdpTypeOK, InStep, Counted, Addressed, threads, line
<1> QED
  BY <1>2, <1>3, <1>4, <1>5, <1>6, <1>7 DEF Environment

LEMMA HandlerInv ==
  ASSUME UdpInv, HandlerStep
  PROVE  UdpInv'
<1> USE DEF UdpInv, UdpTypeOK, InStep, Counted, Addressed, HandlerGoes
<1>1. CASE HandlerInit
  BY <1>1 DEF HandlerInit, line
<1>2. CASE HandlerStart
  BY <1>2 DEF HandlerStart, line
<1>3. CASE HandlerRecv
  BY <1>3, UdpAssumption DEF HandlerRecv, relay
<1>4. CASE HandlerStop
  BY <1>4 DEF HandlerStop, line
<1>5. CASE HandlerClose
  BY <1>5 DEF HandlerClose, line
<1>6. CASE HandlerForget
  BY <1>6 DEF HandlerForget, line
<1>7. CASE HandlerJoin
  BY <1>7 DEF HandlerJoin, relay, line
<1> QED
  BY <1>1, <1>2, <1>3, <1>4, <1>5, <1>6, <1>7 DEF HandlerStep

\* What a datagram does: it leaves the queue, and what is sent for it goes to
\* the address of its header, or to the client.
LEMMA HandlesEffect ==
  ASSUME NEW d \in queue, Handles(d)
  PROVE  /\ queue' = queue \ {d}
         /\ client_udp_addr' \in {client_udp_addr, d.from}
         /\ client_udp_addr' # client_udp_addr => Zeros(d)
         /\ \A m \in out' :
              \/ m \in out
              \/ d.form = "ipv4" /\ m = [to |-> d.to, from |-> "none", load |-> d.load]
              \/ /\ d.form = "plain" /\ client_udp_addr' # "none"
                 /\ m = [to |-> client_udp_addr', from |-> d.from, load |-> d.load]
BY DEF Handles, Learns, Sends, Zeros

LEMMA WorkerInv ==
  ASSUME UdpInv, WorkerStep
  PROVE  UdpInv'
<1> USE DEF UdpInv, InStep, Counted, Addressed, WorkerGoes
<1>1. CASE WorkerCheck
  BY <1>1 DEF WorkerCheck, UdpTypeOK, relay, line
<1>2. CASE WorkerPoll
  <2>1. revents' \subseteq {"control", "udp"}
    BY <1>2 DEF WorkerPoll, Events
  <2>2. worker' \in {"check", "peek", "load"} /\ worker = "poll"
    BY <1>2 DEF WorkerPoll
  <2> QED
    BY <1>2, <2>1, <2>2 DEF WorkerPoll, UdpTypeOK, line
<1>3. CASE WorkerPeek
  BY <1>3 DEF WorkerPeek, UdpTypeOK, relay, line
<1>4. CASE WorkerLoad
  BY <1>4 DEF WorkerLoad, UdpTypeOK, line
<1>5. CASE WorkerRecvfrom
  <2>1. CASE \E d \in queue : Handles(d)
    <3>1. PICK d \in queue : Handles(d)
      BY <2>1
    <3>2. d.from \in Addresses /\ (d.form = "ipv4" => d.to \in Addresses)
      BY DEF UdpTypeOK
    <3>3. queue' \subseteq queue /\ client_udp_addr' \in Addresses \cup {"none"}
      BY <3>1, <3>2, HandlesEffect DEF UdpTypeOK
    <3>4. \A m \in out' : m.to \in Addresses /\ m.from \in Addresses \cup {"none"}
      BY <3>1, <3>2, <3>3, HandlesEffect DEF UdpTypeOK
    <3> QED
      BY <1>5, <3>3, <3>4 DEF WorkerRecvfrom, UdpTypeOK, line
  <2>2. CASE UNCHANGED <<queue, client_udp_addr, out>>
    BY <1>5, <2>2 DEF WorkerRecvfrom, UdpTypeOK, line
  <2> QED
    BY <1>5, <2>1, <2>2 DEF WorkerRecvfrom
<1> QED
  BY <1>1, <1>2, <1>3, <1>4, <1>5 DEF WorkerStep

LEMMA IntrudesInv ==
  ASSUME UdpInv, WorkerIntrudes
  PROVE  UdpInv'
BY DEF WorkerIntrudes, WorkerGoes, UdpInv, UdpTypeOK, InStep, Counted, Addressed,
       relay, line

LEMMA UdpNextInv == UdpInv /\ [UdpNext]_vars => UdpInv'
<1>1. ASSUME UdpInv, UNCHANGED vars PROVE UdpInv'
  BY <1>1 DEF UdpInv, UdpTypeOK, InStep, Counted, Addressed, Zeros,
              vars, threads, relay, line
<1> QED
  BY <1>1, EnvironmentInv, HandlerInv, WorkerInv, IntrudesInv DEF UdpNext

LEMMA UdpInductive == UdpSpec => []UdpInv
BY UdpInitInv, UdpNextInv, PTL DEF UdpSpec

\* Type correctness; while the handler waits on the control connection the
\* relay runs and its socket is open (Socks5Handler::handle_client,
\* Socks5UdpRelay::start).
THEOREM UdpTypeCorrect == UdpSpec => []UdpTypeOK
BY UdpInductive, PTL DEF UdpInv

\* When the handler returns, which destroys the relay object, the worker has
\* been joined, or was never started, and the socket is closed
\* (Socks5UdpRelay::stop).
THEOREM NothingOutlivesTheHandler == UdpSpec => []NothingOutlives
<1>1. UdpInv => NothingOutlives
  BY DEF UdpInv, InStep, NothingOutlives
<1> QED
  BY <1>1, UdpInductive, PTL

-----------------------------------------------------------------------------
(* What goes which way.                                                    *)

Wrapped(to, load) ==
  \E d \in arrived : d.form = "ipv4" /\ d.to = to /\ d.load = load
SentBy(x, load) ==
  \E d \in arrived : d.form = "plain" /\ d.from = x /\ d.load = load
Claims(x) == \E d \in arrived : Zeros(d) /\ d.from = x

\* What OnlyRelayed asks of a datagram the relay has sent; the client is one
\* that has claimed to be, and what waits in the queue has arrived.
RelayedInv ==
  /\ \A m \in out : IF m.from = "none" THEN Wrapped(m.to, m.load)
                     ELSE SentBy(m.from, m.load) /\ Claims(m.to)
  /\ client_udp_addr # "none" => Claims(client_udp_addr)
  /\ queue \subseteq arrived

LEMMA RelayedKept ==
  ASSUME RelayedInv, arrived \subseteq arrived', queue' \subseteq arrived',
         UNCHANGED <<client_udp_addr, out>>
  PROVE  RelayedInv'
<1>1. ASSUME NEW x, NEW load
      PROVE  /\ Wrapped(x, load) => Wrapped(x, load)'
             /\ SentBy(x, load) => SentBy(x, load)'
             /\ Claims(x) => Claims(x)'
  BY DEF Wrapped, SentBy, Claims, Zeros
<1> QED
  BY <1>1 DEF RelayedInv

LEMMA RelayedEnvironment ==
  ASSUME RelayedInv, Environment
  PROVE  RelayedInv'
<1>1. UNCHANGED <<client_udp_addr, out>>
  BY DEF Environment, ClientSends, TargetAnswers, StrangerSends, Arrives,
         ClientWrites, ClientLeaves, OtherOpens, relay
<1>2. \/ UNCHANGED <<queue, arrived>>
      \/ \E d : queue' = queue \cup {d} /\ arrived' = arrived \cup {d}
  BY DEF Environment, ClientSends, TargetAnswers, StrangerSends, Arrives,
         ClientWrites, ClientLeaves, OtherOpens
<1>3. arrived \subseteq arrived' /\ queue' \subseteq arrived'
  BY <1>2 DEF RelayedInv
<1> QED
  BY <1>1, <1>3, RelayedKept

LEMMA RelayedHandler ==
  ASSUME RelayedInv, HandlerStep
  PROVE  RelayedInv'
<1>1. queue' \subseteq queue /\ UNCHANGED <<client_udp_addr, out, arrived>>
  BY DEF HandlerStep, HandlerInit, HandlerStart, HandlerRecv, HandlerStop,
         HandlerClose, HandlerForget, HandlerJoin, relay
<1> QED
  BY <1>1, RelayedKept DEF RelayedInv

LEMMA RelayedWorker ==
  ASSUME UdpInv, RelayedInv, WorkerStep \/ WorkerIntrudes
  PROVE  RelayedInv'
<1>1. UNCHANGED arrived
  BY DEF WorkerStep, WorkerCheck, WorkerPoll, WorkerPeek, WorkerLoad,
         WorkerRecvfrom, WorkerIntrudes
<1>2. CASE UNCHANGED <<queue, client_udp_addr, out>>
  BY <1>1, <1>2, RelayedKept DEF RelayedInv
<1>3. CASE \E d \in queue : Handles(d)
  <2>1. PICK d \in queue : Handles(d)
    BY <1>3
  <2>2. d \in arrived /\ d.from # "none"
    BY UdpAssumption DEF UdpInv, UdpTypeOK
  <2>3. queue' \subseteq queue
    BY <2>1, HandlesEffect
  <2>4. client_udp_addr' # "none" => Claims(client_udp_addr')
    BY <2>1, <2>2, HandlesEffect DEF RelayedInv, Claims
  <2>5. ASSUME NEW m \in out'
        PROVE  IF m.from = "none" THEN Wrapped(m.to, m.load)
               ELSE SentBy(m.from, m.load) /\ Claims(m.to)
    <3>1. CASE m \in out
      BY <3>1 DEF RelayedInv
    <3>2. CASE d.form = "ipv4" /\ m = [to |-> d.to, from |-> "none", load |-> d.load]
      BY <2>2, <3>2 DEF Wrapped
    <3>3. CASE /\ d.form = "plain" /\ client_udp_addr' # "none"
               /\ m = [to |-> client_udp_addr', from |-> d.from, load |-> d.load]
      BY <2>2, <2>4, <3>3 DEF SentBy
    <3> QED
      BY <2>1, <3>1, <3>2, <3>3, HandlesEffect
  <2>6. ASSUME NEW x, NEW load
        PROVE  /\ Wrapped(x, load)' <=> Wrapped(x, load)
               /\ SentBy(x, load)' <=> SentBy(x, load)
               /\ Claims(x)' <=> Claims(x)
    BY <1>1 DEF Wrapped, SentBy, Claims, Zeros
  <2>7. client_udp_addr' # "none" => Claims(client_udp_addr)'
    BY <1>1, <2>4 DEF Claims, Zeros
  <2> QED
    BY <1>1, <2>3, <2>5, <2>6, <2>7 DEF RelayedInv
<1> QED
  BY <1>2, <1>3 DEF WorkerStep, WorkerCheck, WorkerPoll, WorkerPeek, WorkerLoad,
                    WorkerRecvfrom, WorkerIntrudes, relay

\* Whatever the client, the targets and strangers send: the relay sends a target
\* only loads that came behind a header which named it, and puts a header only
\* before what the address in it has sent, for an address that has sent three
\* zero bytes (Socks5UdpRelay::relay_loop).
THEOREM OnlyRelayedCorrect == UdpSpec => []OnlyRelayed
<1>1. UdpInit => RelayedInv
  BY DEF UdpInit, RelayedInv
<1>2. UdpInv /\ RelayedInv /\ [UdpNext]_vars => RelayedInv'
  <2>1. ASSUME RelayedInv, UNCHANGED vars PROVE RelayedInv'
    BY <2>1, RelayedKept DEF RelayedInv, vars, relay
  <2> QED
    BY <2>1, RelayedEnvironment, RelayedHandler, RelayedWorker DEF UdpNext
<1>3. RelayedInv => OnlyRelayed
  BY DEF RelayedInv, OnlyRelayed, Wrapped, SentBy, Claims
<1> QED
  BY <1>1, <1>2, <1>3, UdpInductive, PTL DEF UdpSpec
=============================================================================
