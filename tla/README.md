# Rift proxy: a verification development

TLA+ models of the Rift proxy (`src/`, about 6000 lines of C++ for Windows),
the TLC configurations that check them, and TLAPS proofs about them. Paths are
relative to the repository (`src/src/tunnel.cpp` is `src/tunnel.cpp` of the
program). Line numbers are those of the commit in `src/`.

1. [The system](#1-the-system): its parts, their state, what is hard
2. [The modules](#2-the-modules) and how they correspond to the code
3. [The runs](#3-the-runs): what each checks, its bounds, what it shows
4. [Fairness](#4-fairness)
5. [Where the code and its documentation disagree](#5-where-the-code-and-its-documentation-disagree)
6. [The proofs](#6-the-proofs)
7. [What is only model-checked, what is not modelled](#7-what-is-only-model-checked-what-is-not-modelled)
8. [Plan](#8-plan)

Everything runs from this directory: `tlc -workers 2 -config X.cfg M` with the
module and the configuration that PROJECT.json pairs, `tlapm M.tla` for the
modules named `*_proofs`.

## 1. The system

Rift is a local proxy server: browsers connect to it by SOCKS5 or HTTP, it
decides by rules whether a destination is reached directly, through one of a
list of upstream proxies, or not at all, and relays the bytes. It can make
itself the proxy of Windows (the WinINet settings in the registry), runs as a
console program or as a Windows service, and is operated by a console, a small
REST API and a one-shot command line.

| Component | State it keeps | Operations | Hard because | Modelled in |
|---|---|---|---|---|
| Upstream pool `upstream_pool.cpp` | the vector of nodes (name, `alive`, `latency_ms`, `failure_count`), strategy, pin, round-robin index, `pool_mutex` | `init`, `select_node`, `mark_node_success/failure`, `manual_select`, `set_strategy`, `run_health_check_all` | sweeps store into nodes without the mutex while callers scan them; the vector is replaced under sweeps and between a selection and its mark | `UpstreamPool` |
| Connection establishment `upstream.cpp` | the locals of `connect_target` | route, select, kill switch, attempt, mark, failover, second attempt | reads configuration and rules with no lock, holds pointers to nodes across seconds of network | `ConnectTarget` |
| Reload `tunnel.cpp:18-56,109-113`, `config.cpp` | `TunnelServer::config` | `update_config`, `setup_pool`, `Config::load_from_file` | replaces configuration, pool and rules one after the other under running connections; a file may not parse | `ConnectTarget` |
| Router `router.cpp` | `rules`, `default_policy` | `load_rules`, `match` | text conversions, CIDR arithmetic, exceptions half-way | `Router` (the rules), `ConnectTarget` (the race) |
| Process lifecycle `main.cpp`, `win_service.cpp` | static server and API objects, stop event | start, console loop, console events, service stop, static destructors | three kinds of threads stop the same objects | `RiftProcess` |
| System proxy `system_proxy.cpp` | three registry values, the saved initial ones | `init`, `enable`, `disable`, `restore` | several writes per call from several threads; must survive every way of ending | `RiftProcess` |
| Server start/stop `tunnel.cpp:58-107`, `api_server.cpp:26-57`, checker | `running` flags, `std::thread` members, listener | `start`, `stop`, destructors | test and clear of a flag are two steps; joins | `RiftProcess` |
| REST API `api_server.cpp` | its listener, detached request threads | reading a request, switch, strategy, system proxy, check, reports | requests outlive `stop()`, come in pieces or not whole | `RestApi`; its start, stop and registry writes `RiftProcess` |
| Console `cli.cpp` | none | `sysproxy`, `reload`, `switch`, `strategy`, `quit`, reports | runs in the main thread with all others going | `RiftProcess`, `ConnectTarget` |
| Doctor `doctor.cpp` | none | one pass of checks | its verdict on rules and the loader's may differ | the rule check: `Router` |
| Accept loop, sessions `tunnel.cpp:115-179` | detached client threads | `accept_loop`, `process_client` | a peek without a timeout, every path to one end | `Session` |
| SOCKS5, HTTP `socks5.cpp`, `http_proxy.cpp` | the locals of a session | greeting, authentication, request, reply | partial reads, early returns, data that comes too early, exceptions of `std::stoi` | `Session` |
| Relay `socket_utils.cpp:293-384` | two sockets, two counters | `relay_traffic` | hang-up together with data, blocking sends, idle limit | `Relay` |
| UDP associate `socks5_udp.cpp` | `running`, `udp_sock`, `client_udp_addr`, the worker thread | `init`, `start`, `relay_loop`, `stop` | two threads read one control socket; `stop` closes the socket the worker polls | `UdpAssociate` |
| Tracker, statistics `socket_utils.cpp:7-84` | a map under a mutex, counters | register, update, unregister | must be paired on every path | `Session` |
| Upstream handshakes `upstream.cpp:92-328` | locals | SOCKS5 and HTTP CONNECT to a node | answers in pieces, silence, what follows the answer | `Upstream`; one step of `ConnectTarget` |
| Configuration file `config.cpp` | config.json | `load_from_file`, `save_to_file`, `to_json_string`, `from_json_string` | emptied before it is written, unlocked, read while written | `ConfigFile` |
| JSON library `json.hpp` | none | `serialize`, `Parser` | escapes, text cut anywhere, comments | `Json` |
| Configuration tool `configrif.cpp` | its `Config` | `add-node`, `set-port`, menus: load, edit, save | a process of its own, beside the proxy and other tools | `ConfigFile` |
| One-shot commands `oneshot_cli.cpp` | none | `rft status`, `switch`, `sysproxy` ... over the REST API | another process: answers late, short, or of another program | `OneShot` |
| Logger, build files, scripts | | | output, and nothing that runs | not modelled |

How they interact: client threads (detached, one per connection) call
`connect_target` with references to the server's one `Config`, `Router` and
`UpstreamPool`; the checker thread sweeps the pool every interval and `check`
starts sweeps of its own; the console and API threads call the pool and the
registry manager; `reload` calls `update_config` on the console's thread. A
SOCKS5 session that asks for UDP keeps its thread on the control connection and
starts a worker for the datagrams. Other processes meet the proxy in two places:
the one-shot commands call its REST API and write the registry, the
configuration tool writes the file that it loads. The
only locks are `pool_mutex`, the tracker's and the logger's. The flags, the
nodes' fields and the strategy are atomics; `config`, `rules`, the saved
registry values and `last_check` are plain.

What makes each component correct:

- pool: a healthy node is never passed over by the fallback, the order of
  failover is kept, the pinned node is used while it is healthy, the best node
  is the fastest, turns are taken, whatever the sweeps store meanwhile; cursors
  stay inside vectors that reloads replace; marks reach the node they are
  about; the mutex is always released; the alive flags end up telling the truth;
- connections: routing, the kill switch and REJECT follow the configurations in
  force, under reloads too; every connection ends;
- process: the user's settings come back on every way out, as far as Rift could
  read them; nothing is left half-set; nobody waits for ever; no thread is destroyed unjoined;
- sessions: nobody is connected without what passes for credentials, both streams arrive whole and in
  order, every session ends and releases what it took;
- relaying as a whole: whatever stands between the two ends, each is given a
  prefix of what the other said, and all of it when the other ends its stream;
- UDP: a load goes only where a header named its target, an answer only to an
  address taken for the client's, and both threads end with the control
  connection;
- file: what is loaded was saved by somebody in whole, or is the default, as long
  as nobody empties the file under the reader;
- API and one-shot commands: half a request changes nothing; every request
  ends, and every command whose answer does not drip for ever;
- router: what the documentation says of each rule type is what `match` answers.

PROJECT.json lists the hazards one by one, at their lines, with the properties
that cover them.

## 2. The modules

```
UpstreamPool  <--EXTENDS--  ConnectTarget  <--  MCConnectTarget
     ^                           ^
     +--  MCUpstreamPool         +--  ConnectTarget_proofs
     +--  UpstreamPool_proofs <--EXTENDS--+
RiftProcess   <--  MCRiftProcess, RiftProcess_proofs
Router        <--  MCRouter, Router_proofs
Relay  <--EXTENDS--  Upstream  <--EXTENDS--  Session  <--  MCSession
                          Channel  <--INSTANCE---+
    Session  <--  Session_proofs  <--  SessionStreams_proofs
UdpAssociate  <--  MCUdpAssociate, UdpAssociate_proofs
ConfigFile  <--EXTENDS--  ConfigText  <--  MCConfigFile
     ^                        |
     +--  ConfigFile_proofs   +--EXTENDS-->  Json
RestApi  --EXTENDS-->  Json
   ^---EXTENDS--  OneShot  <--  MCOneShot
```

### UpstreamPool

One action per load or store of an atomic. A caller that takes `pool_mutex`
(`SelectNode`, `MarkFailure`, `MarkSuccess`) sets `lock` and keeps its program
point and locals in `crit` until it lets go; operations that touch only what
the mutex protects (`ManualSelect`, `SetStrategy`, `Reload`) are one step taken
while nobody is inside. A sweep (`SweepBegin`, `Probe`, `SweepAlive`,
`SweepLatency`, `SweepFails`) takes the mutex only to copy the vector and then
stores into the nodes at any moment, as `run_health_check_all` does.

A node object is `<<g, i>>`: position `i` of the vector built by the `g`-th
`init`. So the objects of an old vector live on in the copy of a sweep and in
the hands of the thread that selected them, and marks go by name to whatever
the present vector holds (`FirstOf`), as in the code.

Abstractions: `failure_count` saturates at `FailCap` (the code only compares it
with 2); `round_robin_idx` is kept modulo `RRPeriod`, a multiple of every
pool's length, which changes no remainder (the code's counter is a `size_t`
that wraps modulo a power of two: for a pool whose length does not divide it
one turn in 2^64 is out of order, and this is left out); the strings of
`switch` are words with the number `std::stoul` reads from them (0 when it
throws); `last_check` is only displayed and left out. History variables
(`wasDown`, `wasUp`, `moved`, `pinned`, `rrLast`) record what happened since the
mutex was taken and what the operator last asked for; no action reads them.

### ConnectTarget

Extends UpstreamPool: `connect_target` of each thread as a program counter
(`route`, `select`, `no_node`, `try`, `success`, `failure`, `reselect`, `retry`,
...), with the pool's own steps inside. `update_config` is a sequence of steps
on the console's thread: the two members of `Config` that `connect_target`
reads, in their order of assignment, then `pool.init`, then `rules.clear()`, the
default policy, and the new rules. A `match` that overlaps the load reads no
rule, the new default, or an element just destroyed (`stale`): the outcomes of
the race that return an action. A node is asked in two ways, and they need not
agree: `probe_node` is content with a TCP connection and the first byte of a
reply (`up`), while `connect_via_node` needs the whole handshake and the target
(`serving`); `Flip`, the network, changes one of the two for one node. An attempt
is one step with two outcomes, decided by `serving` and by whether the
destination refuses. A file that does not parse gives a
default `Config`, as `from_json_string` does. `conn[t].seen` is history: the
configurations in force while the connection ran.

`PoolIsUsedAsSpecified == PoolSpec` is the refinement: the running server's
steps, seen through the pool's variables, are steps UpstreamPool allows. It is
checked by `conn_reload` and proved for all constants.

### RiftProcess

Every thread has a list `todo[t]` of what it still has to do; a call is replaced
by the steps of its body, so that the threads interleave between any two
writes, tests, stores and joins. `ConsoleMain` and `ServiceMain` are the bodies
of `main` and `service_main`, `ExitBody` the static destructors in their order,
`StopServer` and `StopBody` the three `stop()`s. `StopTest` and `StopClear` are
separate because the code tests `running.load()` and stores `false` in two
steps. Console events start a thread of Windows ("ctrl") that runs
`ConsoleHandlerRoutine`; the console's thread reads a line, the end of input, or
waits for ever. `Crash` kills the process at any step; `Restart` (only in
`RestartSpec`) starts the next one on the registry as it was left.

A text that does not fit the 1024-character buffer ("long") is read as none
(`ReadText`), and what `restore()` does with a value that was none is to delete
it. So such a bypass list is lost at the first `restore()`, and what is promised
of the restoration is promised of texts that fit.

Abstractions: a registry value is "on"/"off", the user's text, none, a port of
Rift's, or "long"; `init` reads the three values in one step (nothing else of Rift's writes before it;
another program may, and is left out); opening the registry key always
succeeds; two threads joining one `std::thread` at once, undefined behaviour,
either return or abort.

### Router

`load_rules` line by line, with the token splitting, trimming, upper- and
lower-casing, the three-way split into FINAL, CIDR and other rules, and the
exception of `std::stoi` that leaves the rules half-loaded; `match` as the loop
with its five tests, `rfind` of the suffix included. An address is the set of
its one bits, of `Width` bits (3 in the run) in place of 32, so that every
address and prefix is tried: `&` is `\cap`, and `0xFFFFFFFF << n` moves every bit
of a set up and loses those that leave the width (`Mask`). A line is a sequence
of comma-separated fields, a field a short sequence of symbols; `Pushed(line)[n]`
is the vector of tokens after the first `n` fields. `DoctorValid` is the check
`doctor` makes of the same lines, `Documented` what the help text says of each
type, written without the loader's masks and `rfind`: leading bits, a place where
a label ends, a substring.

### Relay, Upstream, Session and Channel

`Relay` is `relay_traffic` between two TCP connections and their peers. A
connection is what its peer has sent and the proxy has not received (`inbox`)
and what the proxy has sent and the peer has not read (`outbox`), `Window` pieces
each; a peer sends, reads, shuts its side down, or the connection is reset. The
thread's program point `at` runs through the loop: `WSAPoll` with its
readiness, timeout and error (`PollReady`, `PollTimeout`, `PollFails`), a direction at
a time (`Recv`, `RecvEnds`, the loop of `send_all` as `Send`, `SendWaits`,
`SendBreaks`, `SendDone`), the bookkeeping, the hang-up. `rev` is the `revents` of
the last poll, so it may be stale when it is read. Seconds pass in the poll
(`idle`) and in a blocked send (`lag`), and only the target's socket has a send
timeout, because only `connect_to_host` sets one.

`Session` is the rest of a connection's life on the same thread: accept, the
peek of the dual mode, registration, the greeting, authentication and request of
SOCKS5, the header of HTTP, the connection, the reply, early data, the relay,
and the end. The HTTP handler looks for the
lower-cased credentials anywhere in what it has read, lower-cased too, so among
the headers is one whose credentials are right but for the case of their base64
("CONNECT_miscased"); `Authorized` is what the code takes for authorized, and
`cleared` remembers that. Every early return is a step to `return`; a reply is one piece, and
`AfterReply` says where its sender goes on. A client's field is one piece, or
"part" and a piece when it comes in two segments: the greeting and the header
are read until they are whole, the other fields of SOCKS5 by one `recv` of their
size. What follows an HTTP header in the same segment stays in `chunk` and is
sent by `SendEarly`, as `header_data` is.

`Upstream` is how the target's socket comes to be connected: `Dial` directly, or
to a node and then the handshake of `connect_via_socks5` or `connect_via_http`,
with one step for each send and each recv, on the same `inbox` the relay reads
later. A node answers in pieces, two for a field of SOCKS5 and one for a line of
HTTP, that arrive one by one, so a recv may get half of what it wants: then it
gives up, except in `ReadRest`, whose result the code does not look at. What an
answer leaves in the stream is kept in `left`, because the relay will hand it
to the client. `NodeSilent` stands for a timeout, an end and a reset.
`Attempts` is 2 where `connect_target` finds a backup node; a second attempt
starts on a new socket.

`Channel` is the abstract specification: two ends, what each has said, what each
has been given, and how it ended. It knows nothing of requests, handshakes,
buffers or polls. `ChannelIsImplemented == Chan!ChannelSpec` says that a
session implements it, under the mapping in Session: what a node's handshake
has left counts as said by the target, replies of the proxy as given by nobody,
and the target says nothing before it is linked. `Close` is the demanding
action: a relay may end with the end of one peer's stream only after the other
peer has been sent all of it.

Abstractions: a client waits for each reply before its next field (what follows
the request need not wait); UDP ASSOCIATE is not among the commands, it is
UdpAssociate; early data, at most 16 KB, fits the send buffer of a new
connection, so `SendEarly` does not block, nor does what a handshake sends;
one session, because sessions share only atomic counters; a reload after
the connection was made is left out, since the session reads
`local_auth_enabled` no more. `cleared`, `given`, `granted` and `left` are
history.

### UdpAssociate

Two threads on the objects of one association. The handler (`HandlerInit` ...
`HandlerJoin`) answers the request, starts the worker, reads and drops what
comes on the control connection until it ends, and then stops: flag, close,
member, join, each a step. The worker (`WorkerCheck` ... `WorkerRecvfrom`) tests
the flag, polls both sockets, peeks at the control socket if it was reported,
reads the member `udp_sock` again and receives one datagram. Between the
handler's `HandlerClose` and `HandlerForget` the worker may still hold the
closed handle, which `OtherOpens` may have given to another thread's socket; a
`recvfrom` on that one is a step of its own (`WorkerIntrudes`), which may never
be taken, for that socket may be a blocking one.
`hup` is whether `WSAPoll` accepts `POLLHUP` among the requested events: Windows
documents an error for it, which the code cannot tell from a timeout, so both
behaviours are models.

A datagram is its form (with a header of SOCKS5, beginning with three zero
bytes, otherwise, too short), sender, destination and load. `Answers` and
`Intrusions` say which forms targets and strangers may send: any of them, since
the relay takes whoever sends three zero bytes for its client. `arrived`, all
that has come to the socket, is history. The queue is a set,
so datagrams overtake each other and duplicates fall together, and a `sendto`
may come to nothing.

### Json, ConfigFile and ConfigText

`Json` has `serialize` and `Parser` as recursive operators on texts whose
characters are punctuation, quotes, backslashes, blanks, comments and whole
words. `ConfigFile` has processes that load and save one file: the proxy (at its
start and at reloads) and tools. Loading reads block by block (`Reads`); saving
opens with truncation (`Truncates`) and writes block by block (`Writes`), and a
process may crash or an open may fail anywhere. A new file's default is made by
whoever finds none. Nothing keeps the processes apart: a reader may take the
beginning of one text and the rest of another (`torn`: the file was emptied
since its load began), and two writers may leave a mixture (`owner`: who
has emptied it last, "several" when another has written to it since). Both are history.

ConfigFile takes the text of a configuration and what a text gives as constants
(`TextOf`, `ConfigOf`), so that the protocol of the file can be proved for any
format; `ConfigText` is the format the code has, and every run gives it to them.
A `Config` is a port, the kill switch and the list of nodes' names: one field of
each kind (`PortOf`, `As`), so a missing field, one of another kind and a text
that cannot be parsed give the defaults that `from_json_string` gives. `Configs`
bounds what editions may make of one: three nodes in the runs.

### RestApi and OneShot

`RestApi` is one thread per connection: `ReadHeader` and `ReadBody` take some
more of the request or nothing in time, then one of the handlers acts on
`strategy`, `override` and `winproxy` and makes the answer, a value of Json that
is sent as text. A request is the length of its header, the length it declares
for its body (-1 where `Content-Length:` is not found) and the body.
`listener` says who has the port: Rift, another program, or nobody.

`OneShot` extends it with the `rft` process: the connection, the wait of two
seconds for each piece (`GivesUp`), which a program at the port that sends a
little from time to time keeps from ever passing (`Drips`), what `is_daemon_running` looks for in the text of the
answer, the parsing, the exit code, and the registry that it writes itself for
`sysproxy`. Of a Rift that ends (`RiftEnds`) the tool sees a broken connection.

## 3. The runs

| Run | Bounds | Checks |
|---|---|---|
| `pool_scan` | 2 nodes, 3 strategies, latencies 1 and 2, one caller, one sweep, `switch` to names, number, auto | `ScanInv` (the inductive invariant of the scans), `PinHonoured`, `BestIsFastest`, `FailoverInOrder`, `RoundRobinTakesTurns` |
| `pool_reload` | pools of 2 and 1 nodes, one reload, one caller, one sweep, counter to 3 | `TypeOK` (with it: no cursor leaves its vector), `OverrunBound`, `NoNeedlessFallback` |
| `conn_reload` | fifteen configurations: routing on or off with each rule and default route, and kill switch with a pool of two nodes or none; one reload, unparsable file included, and a thread serving one client after another | `ConnTypeOK`, `FallbackIsConfigured`, `SettledRoute`, `RouteIsConfigured`, and the refinement `PoolIsUsedAsSpecified` |
| `conn_health` | one node whose probes and attempts change twice, each on its own, a thread serving one client after another, the checker, one reload | liveness: `ConnectionEnds`, `SweepEnds`, `HealthConverges` |
| `process_exit` | console and service, one API thread; a user with a proxy and a bypass list too long to be read, and one without a proxy and with a shorter list; commands, reloads, events, service stop, end of input, crash at any step | `ProcessTypeOK`, `ServerRestored`, `QuitRestores`, `EnabledIsComplete`, `EndsCleanly`, and liveness `ProcessEnds` |
| `router` | every configuration of up to 2 of 19 lines, loaded one after another; hosts of up to 4 symbols, all addresses | `RouterTypeOK`, `AnswerAsDocumented`, `SoundLinesLoad` |
| `session` | three modes, clients of both protocols, every kind of greeting, field and header, whole, in two segments, wrong, or with credentials in the wrong case; authentication on, off or changed once by a reload; a piece to say on either side; limit of 1 second | `OnlyAuthenticated`, `EndsReleased`, and liveness `SessionEnds` |
| `session_relay` | HTTP; a target reached directly, through a SOCKS5 node or an HTTP node, in up to two attempts; a header of up to two lines; two pieces from the target and one from the client over connections and buffers of two | `StreamsIntact`, `CountsAgree`, and the refinement `ChannelIsImplemented` |
| `udp` | a client, two targets that answer with and without a header of SOCKS5, a stranger that sends one, three datagrams in all, a byte on the control connection, both behaviours of `WSAPoll` | `OnlyRelayed`, `NothingOutlives`, and liveness `AssociationEnds` |
| `config_file` | the proxy and one tool, writing and reading at any time; a file that is missing, saved, written by hand, or not to be parsed; two editions; names with quotes and backslashes; a text written and read in several blocks; failing opens, crashes | `WritesWhole`, `SavedOrDefault`, `LoadsWhatWasSaved` |
| `oneshot` | one tool with two commands of five, another client with one request of fourteen, two connections, Rift or another program, which may drip, or nobody at the port | `CutShortChangesNothing`, and liveness `RequestEnds`, `CommandEnds` |
| `oneshot_seen` | the same tool with one command | the disagreement of section 5 |

Why the bounds are enough for what is asked. A scan of `select_node` compares a
node with those before it, so two nodes give first and last, passed and
returned; the proofs carry the scan properties to any number of nodes, callers,
sweeps and reloads. One reload is enough for a window between two
configurations, because a second cannot begin before the first has ended (one
console). Every field that a reload stores is of one of
two configurations, and the fields that matter to one decision differ in every
way in `conn_reload`. `conn_health` has one node, because what is asked
is about one flag at a time: a sweep and a connection write the flags of
different nodes apart from each other. `OverrunBound` depends on the number of sweeps: with one sweep in
flight the counter of a node online reaches 2 and no more. In the process every
pair of main, console-event and API threads meets at every step; a second API
thread adds toggles of the same two kinds, and the proofs hold for any number of
them. So do those of the session for any pieces, bodies, windows and answers, and
those of the association for any datagrams. A connection that holds two pieces is
the smallest that takes a send in part and that a header can be read too far on;
two attempts are all that `connect_target` makes. In `session` a second reload
changes what one already did, since each session reads the flag once. Two lines
of rules are enough for what a line does to the lines after it, since
`load_rules` keeps nothing else; the proofs hold for any lines, hosts and width. Three datagrams are a request, an answer and an
intrusion, in every order, and two targets tell whom an answer is from; what the
relay keeps between datagrams is one address, and a stranger that sends three
zero bytes takes it. A text of the configuration takes several writes and more than one read, so
that parts of two saves do meet in the run; `WritesWhole` looks at
every place of every text that is written; one tool and the proxy are every pair
of a writer and a reader and, since the proxy writes a default where it finds no
file, a pair of writers too; the proofs hold for any number of tools and any
blocks. What can go wrong between them is shown by `config_torn.cfg`. A second request at the API can only change what the first
one's handler finds, and handlers share the strategy, the pin and the registry
values, each written in one step.

Deadlock is checked in the pool and connection runs. The others say
`CHECK_DEADLOCK FALSE`: a process, a session and an association end, the router
stops when an exception has left it, and the file, the tools and the API may
have nothing more to do when editions, requests and commands are used up.

Each property has a mutant in PROJECT.json: a change of the model such as a slip
in the code would make (an override loop that stops at the first node, a
comparison the wrong way round, a missing `%`, a sweep that walks the new
vector, a handshake that reads more than the header, strings written unescaped,
a `stop()` that joins before it clears its flag, a `restore()` that
skips a deleted value), with which TLC finds the property violated. The mutated
definitions stand beside the originals, marked "Mutant".

## 4. Fairness

`ConnectFairSpec`: weak fairness of the steps of a connection that is under way,
of a reload that has begun and of a sweep that has begun. The code justifies it:
threads that can run do run, and every wait for the network has a timeout
(`connect_to_host`, `recv_with_timeout`), so the step that stands for an attempt
is taken. Beyond it, strong fairness of the checker (`CheckerFairness`), used
for `HealthConverges` only: it comes back at each interval and, connections
taking `pool_mutex` again and again, gets it in the end; no mutex of Windows
promises this formally, but connections leave it for as long as a network round
trip. `HealthConverges` assumes, and says so, that no destination is refused, and
speaks only of a node whose probes and attempts both get through or both fail:
of one that answers probes and carries no attempt the flag changes for ever
(`ProbedIsOnline` in `conn_refused.cfg`). Accepting, reloading, the operator and the network are not fair.

`ProcessFairSpec`: weak fairness of each thread's steps. Reading a console line,
API requests, console events, service stops and crashes are not in it: nobody
has to type. Joins are enabled only when the joined loop will see its flag.

`SessionFairSpec`: weak fairness of the session's thread, and of each peer's
reading. The first is what Windows gives a thread that can run; a step that waits
for a peer is not enabled, except where a timeout bounds the wait
(`recv_with_timeout`, the second of `WSAPoll`, the target's send timeout). An error
of `WSAPoll` is in no fairness condition: with it, every relay would end. The
second is an assumption about the peers and not about the code:
`session_slow.cfg` drops it. Nothing makes a peer send or close: a node that
does not answer is `NodeSilent`, the end of a wait that `recv_with_timeout`
bounds.

`UdpFairSpec`: weak fairness of the handler's and of the worker's thread. The
handler's `recv` waits for the client and is enabled only when there is
something; the worker's poll always returns after 500 ms, and the relay's own
socket does not block. A `recvfrom` on a handle that is another thread's socket
(`WorkerIntrudes`) is not fair: nothing makes it return, and `AssociationEnds`
excepts a worker that is in it for ever. Clients, targets and the other threads
of the process are not fair.

`OneShotSpec`: weak fairness of each serving thread and of each tool. Every read
has a limit of time, so a step is enabled whatever the other side
does: more of the request or of the answer, or nothing in time. The limit is each
read's own: a tool at whose port a program drips on (`Drips`, which nothing
makes happen and nothing ends) does not give up, and `CommandEnds` excepts the
command that hears such dripping again and again. For Rift no such exception is
needed: it reads no more than a limited header and a body of the length declared. Sending an answer is fair,
commands, other clients, another program at the port and the end of Rift are
not.

## 5. Where the code and its documentation disagree

One is a run of the project (`expect: violation`):

| Run | Property | The code | The text |
|---|---|---|---|
| `oneshot_seen` | `DaemonIsSeen` | `src/src/oneshot_cli.cpp:72` looks for `"running":true` in the answer, where `json::serialize` puts a blank behind the colon (`src/include/json.hpp:320`): every command that probes first ends with "Rift daemon is not running" | `src/README.md:179` "You can control the running proxy server directly from any terminal window using quick subcommands" |

The others have a configuration here to be run by hand, with one of its
properties at a time; TLC finds each of these properties violated.

| Configuration | Property | The code | The text |
|---|---|---|---|
| `conn_kill.cfg` | `KillSwitchStays` | `src/src/config.cpp:116` turns a file that does not parse into a default `Config`: no node, kill switch off. A `reload` of such a file makes the next connection a direct one | `src/include/config.hpp:53` "Kill switch (prevents real IP leak if proxy drops)" |
| `conn_mix.cfg` | `FallbackOfOneConfig` | across a reload, the empty list of one configuration and the open switch of the other: a direct connection neither asks for | `src/include/config.hpp:53` |
| `conn_mix.cfg` | `RejectIsBlocked` | `src/src/router.cpp:55-56` clears the rules another thread is matching: for a moment a rejected destination follows the default route. With `Configs <- RejectDefault` and no reload: a default route of REJECT is taken for PROXY (`src/src/tunnel.cpp:54`) | `src/src/cli.cpp:126` "Connection is immediately blocked and dropped."; `src/include/config.hpp:50` |
| `conn_refused.cfg` | `FirstFailureFailsOver` | a node goes offline at its second failure, so after the first the second selection returns it again and `src/src/upstream.cpp:75` gives up; this is what `src/src/cli.cpp:153-154` announces ("fails 2 consecutive connections"), the comment is not | `src/src/upstream.cpp:72` "Attempt 1 failed -> mark failure and try failover to backup node" |
| `conn_refused.cfg` | `ProbedIsOnline` | two failed attempts take a node offline that the next probe puts online again, for ever | `src/src/cli.cpp:111` |
| `conn_refused.cfg` | `ReachableIsOnline` | a destination's refusal is charged to the node: two of them take a healthy node offline | `src/src/cli.cpp:111` "ONLINE if reachable, OFFLINE if unresponsive" |
| `pool_online.cfg` | `OnlineBelowThreshold` | a failing sweep and a success interleave: a node is online with two failures | `src/src/cli.cpp:113` "triggers auto-failover at 2" |
| `pool_online.cfg` | `OnlineHasLatency` | the same with `latency_ms`: a node is online with -1 | `src/src/cli.cpp:112` "round-trip handshake ping in milliseconds" |
| `pool_online.cfg` | `BestIsMeasured` | `init` leaves 0, the best of latencies, on nodes never measured | `src/src/cli.cpp:155-156` "lowest measured ping latency" |
| `pool_twins.cfg` | `ChargedNodeWasUsed` | two nodes with one name: the first is charged with the failures of the second | `src/src/cli.cpp:113` "consecutive connection failure counter" |
| `pool_twins.cfg` | `PinHonoured` | `switch` by a name two nodes have pins the first of them; with the constants `Ordinals`, `OrdinalNames` and `OrdinalWordsRead`, by a name that begins with digits, the node of that number | `src/src/cli.cpp:140-146` |
| `process_eof.cfg` | `RestoredOnExit` | at the end of its input `main` calls `restore()` and leaves `stop()` to a destructor (`src/src/main.cpp:194-202`), and the console handler calls `restore()` before `stop()` (`src/src/main.cpp:22-28`): `stop()` switches the proxy off (`src/src/tunnel.cpp:93`), so a proxy of the user's own stays off | `src/src/cli.cpp:182-183` "Original Windows proxy settings are backed up on startup and automatically restored when ProxyClient terminates or receives Ctrl+C." |
| `process_kill.cfg` | `BypassListReturns` | a bypass list longer than the 1024 characters of the buffer is read as none (`src/src/system_proxy.cpp:48-52`) and deleted by `restore()` (`src/src/system_proxy.cpp:130-134`) | `src/src/cli.cpp:182-183` |
| `process_kill.cfg` | `PointsAtListener` | after a reload with another port, `sysproxy on` writes a port nobody listens on | `src/src/cli.cpp:179-180` "immediately route their traffic through ProxyClient" |
| `process_kill.cfg` | `SavedIsTheUsers` | a process killed with its proxy set leaves it, and the next one backs it up as the user's | `src/src/cli.cpp:182-183` "Original Windows proxy settings are backed up on startup" |
| `router_lines.cfg` | `DoctorValidLoads` | a line with a blank pattern passes `doctor` and is dropped by the loader | `src/src/doctor.cpp:229` "rules are syntactically valid" |
| `router_lines.cfg` | `LoadReturns` | `std::stoi` on a prefix that is no number throws out of `load_rules`; no caller catches it | |
| `session_slow.cfg` | `NothingLeftBehind` | a hang-up ends the relay after one buffer, the end of one direction ends the other: what a peer sent before may stay unread | |
| `session_slow.cfg` | `TxIsSent` | early data and the request of a plain HTTP session are sent but not counted | `src/src/cli.cpp:86` "Total volume of data sent to upstream targets" |
| `session_slow.cfg` | `IdleIsSilence` | `last_io` is the time of the poll before the sends: after a send that a client held up for the limit, one silent second ends the relay | `src/src/socket_utils.cpp:318` "s inactivity limit reached" |
| `session_start.cfg` | `FieldsReadWhole` | a field of a SOCKS5 request that comes in two segments ends the session | |
| `session_start.cfg` | `PeekEnds` | in dual mode a client that sends nothing keeps its thread for ever, unlisted: the peek has no timeout | |
| `session_start.cfg` | `OnlyRightCredentials` | `src/src/http_proxy.cpp:22-23` lower-cases the base64 of the credentials and all that has been read before it compares: credentials of another case pass | |
| `session_slow.cfg` | `SessionEnds` | a client that does not read blocks the relay for ever, whatever the limit: its socket has no send timeout | |
| `session_leftover.cfg` | `NodeStaysHidden` | the last `recv` of a SOCKS5 answer may get a part of the address, or a header be longer than 8192: the rest is relayed to the client | |
| `session_leftover.cfg` | `GrantedIsTold` | " 200 " anywhere in an HTTP node's answer is taken for a success | |
| `udp_zeros.cfg` | `DatagramsMove` | both threads read the control socket: a byte the handler takes after the worker's poll leaves the worker blocked in its peek, and no datagram moves until the client sends more or leaves | |
| `udp_zeros.cfg` | `OnlyForTheClient` | any datagram that begins with three zero bytes makes its sender the client: an answer or an intrusion that does is taken for a request or turns the relay around | `src/src/socks5_udp.cpp` "Response from remote target -> encapsulate back into SOCKS5 UDP packet" |
| `udp_zeros.cfg` | `OwnSocketOnly` | between `closesocket` and the store of the member the worker may receive on a handle that is another thread's by now | |
| `udp_zeros.cfg` | `HandlerEnds` | that `recvfrom` may block, and the handler joins the worker (`src/src/socks5_udp.cpp:59-60`): both wait until something comes to the other thread's socket | |
| `config_torn.cfg` | `LoadsNeverMix` | a load that takes two reads joins the halves of two saves; two tools writing at a time leave a mixture: `save_to_file` (`src/src/config.cpp:216-224`) has no lock | |
| `config_torn.cfg` | `AddedStays` | the later of two tools saves without what the earlier added; with `Tools = {"t1"}` and `MayFail = TRUE`: a tool says "added" whether or not its save could open the file | |
| `config_torn.cfg` | `KillSwitchLoads` | a reload while the file is being written reads none or half a text: default configuration, kill switch off | `src/include/config.hpp:53` |
| `oneshot_zero.cfg` | `ZeroIsSuccess` | an answer that did not come, or cannot be parsed, is exit code 0 | |
| `oneshot_zero.cfg` | `PointsAtProxy` | when the status does not come, `rft sysproxy on` writes port 1080 whatever the proxy listens on | |
| `oneshot_zero.cfg` | `CommandAlwaysEnds` | `src/src/oneshot_cli.cpp:33-37` and `61-65` limit each `recv` to two seconds and the answer to nothing: a program at the port that sends a little from time to time keeps the command | |
| `oneshot_zero.cfg` | `WholeIsRead` | `Content-Length:` without a blank behind the colon is not found, and the body that has not come yet is not waited for | |
| `oneshot_zero.cfg` | `AnswerIsOwn` | a switch answers with the name active after it, which may be another switch's | |

These pass: `conn_reload` with the constants `Swapping`, `SwapConfigs` and `PinB`;
`ConnectionEnds` in `conn_live.cfg`, two connection threads over two nodes, each
of which may wait for the mutex that the other holds and find its node's list
replaced by a reload; and the type invariants `SessionTypeOK`, `UdpTypeOK` and
`ConfigTypeOK` in the configurations above that list them.

## 6. The proofs

All are checked by `tlapm`, for any values of the constants. What is assumed of
them are the named assumptions of the modules, which TLC evaluates on every run:
`WordAssumption`, `BoundAssumption`, `PoolAssumption`, `ValueAssumption`
(UpstreamPool), `ConfigAssumption`, `TargetAssumption` (ConnectTarget),
`ProcessAssumption`, `RelayAssumption`, `UpstreamAssumption`,
`SessionAssumption`, `PieceAssumption`, `UdpAssumption`, `RouterAssumption`,
`ConfigFileAssumption`. Five theorems need more and say so where they are stated: `PinHonouredCorrect` that the words are
`Unambiguous`, `OverrunBoundCorrect` that the sweepers are finitely many,
`SettledRouteCorrect` that no configuration has REJECT as its default
(`DefaultsAreKept`: `load_rules` turns it into PROXY), and the two of ConfigFile
that a text gives back its configuration and, cut off anywhere, nothing but the
default (`TextsAreWhole`). `TextsAreWhole` is what `config_file` checks of the code's own texts as
`WritesWhole`. Words that are not `Unambiguous` are shown by `pool_twins.cfg`, a
REJECT default by `conn_mix.cfg`: the code enforces neither condition.

What the code does not promise is an exception in the property itself, not an
assumption about the world: a toggle after the last `restore()` and texts that
do not fit the buffer in `ServerRestored` and `QuitRestores`, a file emptied
under its reader and two saves across each other in `SavedOrDefault`, whoever
sends three zero bytes in `OnlyRelayed`. Section 5 shows each of them happening.

`RouterAssumption` says of the symbols only that the lower case of one is never a
word of the rules, which are in upper case.

| Module | Theorems (property) |
|---|---|
| `UpstreamPool_proofs` | `TypeCorrect` (`TypeOK`), `OverrunBoundCorrect` (`OverrunBound`), `ScanCorrect`, `NoNeedlessFallbackCorrect`, `FailoverInOrderCorrect`, `BestIsFastestCorrect`, `PinHonouredCorrect`, `RoundRobinTakesTurnsCorrect` (the properties of these names) |
| `ConnectTarget_proofs` | `ConnTypeCorrect` (`ConnTypeOK`), `PoolIsUsedAsSpecifiedCorrect`, `ServerNeverFallsBackNeedlessly` (`NoNeedlessFallback`), `FallbackCorrect` (`FallbackIsConfigured`), `SettledRouteCorrect` (`SettledRoute`), `RouteIsConfiguredCorrect` (`RouteIsConfigured`) |
| `RiftProcess_proofs` | `ProcessTypeCorrect` (`ProcessTypeOK`), `EndsCleanlyCorrect` (`EndsCleanly`), `ServerRestoredCorrect` (`ServerRestored`), `QuitRestoresCorrect` (`QuitRestores`), `EnabledIsCompleteCorrect` (`EnabledIsComplete`) |
| `Session_proofs` | `SessionInvariant`, `SessionTypeCorrect` (`SessionTypeOK`), `NobodyUnauthenticated` (`OnlyAuthenticated`), `AllEndsReleased` (`EndsReleased`) |
| `SessionStreams_proofs` | `NothingLostOrDoubled` (`StreamsIntact`), `CountersAreExact` (`CountsAgree`), `SessionIsAChannel` (`ChannelIsImplemented`) |
| `Router_proofs` | `RouterTypeCorrect` (`RouterTypeOK`), `AnswerAsDocumentedCorrect` (`AnswerAsDocumented`), `SoundLinesLoadCorrect` (`SoundLinesLoad`) |
| `ConfigFile_proofs` | `SavedOrDefaultCorrect` (`SavedOrDefault`), `LoadsWhatWasSavedCorrect` (`LoadsWhatWasSaved`) |
| `UdpAssociate_proofs` | `UdpTypeCorrect` (`UdpTypeOK`), `NothingOutlivesTheHandler` (`NothingOutlives`), `OnlyRelayedCorrect` (`OnlyRelayed`) |

**UpstreamPool.** `TypeOK` is inductive as it stands, because it relates the
cursors to the vectors: `crit.i` lies in the present vector and each sweep's
position in the vector it copied. One lemma per group of actions (scans, marks,
sweeps, operator, reload), each over the parts `ListOK`, `NodeOK`, `ModeOK`,
`InsideOK`, `HeldOK`, `SweepOK`, `WindowOK`.

What a scan promises when it returns does not follow from the state it returns
in: the sweeps may have changed every node since it looked. `ScanInv` says what
the scan has established by the time it stands where it stands, in terms of what
was seen since the mutex was taken: each object has been seen in its present
state (`Seen`), nodes passed by the pin's loop, by the failover loop and by the
latency loop were offline at some moment or no better than the best so far. It
holds relative to `TypeOK`. The action properties of the step that returns follow
from it and, for `PinHonoured`, from a second invariant that relates the pin to
what the operator last asked for.

`OverrunBound` speaks of settled nodes only; `OverrunInv` bounds every object's
counter at any moment by two and the sweeps that have not yet stored what they
read of it (`Failing`), whose number is a cardinality.

`RoundRobinTakesTurns` speaks of the last two turns and of the counter, which
is only ever used modulo the length of the vector. The lemmas `DivMod` to
`ModSucc` say what one more does to a remainder when the divisor stays, and, since
`RRPeriod` is a multiple of every length, that it does the same when the counter
turns over (`CounterSucc`). `TurnInv` relates the counter to the last turn taken
and to how far the present scan has gone round; every node between the two has
been passed in this call and was offline at some moment of it. A reload starts anew;
calls under another strategy take no turn.

**ConnectTarget.** The refinement: initial states map to initial states, every
step of the server is a step of the pool or leaves it alone, which needs
`ConnTypeOK` because a mark is only a step of the pool when its thread holds a
node. Properties of the pool are so carried to the server
(`ServerNeverFallsBackNeedlessly`). `FallbackIsConfigured` is not inductive,
`FallbackInv` is: it adds where a reload stands (which configuration the switch
and the vector are of), that a running connection remembers every configuration
in force, and that one which found no node remembers a configuration without
one. `SettledRoute` needs the same of the router: `LoadedInv` says which fields a
reload has stored at each of its steps, `CalmInv` that a connection no reload has
met has seen one configuration and stands where that one sends it.
`RouteIsConfigured`, of the connections a reload does meet, takes from `LoadedInv`
that each field in place is of a configuration in force, and from `FallbackInv`
that the connection remembers these; `RoutedInv` keeps the one that let it go on
to the pool.

**RiftProcess.** The state is what each thread has still to do, so the proofs are
about lists of operations. `Invariant` says which operations a list may hold
(`Types`, `ApiOK`, `CtrlOK`) and in which order main's come (`MainOK`, `StartOK`: a
command is read only where the loop follows, nothing runs before `start()`).
Lemmas over lists (`Replaced`, `AheadReplaced`, `TailTail`) say what becomes of
such statements when a head is replaced by a body.

- `EndsCleanly`: for every flag that is set, what stops its service is ahead on
  main's list of anything that would destroy the thread or end the process; for
  every thread to be joined, its join or that stop (`Clean`).
- `ServerRestored`, `QuitRestores`: `RestoreInv`. Before `init()` nothing has
  happened (`FreshOK`) and it saves what was found (`SavedOK`); every write on any
  list puts back what was saved or switches off (`ListsOK`); a thread in its
  `restore()` still has the rest of its writes at the head of its list, and what
  it has written stands, whatever others write (`ProgressOK`), up to a toggle,
  which is seen as one; a process ends only past its restore (`ExitLast`,
  `GuardedOK`, `EndedOK`). After `quit` nobody is left to stop the server, so
  no write of `stop()` follows (`QuitOK`).
- `EnabledIsComplete`: `EnablesOK`. On every list the three writes of `enable()`
  stand in their order and to their end (`Orderly`); while nothing has been
  restored the only other write is that of `stop()`, which switches off; so when
  the proxy is switched on the server and the bypass list are written, or still
  on some list, and by the time the bypass list is written a server is.

**Session, Relay, Upstream.** `SessionInv` says what the thread holds at each
of its points: which sockets are open, what of the input has been consumed, what
is in the buffer, which requests and nodes got it there (`Owned`, `InputOK`,
`ChunkOK`, `ClearedOK`, `NodeOK`, `ShakingOK`). `OnlyAuthenticated` and
`EndsReleased` are read off it. `StreamsInv` adds where each part of the two
streams is: what a socket was given begins what is meant for it, and what
follows is in the thread's hands, held back with the header or by the handshake
with a node, or not yet received, in this order. `CountsAgree` follows from a
statement of the same kind about the counters. The refinement of Channel takes
from `StreamsInv` that the next part given to an end is the next part the other
said, and that a stream the channel ends has been heard.

**Router.** Most of the work is about text. `Induction` and `Least` carry the
induction over numbers: they are about sets, not about predicates, and follow
from the library's well-foundedness of `<`. With them: `PushedDef` (the recursive
function that `Pushed` is defined by exists), `PushedStays` (a token that has
been pushed stays in its place), so that the tokens of a sound line are its
fields (`SoundTokens`); `RulesOfOK` and `RulesOfSound` (a line gives at most one
rule, none when it throws, and a sound one the rule `RuleFor`); `SuffixOK`,
`OccursAt`, `BlockOK` and with them `MatchesOK`: that rule matches exactly the
hosts the help text describes. `RouterInv` then says where the rule of each line
loaded so far is (`RulesPlaced`, an increasing function onto the rules), that
while every line is sound the rules have their lines' numbers (`SoundSoFar`), and
that an answer is that of the first match among the present rules, which none of
the three properties says of itself.

**ConfigFile.** `FileInv`: a process that writes, and was the last to empty the
file, has put the beginning of its text into it (`WriterOK`, `PutNext`); one that
reads, and under whom nobody has emptied the file, has read its beginning
(`ReaderOK`, `ReadNext`); a file that comes from one save gives what somebody has
saved in whole or the default, and what was saved last when nobody has left a save
unfinished (`ContentOK`); what each process holds at each of its points
(`HeldOK`). The work is in `WritesAcross` and `WritesOwn`, a block written by a
process that has been overtaken and by one that has not, and in `ReadsEffect`. A
crash leaves the beginning of a text behind, and a load may end in the middle of
a save, which is why a beginning must not be another configuration's text.

**UdpAssociate.** `UdpInv`: the two threads and the socket are in step with each
other (`InStep`), so that the handler cannot return past a worker. `OnlyRelayed` is
about a history; `RelayedInv` adds that the address learnt has sent three zero
bytes and that every datagram waiting in the queue has arrived. No condition is
put on what anybody sends.

## 7. What is only model-checked, what is not modelled

Only model-checked:

- all liveness, which is out of TLAPS's reach here: that every sweep,
  connection, session, association, request, command and process comes to an end,
  with the exceptions stated, and that the alive flags end up right;
- Json (`WritesWhole`), RestApi and OneShot (`CutShortChangesNothing`): the parser
  and the serializer are recursive operators, as in the code, and what they compute
  for every text would be an induction over data. Of the configuration file the
  protocol is proved and the text is checked.

Not modelled:

- the logger, the build files and the scripts: output, and nothing that runs;
- the console's and the tools' printed text, `rft test`, installing and removing
  the service, `doctor`'s checks of the machine (it makes connections and
  prints; only its rule check is compared);
- `parse_proxy_line` and `test_node` of the configuration tool: conversions of
  an address someone typed, and a connection whose result is printed;
- the members of `Config` that no modelled operation reads (the log flag, the
  bypass list as more than one text, the interval of the checker), editions that
  change them, and timeouts as numbers: a wait ends or it does not;
- base64, addresses, header text: pieces and kinds;
- another process writing the registry in the middle of `init`, and crashes of
  the unlocked `config` and `rules` (undefined behaviour): the outcomes that
  return a value are modelled, a crash of the iteration over freed storage is
  not.

## 8. Plan

Done, in this order: UpstreamPool with its proofs; ConnectTarget over it, the
refinement and `FallbackCorrect`; RiftProcess; Router; Relay and Session;
Upstream under Session, and Channel above it; UdpAssociate; Json and ConfigFile;
RestApi and OneShot; then the proofs of UdpAssociate, of Session (its invariant,
its streams, its refinement of Channel), of the rest of ConnectTarget and of
UpstreamPool, and of RiftProcess; last the turns of ROUND_ROBIN, the protocol of
the configuration file apart from its text, and the router for any lines.

What would come next:

1. The API over requests as values, as the file was done: `RestApi` with the
   meaning of a body as a constant, and `CutShortChangesNothing` from the
   condition that what is cut off does not parse.
2. The text itself: that `FromText` undoes `ToText` for every configuration needs
   induction over the recursive serializer, by another prover.
