-------------------------------- MODULE RestApi --------------------------------
(***************************************************************************)
(* The REST API (src/api_server.cpp): a thread for each connection reads   *)
(* one request, acts on the pool and the system proxy and answers.         *)
(*                                                                         *)
(* A request is its header, as so many characters, the characters that end *)
(* it and its body, a text of Json; a recv gives some more of it, as many  *)
(* as the client and the network have brought, or nothing in time.  Its    *)
(* clients are OneShot's and any other program that speaks HTTP.           *)
(*                                                                         *)
(* Each handler is one step for the pool, but for the two of a switch; the *)
(* steps of the pool are UpstreamPool's, those of the registry             *)
(* RiftProcess's.                                                          *)
(***************************************************************************)
EXTENDS Json

CONSTANTS
    Conns,      \* connections, and the threads that serve them
    Nodes,      \* names of the pool's nodes, strings of Json
    Requests,   \* what clients send
    HeadLimit, ReadBlock,   \* req.size() limit and sizeof(buf)
    ProxyPort,  \* local_port, of Numerals
    Foreign,    \* what another program at the API's port answers
    MaxRequests \* bound: requests of other clients

Strategies == [failover |-> "FAILOVER", best_latency |-> "BEST_LATENCY",
               round_robin |-> "ROUND_ROBIN"]
Auto == {<<"auto">>, <<"default">>}

\* The request of a client that says how long the body is.
Request(path, body) == [path |-> path, head |-> 1, declared |-> Len(body), body |-> body]
NoRequest == Request("none", <<>>)

ASSUME RestApiAssumption ==
    /\ ProxyPort \in Numerals /\ "user" \notin Numerals
    /\ HeadLimit \in Nat \ {0} /\ ReadBlock \in Nat \ {0} /\ MaxRequests \in Nat
    /\ \A r \in Requests : r.head \in Nat \ {0} /\ r.declared \in Nat \cup {-1}

VARIABLES
    listener,   \* who listens at the API's port: "rift", "other" or "nobody"
    strategy, override,     \* of the pool
    winproxy,   \* where Windows sends its traffic: "user" (as before), a port
    at,         \* at[c]: program point of the thread
    req, got,   \* got[c]: how much of req[c] it has read
    answer,     \* answer[c]: the value it will send
    short,      \* history: short[c], nothing came in time before the body was whole
    asked       \* requests of other clients so far

poolVars == <<strategy, override>>
connVars == <<at, req, got, answer, short>>
apiVars == <<listener, poolVars, winproxy, connVars, asked>>

Total(r) == r.head + 1 + Len(r.body)
BodyRead(r, n) == SubSeq(r.body, 1, n - r.head - 1)

ApiInit ==
    /\ listener \in {"rift", "other", "nobody"}
    /\ strategy = "failover" /\ override = <<>> /\ winproxy = "user"
    /\ at = [c \in Conns |-> "none"] /\ req = [c \in Conns |-> NoRequest]
    /\ got = [c \in Conns |-> 0] /\ answer = [c \in Conns |-> Null]
    /\ short = [c \in Conns |-> FALSE] /\ asked = 0

-----------------------------------------------------------------------------
(* listen_loop, and the reading of a request.                              *)

Goes(c, p) == at' = [at EXCEPT ![c] = p]

Accept(c, r) ==
    /\ listener # "nobody" /\ at[c] = "none"
    /\ Goes(c, IF listener = "rift" THEN "header" ELSE "foreign")
    /\ req' = [req EXCEPT ![c] = r]
    /\ UNCHANGED <<listener, poolVars, winproxy, got, answer, short>>

Closed(c) ==
    /\ Goes(c, "none") /\ req' = [req EXCEPT ![c] = NoRequest]
    /\ got' = [got EXCEPT ![c] = 0] /\ answer' = [answer EXCEPT ![c] = Null]
    /\ short' = [short EXCEPT ![c] = FALSE]

\* After n characters: what comes next, and the loop that does not end at the
\* end of the header when that is not found.
AfterHeader(r, n) ==
    IF n > r.head
    THEN IF r.declared > Len(BodyRead(r, n)) THEN "body" ELSE "handle"
    ELSE IF n >= HeadLimit THEN "close" ELSE "header"

Received(c) ==
    {n \in (got[c] + 1)..(got[c] + ReadBlock) : n <= Total(req[c])}

ReadHeader(c) ==
    /\ at[c] = "header"
    /\ \E n \in Received(c) :
          IF AfterHeader(req[c], n) = "close" THEN Closed(c)
          ELSE /\ got' = [got EXCEPT ![c] = n] /\ Goes(c, AfterHeader(req[c], n))
               /\ UNCHANGED <<req, answer, short>>
    /\ UNCHANGED <<listener, poolVars, winproxy, asked>>

\* Nothing in five seconds, or the client has gone.
HeaderFails(c) ==
    /\ at[c] = "header" /\ Closed(c)
    /\ UNCHANGED <<listener, poolVars, winproxy, asked>>

ReadBody(c) ==
    /\ at[c] = "body"
    /\ \E n \in Received(c) :
          /\ got' = [got EXCEPT ![c] = n]
          /\ Goes(c, IF Len(BodyRead(req[c], n)) < req[c].declared THEN "body" ELSE "handle")
    /\ UNCHANGED <<listener, poolVars, winproxy, req, answer, short, asked>>

\* Mutant: the loop goes on when nothing has come.
BodyFailsRetries(c) == at[c] = "body" /\ UNCHANGED apiVars

\* Nothing in two seconds, or the client has gone: the body is what there is.
BodyFails(c) ==
    /\ at[c] = "body" /\ Goes(c, "handle") /\ short' = [short EXCEPT ![c] = TRUE]
    /\ UNCHANGED <<listener, poolVars, winproxy, req, got, answer, asked>>

-----------------------------------------------------------------------------
(* What is answered: the fields that somebody looks at.                    *)

Status == Obj([running |-> Bool(TRUE), local_port |-> Num(ProxyPort)])
Listed(what) == Obj([k \in {what} |-> Arr(<<>>)])   \* get_nodes, get_rules
Failed(why) == Obj([success |-> Bool(FALSE), message |-> Str(<<why>>)])
Done(m) == Obj([success |-> Bool(TRUE), message |-> Str(m)])
NotFound == Obj([error |-> Str(<<"Endpoint not found">>)])

Pinned(n) == <<"MANUAL", "(">> \o n \o <<")">>
\* get_active_strategy_name.
ActiveName == IF override # <<>> THEN Pinned(override) ELSE <<Strategies[strategy]>>
ActiveNames == {Pinned(n) : n \in Range(Nodes)} \cup {<<Strategies[x]>> : x \in DOMAIN Strategies}
Values == {Null, Status, Listed("nodes"), Listed("rules"), NotFound, Done(<<>>)}
          \cup {Failed(w) : w \in {"parse", "required", "not found", "strategy"}}
          \cup {Done(m) : m \in ActiveNames}

\* build_http_response; a 204 has no body.
Response == [v \in Values |-> <<"head", "end">> \o (IF v = Null THEN <<>> ELSE Serialize(v))]

-----------------------------------------------------------------------------
(* The handlers.                                                           *)

\* What the bodies, and what comes of them when they are cut short, parse to.
Meaning == [t \in UNION {{SubSeq(r.body, 1, n) : n \in 0..Len(r.body)} : r \in Requests}
               |-> Parse(t)]
Input(c) == Meaning[BodyRead(req[c], got[c])]

Answers(c, v) == answer' = [answer EXCEPT ![c] = v] /\ Goes(c, "reply")
Handling(c, path) ==
    /\ at[c] = "handle" /\ req[c].path = path
    /\ UNCHANGED <<listener, req, got, short, asked>>

Reads == {"GET /api/status", "GET /api/nodes", "GET /api/rules", "OPTIONS", "404"}

\* The requests that change nothing; 404 is every other path.
HandleGet(c) ==
    /\ \E p \in Reads : Handling(c, p)
    /\ Answers(c, CASE req[c].path = "GET /api/status" -> Status
                    [] req[c].path = "GET /api/nodes" -> Listed("nodes")
                    [] req[c].path = "GET /api/rules" -> Listed("rules")
                    [] req[c].path = "OPTIONS" -> Null
                    [] OTHER -> NotFound)
    /\ UNCHANGED <<poolVars, winproxy>>

\* run_health_check_all: UpstreamPool's sweep, for as long as it takes.
HandleCheck(c) ==
    /\ Handling(c, "POST /api/check") /\ Answers(c, Listed("nodes"))
    /\ UNCHANGED <<poolVars, winproxy>>

\* handle_post_switch: manual_select, and then the name of what is active.
HandleSwitch(c) ==
    /\ Handling(c, "POST /api/switch")
    /\ IF ~Input(c).ok THEN Answers(c, Failed("parse")) /\ UNCHANGED override
       ELSE LET node == As("str", Field(Input(c).value, "node"), <<>>) IN
            CASE node = <<>> -> Answers(c, Failed("required")) /\ UNCHANGED override
              [] node \in Auto \cup Range(Nodes) ->
                    /\ override' = IF node \in Auto THEN <<>> ELSE node
                    /\ Goes(c, "switched") /\ UNCHANGED answer
              [] OTHER -> Answers(c, Failed("not found")) /\ UNCHANGED override
    /\ UNCHANGED <<strategy, winproxy>>

SwitchAnswer(c) ==
    /\ at[c] = "switched"
    /\ Answers(c, Done(ActiveName))
    /\ UNCHANGED <<listener, poolVars, winproxy, req, got, short, asked>>

HandleStrategy(c) ==
    /\ Handling(c, "POST /api/strategy")
    /\ LET word == IF Input(c).ok THEN As("str", Field(Input(c).value, "strategy"), <<>>)
                   ELSE <<>> IN
       IF Len(word) = 1 /\ Last(word) \in DOMAIN Strategies
       THEN /\ strategy' = Last(word) /\ override' = <<>>
            /\ Answers(c, Done(<<Strategies[Last(word)]>>))
       ELSE Answers(c, Failed("strategy")) /\ UNCHANGED poolVars
    /\ UNCHANGED winproxy

\* Mutant: a body that cannot be parsed counts as one without fields.
HandleSysproxyAnyway(c) ==
    /\ Handling(c, "POST /api/sysproxy")
    /\ winproxy' = IF Input(c).ok /\ As("bool", Field(Input(c).value, "enable"), FALSE)
                   THEN ProxyPort ELSE "off"
    /\ Answers(c, Done(<<>>))
    /\ UNCHANGED poolVars

HandleSysproxy(c) ==
    /\ Handling(c, "POST /api/sysproxy")
    /\ IF ~Input(c).ok THEN Answers(c, Failed("parse")) /\ UNCHANGED winproxy
       ELSE /\ winproxy' = IF As("bool", Field(Input(c).value, "enable"), FALSE)
                           THEN ProxyPort ELSE "off"
            /\ Answers(c, Done(<<>>))
    /\ UNCHANGED poolVars

Handle(c) == HandleGet(c) \/ HandleCheck(c) \/ HandleSwitch(c) \/ HandleStrategy(c)
             \/ HandleSysproxy(c)

-----------------------------------------------------------------------------
(* What a client receives of an answer: all, or what came before a silence *)
(* or the end of the connection; OneShot says what becomes of it.          *)

Parts(t) == {<<>>, SubSeq(t, 1, Len(t) - 1), t}

Replies(c, t) ==
    /\ \/ at[c] = "reply" /\ t \in Parts(Response[answer[c]])
       \/ at[c] = "foreign" /\ t \in Foreign
    /\ Closed(c) /\ UNCHANGED <<listener, poolVars, winproxy, asked>>

\* Another client's request.
Asks(c) ==
    /\ asked < MaxRequests /\ asked' = asked + 1
    /\ \E r \in Requests : Accept(c, r)

\* The proxy ends, with every thread of it.
RiftEnds ==
    /\ listener = "rift" /\ listener' = "nobody"
    /\ at' = [c \in Conns |-> "none"] /\ req' = [c \in Conns |-> NoRequest]
    /\ got' = [c \in Conns |-> 0] /\ answer' = [c \in Conns |-> Null]
    /\ short' = [c \in Conns |-> FALSE]
    /\ UNCHANGED <<poolVars, winproxy, asked>>

ServeStep(c) == ReadHeader(c) \/ HeaderFails(c) \/ ReadBody(c) \/ BodyFails(c)
                \/ Handle(c) \/ SwitchAnswer(c)
=============================================================================
