-------------------------------- MODULE OneShot --------------------------------
(***************************************************************************)
(* `rft <command>` (src/oneshot_cli.cpp): a short-lived process that asks  *)
(* whoever listens at the API's port, the proxy of RestApi or another      *)
(* program, and writes the registry itself for sysproxy.                   *)
(***************************************************************************)
EXTENDS RestApi

CONSTANTS
    Tools,      \* such processes
    Commands,   \* what they may be told
    MaxCommands \* bound: commands given

Cmd(name, path, body) == [name |-> name, path |-> path, body |-> body]
StatusPath == "GET /api/status"

VARIABLES
    cmd, pt,    \* pt[p]: program point of the process
    link,       \* link[p]: its connection, in Conns, or none
    heard,      \* heard[p]: what the last call has returned
    code,       \* code[p]: exit code of its last command, "none" before it ends
    given,
    dripping    \* the processes with a piece to receive, and no end in sight

toolVars == <<cmd, pt, link, heard, code, given, dripping>>
vars == <<apiVars, toolVars>>

NoLink == "none"
NoCmd == Cmd("none", "none", <<>>)
Calling == {"port", "probe", "ask"}     \* at a call of http_get or http_post
Waiting == [port |-> "port_wait", probe |-> "probe_wait", ask |-> "ask_wait"]
Then == [port_wait |-> "enable", probe_wait |-> "probed", ask_wait |-> "told"]

OneShotInit ==
    /\ ApiInit
    /\ cmd = [p \in Tools |-> NoCmd] /\ pt = [p \in Tools |-> "idle"]
    /\ link = [p \in Tools |-> NoLink] /\ heard = [p \in Tools |-> <<>>]
    /\ code = [p \in Tools |-> "none"] /\ given = 0
    /\ dripping = {}

Point(p, x) == pt' = [pt EXCEPT ![p] = x]
Exit(p, n) == Point(p, "idle") /\ code' = [code EXCEPT ![p] = n]

\* execute_subcommand.  "off" writes at once; "test" makes a connection of its
\* own and is left out.
Given(p) ==
    /\ pt[p] = "idle" /\ given < MaxCommands /\ given' = given + 1
    /\ \E k \in Commands :
          /\ cmd' = [cmd EXCEPT ![p] = k] /\ code' = [code EXCEPT ![p] = "none"]
          /\ Point(p, CASE k.name = "on" -> "port" [] k.name = "off" -> "disable"
                        [] OTHER -> "probe")
    /\ UNCHANGED <<apiVars, link, heard, dripping>>

-----------------------------------------------------------------------------
(* http_get and http_post.                                                 *)

SentBy(p) == IF pt[p] = "ask" THEN Request(cmd[p].path, cmd[p].body)
             ELSE Request(StatusPath, <<>>)

Calls(p) ==
    /\ pt[p] \in Calling
    /\ \E c \in Conns : Accept(c, SentBy(p)) /\ link' = [link EXCEPT ![p] = c]
    /\ Point(p, Waiting[pt[p]]) /\ heard' = [heard EXCEPT ![p] = <<>>]
    /\ UNCHANGED <<asked, cmd, code, given, dripping>>

\* Nobody listens, or does not answer the connection in two seconds.
CallFails(p) ==
    /\ pt[p] \in Calling /\ Point(p, Then[Waiting[pt[p]]])
    /\ heard' = [heard EXCEPT ![p] = <<>>]
    /\ UNCHANGED <<apiVars, cmd, link, code, given, dripping>>

\* extract_http_body.
BodyOf(t) ==
    IF \E i \in DOMAIN t : t[i] = "end"
    THEN SubSeq(t, 1 + CHOOSE i \in DOMAIN t : t[i] = "end" /\ \A j \in 1..(i - 1) : t[j] # "end",
                Len(t))
    ELSE t

\* What comes of the texts that may arrive.
Understood ==
    [t \in {BodyOf(x) : x \in UNION {Parts(Response[v]) : v \in Values} \cup Foreign \cup {<<>>}}
        |-> Parse(t)]

Hears(p, t) ==
    /\ heard' = [heard EXCEPT ![p] = BodyOf(t)] /\ Point(p, Then[pt[p]])
    /\ link' = [link EXCEPT ![p] = NoLink] /\ dripping' = dripping \ {p}
    /\ UNCHANGED <<cmd, code, given>>

\* A thread answers its client, or one that has gone.
Reply(c) ==
    \/ \E p \in Tools : /\ link[p] = c
                        /\ \E t \in (IF at[c] = "reply" THEN Parts(Response[answer[c]]) ELSE Foreign) :
                              Replies(c, t) /\ Hears(p, t)
    \/ /\ \A p \in Tools : link[p] # c
       /\ \E t \in Foreign \cup {<<>>} : Replies(c, t)
       /\ UNCHANGED toolVars

\* Another program sends a piece of something that has no end.
Drips(p) ==
    /\ pt[p] \in DOMAIN Then /\ p \notin dripping
    /\ \E c \in Conns : link[p] = c /\ at[c] = "foreign"
    /\ dripping' = dripping \cup {p}
    /\ UNCHANGED <<apiVars, cmd, pt, link, heard, code, given>>

\* recv() has it, and the loop goes round: two seconds more.
Takes(p) ==
    /\ p \in dripping /\ dripping' = dripping \ {p}
    /\ UNCHANGED <<apiVars, cmd, pt, link, heard, code, given>>

\* Mutant: recv() without a limit.
GivesUpNever(p) == FALSE /\ UNCHANGED vars

\* Nothing in the two seconds of one recv(), or the connection was closed
\* without an answer; the thread that serves it does not know.  Pieces without
\* an end make no answer that could be read.
GivesUp(p) ==
    /\ pt[p] \in DOMAIN Then /\ p \notin dripping /\ Point(p, Then[pt[p]])
    /\ link' = [link EXCEPT ![p] = NoLink]
    /\ UNCHANGED <<apiVars, cmd, heard, code, given, dripping>>

-----------------------------------------------------------------------------
(* What a command makes of an answer.                                      *)

Occurs(s, t) == \E i \in 0..(Len(t) - Len(s)) : SubSeq(t, i + 1, i + Len(s)) = s
RunningText == <<Quote, "running", Quote, ":", "true">>

\* is_daemon_running.  check does not look at what its list of nodes returns.
Probed(p) ==
    /\ pt[p] = "probed"
    /\ IF Occurs(RunningText, heard[p]) THEN Point(p, "ask") /\ UNCHANGED code
       ELSE Exit(p, IF cmd[p].name = "check_nodes" THEN "0" ELSE "not_running")
    /\ UNCHANGED <<apiVars, cmd, link, heard, given, dripping>>

Says(t, key) ==
    Understood[t].ok /\ As("bool", Field(Understood[t].value, key), FALSE)

\* An answer that cannot be parsed is printed, and that is success.  check does
\* not look at its own and lists the nodes.
Told(p) ==
    /\ pt[p] = "told"
    /\ CASE cmd[p].name = "check" ->
               /\ Point(p, "probe") /\ UNCHANGED code
               /\ cmd' = [cmd EXCEPT ![p] = Cmd("check_nodes", "GET /api/nodes", <<>>)]
         [] cmd[p].name \in {"switch", "strategy"} ->
               /\ Exit(p, IF Understood[heard[p]].ok /\ ~Says(heard[p], "success") THEN "1" ELSE "0")
               /\ UNCHANGED cmd
         [] OTHER -> Exit(p, "0") /\ UNCHANGED cmd
    /\ UNCHANGED <<apiVars, link, heard, given, dripping>>

\* "sysproxy on": the port the answer names, 1080 when there is none.
Enables(p) ==
    /\ pt[p] = "enable"
    /\ winproxy' = IF Understood[heard[p]].ok
                   THEN As("num", Field(Understood[heard[p]].value, "local_port"), "1080")
                   ELSE "1080"
    /\ Exit(p, "0")
    /\ UNCHANGED <<listener, poolVars, connVars, asked, cmd, link, heard, given, dripping>>

Disables(p) ==
    /\ pt[p] = "disable" /\ winproxy' = "off" /\ Exit(p, "0")
    /\ UNCHANGED <<listener, poolVars, connVars, asked, cmd, link, heard, given, dripping>>

ToolStep(p) == Calls(p) \/ CallFails(p) \/ Takes(p) \/ GivesUp(p) \/ Probed(p)
               \/ Told(p) \/ Enables(p) \/ Disables(p)

OneShotNext ==
    \/ \E c \in Conns : ServeStep(c) /\ UNCHANGED toolVars
    \/ \E c \in Conns : Reply(c)
    \/ \E c \in Conns : Asks(c) /\ UNCHANGED toolVars
    \/ \E p \in Tools : ToolStep(p) \/ Given(p) \/ Drips(p)
    \/ RiftEnds /\ UNCHANGED toolVars

\* Every read of either side has a limit of time, so each goes on; another
\* program need not answer, nor come to an end of its answer.
OneShotSpec ==
    /\ OneShotInit /\ [][OneShotNext]_vars
    /\ \A c \in Conns :
          WF_vars((ServeStep(c) /\ UNCHANGED toolVars) \/ (at[c] = "reply" /\ Reply(c)))
    /\ \A p \in Tools : WF_vars(ToolStep(p))

-----------------------------------------------------------------------------
(* Properties.                                                             *)

Served(c) == at[c] = "handle" /\ at'[c] # "handle"
Missing(c) == SubSeq(req[c].body, got[c] - req[c].head, Len(req[c].body))

\* A request whose body was cut short by a client that was slow or has gone
\* changes nothing: neither the pinned node, nor the strategy, nor the system
\* proxy (api_server.cpp:106-110 goes on with what there is).
CutShortChangesNothing ==
    [][\A c \in Conns :
         Served(c) /\ listener' = "rift" /\ (\E i \in DOMAIN Missing(c) : Missing(c)[i] \notin Blanks)
         => UNCHANGED <<poolVars, winproxy>>]_vars

\* Every request that the API has accepted ends, answered or not, whatever
\* its client does: none holds a thread for ever.
RequestEnds == \A c \in Conns : at[c] \notin {"none", "foreign"} ~> at[c] \in {"none", "foreign"}

\* Every one-shot command ends, whoever is at the port and whatever it does,
\* unless it goes on sending pieces for ever: each recv() has its two seconds,
\* the answer as a whole has no limit.
CommandEnds ==
    \A p \in Tools : []<>(p \in dripping) \/ (pt[p] # "idle" ~> pt[p] = "idle")

\* Every one-shot command ends.
CommandAlwaysEnds == \A p \in Tools : pt[p] # "idle" ~> pt[p] = "idle"

\* A proxy that says it is running is not reported as not running.
DaemonIsSeen ==
    [][\A p \in Tools :
         pt[p] = "probed" /\ Says(heard[p], "running") => code'[p] # "not_running"]_vars

\* A switch or a strategy whose command exits with 0 was carried out, which
\* only an answer of success can say.
ZeroIsSuccess ==
    [][\A p \in Tools :
         pt[p] = "told" /\ cmd[p].name \in {"switch", "strategy"} /\ code'[p] = "0"
         => Says(heard[p], "success")]_vars

\* "sysproxy on" sends Windows to the port of the proxy that runs.
PointsAtProxy ==
    [][\A p \in Tools : pt[p] = "enable" /\ pt'[p] = "idle" /\ listener = "rift"
                        => winproxy' = ProxyPort]_vars

\* A body that its client has sent without a pause is handled whole.
WholeIsRead ==
    \A c \in Conns : at[c] = "handle" /\ ~short[c] => got[c] = Total(req[c])

\* What a client is told to be active is what it has switched to.
AnswerIsOwn ==
    [][\A c \in Conns :
         at[c] = "switched" /\ at'[c] = "reply"
         => LET node == Field(Input(c).value, "node")[2] IN
            node \in Auto \/ answer'[c] = Done(Pinned(node))]_vars
=============================================================================
