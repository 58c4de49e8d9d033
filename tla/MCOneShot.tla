------------------------------- MODULE MCOneShot -------------------------------
(* Constants of the TLC runs of OneShot. *)
EXTENDS OneShot

Body(key, value) == <<"{", Quote, key, Quote, ":">> \o value \o <<"}">>
Text(s) == <<Quote>> \o s \o <<Quote>>
SwitchBody(n) == Body("node", Text(n))

MCNodes == <<<<"a">>, <<"b">>>>

Post(path, body) == Request("POST /api/" \o path, body)

\* Another client: a switch, a node there is not, the strategy, the system
\* proxy, no field, a body shorter than its length; a header without an end
\* within the limit.  A length without the blank before it is not found.
MCRequests ==
    {Post("switch", SwitchBody(<<"b">>)), Post("switch", SwitchBody(<<"x">>)),
     Post("switch", <<"{", "}">>), Post("strategy", Body("strategy", Text(<<"round_robin">>))),
     Post("strategy", Body("strategy", Text(<<"x">>))),
     Post("sysproxy", Body("enable", <<"true">>)), Post("sysproxy", <<"{", "}">>),
     Post("check", <<"{", "}">>), Request("OPTIONS", <<>>), Request("404", <<>>),
     Request("GET /api/rules", <<>>), Post("switch", SwitchBody(<<"a">>)),
     [Post("sysproxy", <<"{", "}">>) EXCEPT !.declared = 3],
     [Request("404", <<>>) EXCEPT !.head = 4]}

\* Switches to either node, one of them with its length not found.
MCByHand ==
    {Post("switch", SwitchBody(n)) : n \in {<<"a">>, <<"b">>}}
    \cup {[Post("switch", SwitchBody(<<"b">>)) EXCEPT !.declared = -1]}

MCCommands ==
    {Cmd("status", StatusPath, <<>>), Cmd("on", "", <<>>), Cmd("off", "", <<>>),
     Cmd("switch", "POST /api/switch", SwitchBody(<<"a">>)),
     Cmd("check", "POST /api/check", <<"{", "}">>)}

\* Another program: a status as the README writes it, an answer of its own, one
\* that is no JSON.
MCForeign ==
    {<<"head", "end", "{", Quote, "running", Quote, ":", "true", "}">>,
     <<"head", "end", "{", Quote, "success", Quote, ":", "true", "}">>, <<"html">>}
=============================================================================
