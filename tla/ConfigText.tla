------------------------------ MODULE ConfigText ------------------------------
(***************************************************************************)
(* The text of a configuration: Config::to_json_string and                 *)
(* from_json_string (src/config.cpp) on the texts of Json.                 *)
(***************************************************************************)
EXTENDS ConfigFile, Json

\* to_json_string.
ToText(c) == Serialize(Obj(
    [local      |-> Obj([port |-> Num(c.port)]),
     proxy_pool |-> Obj([nodes |-> Arr([i \in DOMAIN c.nodes |->
                           Obj([name |-> Str(c.nodes[i])])])]),
     security   |-> Obj([kill_switch |-> Bool(c.kill)])]))

PortOf(v) == As("num", Field(Field(v, "local"), "port"), Default.port)

\* from_json_string: whatever is missing or of another kind has its default,
\* everything when the text cannot be parsed.
FromText(t) ==
    LET root == Parse(t) IN
    IF ~root.ok THEN Default
    ELSE LET v == root.value
             nodes == As("arr", Field(Field(v, "proxy_pool"), "nodes"), <<>>) IN
         [port  |-> PortOf(v),
          kill  |-> As("bool", Field(Field(v, "security"), "kill_switch"), FALSE),
          nodes |-> [i \in DOMAIN nodes |-> As("str", Field(nodes[i], "name"), <<"Node">>)]]
=============================================================================
