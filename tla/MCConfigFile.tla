----------------------------- MODULE MCConfigFile -----------------------------
(* Constants of the TLC runs of ConfigFile. *)
EXTENDS ConfigText

MCNames == {<<"a", Quote>>, <<Slash>>}
MCPlainNames == {<<"a">>, <<"b">>}
MCConfigs ==
    [port : Ports, kill : BOOLEAN, nodes : UNION {[1..n -> Names] : n \in 0..3}]

\* What a save has written; what a user has: comments, something behind the
\* end, a port that is null; a comma too many.
Saved == ToText([port |-> "1080", kill |-> TRUE, nodes |-> <<CHOOSE n \in Names : TRUE>>])
Own == <<"comment", "{", Quote, "security", Quote, ":", "{", Quote, "kill_switch",
         Quote, ":", "true", "}", ",", "nl", Quote, "local", Quote, ":", "{",
         Quote, "port", Quote, ":", "null", "}", "}", "}">>
Wrong == <<"{", Quote, "local", Quote, ":", "{", "}", ",", "}">>

MCInitial == {Missing, Saved, Own, Wrong}
MCSaved == {Saved}
=============================================================================
