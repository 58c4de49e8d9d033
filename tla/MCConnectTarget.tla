--------------------------- MODULE MCConnectTarget ---------------------------
(* Constants of the TLC runs of ConnectTarget. *)
EXTENDS ConnectTarget

MCNames == {"a", "b"}
OneName == {"a"}
NoWords == {}
NoWordsRead == [w \in NoWords |-> 0]

PairOrNone == {<<>>, <<"a", "b">>}
OneOrNone == {<<>>, <<"a">>}
Swapping == {<<>>, <<"a", "b">>, <<"b">>}
PinB == {"b"}
PinBRead == [w \in PinB |-> 0]

Plain(p) == [smart |-> TRUE, kill |-> FALSE, rule |-> "none",
             default |-> "PROXY", pool |-> p, strategy |-> "FAILOVER"]
Constructed == Plain(<<>>)
OneConfig == {Plain(<<"a">>)}
PairConfig == {Plain(<<"a", "b">>)}
SwapConfigs == {Plain(p) : p \in Swapping \ {<<>>}}

\* What a reload can change for a connection: where the rules send it, and what
\* becomes of it when they send it to the pool.
RouteConfigs ==
    {[Plain(<<"a", "b">>) EXCEPT !.smart = s, !.rule = r, !.default = d] :
        s \in BOOLEAN, r \in {"none", "REJECT", "DIRECT"}, d \in {"DIRECT", "PROXY"}}
PoolConfigs == {[Plain(p) EXCEPT !.kill = k] : p \in PairOrNone, k \in BOOLEAN}
ReloadConfigs == RouteConfigs \cup PoolConfigs

SwitchOn == {[Plain(p) EXCEPT !.kill = TRUE] : p \in OneOrNone}
RejectDefault == {[Plain(<<"a">>) EXCEPT !.default = "REJECT"]}
=============================================================================
