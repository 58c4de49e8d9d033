--------------------------- MODULE MCUpstreamPool ---------------------------
(* Constants of the TLC runs of UpstreamPool. *)
EXTENDS UpstreamPool

MCNames == {"a", "b", "c"}
MCWords == MCNames \cup {"2", "auto"}
MCNumerals == {"2"}
MCLeadingNumber == [w \in MCWords |-> IF w = "2" THEN 2 ELSE 0]

NoWords == {}
NoWordsRead == [w \in NoWords |-> 0]

Pair == {<<"a", "b">>}
Shrinking == {<<"a", "b">>, <<"b">>}
\* Two entries without a name both get the default name of config.cpp.
Twins == {<<"a", "a">>}
\* A name std::stoul reads a number from.
Ordinals == {<<"home", "1st">>}
OrdinalNames == {"home", "1st"}
OrdinalWordsRead == [w \in OrdinalNames |-> IF w = "1st" THEN 1 ELSE 0]
=============================================================================
