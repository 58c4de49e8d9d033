------------------------------ MODULE MCSession ------------------------------
(* Constants of the TLC runs of Session. *)
EXTENDS Session

MCBody == [client |-> <<"c1">>, target |-> <<"t1", "t2">>]
MCShortBody == [client |-> <<"c1">>, target |-> <<"t1">>]
MCOneWord == [client |-> <<"c1">>, target |-> <<>>]

MCHeaders == {<<"200", "end">>, <<"403", "end">>}
\* A header longer than is read, and a refusal that mentions the number.
MCOddHeaders == {<<"200", "field", "end">>, <<"403", "mentions_200", "end">>}
=============================================================================
