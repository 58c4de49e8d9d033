-------------------------------- MODULE Channel --------------------------------
(***************************************************************************)
(* What a proxied connection promises its two ends, whatever it is made of *)
(* (a request read too far ahead, a handshake with a node, a relay): a     *)
(* stream in each direction, of which the other end is given more and more *)
(* in order, until the channel breaks or one stream has ended.             *)
(***************************************************************************)
EXTENDS Sequences, SequencesExt

CONSTANTS
    Pair        \* the two ends

VARIABLES
    said,       \* said[e]: what end e has said
    heard,      \* heard[e]: what end e has been given
    cut,        \* the ends whose connection was reset
    over        \* "no", "broken", or the end whose stream has ended

channel == <<said, heard, cut, over>>

Facing(e) == CHOOSE f \in Pair : f # e

ChannelInit ==
    /\ said = [e \in Pair |-> <<>>] /\ heard = [e \in Pair |-> <<>>]
    /\ cut = {} /\ over = "no"

\* An end says more, what is before it stays; that its connection was reset
\* may become known with it.
Say(e) ==
    /\ IsPrefix(said[e], said'[e]) /\ said'[e] # said[e]
    /\ said' = [said EXCEPT ![e] = said'[e]]
    /\ cut' \in {cut, cut \cup {e}}
    /\ UNCHANGED <<heard, over>>

\* An end is given more of what the other has said.
Give(e) ==
    /\ over = "no"
    /\ IsPrefix(heard[e], heard'[e]) /\ heard'[e] # heard[e]
    /\ IsPrefix(heard'[e], said[Facing(e)])
    /\ heard' = [heard EXCEPT ![e] = heard'[e]]
    /\ UNCHANGED <<said, cut, over>>

Cut(e) == cut' = cut \cup {e} /\ UNCHANGED <<said, heard, over>>

\* The end of e's stream is for the other end to see only when it has been
\* given all of it.
Close(e) ==
    /\ over = "no" /\ over' = e
    /\ heard[Facing(e)] = said[e] \/ Facing(e) \in cut
    /\ UNCHANGED <<said, heard, cut>>

Break == over = "no" /\ over' = "broken" /\ UNCHANGED <<said, heard, cut>>

ChannelNext == Break \/ \E e \in Pair : Say(e) \/ Give(e) \/ Cut(e) \/ Close(e)

ChannelSpec == ChannelInit /\ [][ChannelNext]_channel
=============================================================================
