---------------------------- MODULE MCRiftProcess ----------------------------
(* Constants of the TLC runs of RiftProcess. *)
EXTENDS RiftProcess

\* A proxy of the user's, with a bypass list that fits the buffer or one that
\* does not; no proxy, but a list that fits.
OwnProxy == [enable |-> "on", server |-> "user", override |-> "user"]
NoProxy == [enable |-> "off", server |-> "none", override |-> "user"]
LongList == {[OwnProxy EXCEPT !.override = "long"]}
OwnOnly == {OwnProxy}
AllUsers == {NoProxy} \cup LongList
OnePort == {"1080"}
TwoPorts == {"1080", "8080"}
=============================================================================
