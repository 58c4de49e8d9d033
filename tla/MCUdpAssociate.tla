---------------------------- MODULE MCUdpAssociate ----------------------------
(* The module the TLC runs of UdpAssociate start from. *)
EXTENDS UdpAssociate
=============================================================================
