------------------------------ MODULE MCRunicast ------------------------------
(* Instances of Runicast for TLC.                                          *)
EXTENDS Runicast

\* A stack in range and an address no stack has.
TwoAddresses == {"peer", "nobody"}
OnePeer      == {"peer"}
TwoPeers     == {"peer", "other"}
===============================================================================
