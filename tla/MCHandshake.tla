---------------------------- MODULE MCHandshake ----------------------------
(* Instances of Handshake: the 146 bytes of a 0086 in one notification, and *)
(* in 20-byte ones of which only the last is short (seven count as one).    *)
EXTENDS Handshake

OnePart  == <<146>>
TwoParts == <<140, 6>>
=============================================================================
