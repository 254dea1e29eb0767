------------------------------- MODULE MCUmem -------------------------------
(***************************************************************************)
(* umemlist with up to MaxLen nodes.                                       *)
(***************************************************************************)
EXTENDS UnknownWrites
=============================================================================
