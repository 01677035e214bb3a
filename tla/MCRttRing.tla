------------------------------ MODULE MCRttRing ------------------------------
(* The instances of the ring that TLC checks.                                 *)
EXTENDS RttRingProperties
==============================================================================
