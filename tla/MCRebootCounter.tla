--------------------------- MODULE MCRebootCounter ---------------------------
(* The instances of the reboot counter that TLC checks.                       *)
EXTENDS RebootCounter
==============================================================================
