------------------------------- MODULE MCRttLog -------------------------------
(* The instances of the log that TLC checks.                                  *)
EXTENDS RttLog
==============================================================================
