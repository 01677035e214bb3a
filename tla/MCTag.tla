-------------------------------- MODULE MCTag --------------------------------
(* The instances of the tag that TLC checks, and mutants of its definitions.  *)
EXTENDS TagProperties
==============================================================================
