------------------------------ MODULE MCPayload ------------------------------
(* The instances of the payload and of the reboot counter that TLC checks.    *)
EXTENDS Payload
==============================================================================
