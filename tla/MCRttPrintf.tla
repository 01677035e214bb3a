----------------------------- MODULE MCRttPrintf -----------------------------
(* The instance of the terminals and of printf that TLC checks.               *)
EXTENDS RttPrintf

(* With one, two and three digits in decimal, one and two in hexadecimal.     *)
SomeValues == {-100, -9, 0, 16}
==============================================================================
