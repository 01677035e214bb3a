------------------------------- MODULE Beacon --------------------------------
(* What the advertising half of the tag promises: after the boot it waits for *)
(* its timer, warms the crystal oscillator up, sends once on 37, 38 and 39 in *)
(* this order, switches the oscillator off and waits again, for ever.  The    *)
(* oscillator is on exactly while a round lasts.                              *)

VARIABLES
  phase,                  \* "boot", "timer", "crystal", or the channel in use
  hfxo                    \* the oscillator has been switched on

beaconVars == <<phase, hfxo>>

BeaconInit == phase = "boot" /\ hfxo = FALSE

Register == phase = "boot" /\ phase' = "timer" /\ UNCHANGED hfxo

StartRound == phase = "timer" /\ phase' = "crystal" /\ hfxo' = TRUE

Send(from, to) == phase = from /\ phase' = to /\ UNCHANGED hfxo

FinishRound == phase = "ch39" /\ phase' = "timer" /\ hfxo' = FALSE

BeaconNext ==
  \/ Register \/ StartRound
  \/ Send("crystal", "ch37") \/ Send("ch37", "ch38") \/ Send("ch38", "ch39")
  \/ FinishRound

BeaconSpec == BeaconInit /\ [][BeaconNext]_beaconVars /\ WF_beaconVars(BeaconNext)

==============================================================================
