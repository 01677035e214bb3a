--------------------------------- MODULE Ble ---------------------------------
(* ble.c and the RADIO peripheral.  The shorts READY_START and END_DISABLE    *)
(* make TXEN run to the DISABLED event on its own: ramp up, send the packet   *)
(* out of RAM, switch off.  The packet is read while it is sent, so the radio *)
(* takes it in two reads, first up to the IV and then the encrypted block.    *)
EXTENDS Callbacks

VARIABLES
  radio,                  \* "disabled", "rampup" or "payload"
  FREQUENCY,              \* the channel index it stands for; 0 after reset
  EVENTS_DISABLED,
  onDisableCB

bleVars == <<radio, FREQUENCY, EVENTS_DISABLED, onDisableCB>>

Channels == {37, 38, 39}

BleTypeOK ==
  /\ radio \in {"disabled", "rampup", "payload"}
  /\ FREQUENCY \in Channels \union {0}
  /\ EVENTS_DISABLED \in BOOLEAN
  /\ onDisableCB \in DisableCallbacks

BleInit ==
  /\ radio = "disabled"
  /\ FREQUENCY = 0
  /\ EVENTS_DISABLED = FALSE
  /\ onDisableCB = NULL

------------------------------------------------------------------------------
(* ble_send_on_channel; on channel 37 ble_init has power-cycled the radio     *)
(* before, which leaves nothing this call does not set.                       *)
ble_send_on_channel(channel_index, cb) ==
  /\ FREQUENCY' = channel_index
  /\ EVENTS_DISABLED' = FALSE
  /\ radio' = "rampup"
  /\ onDisableCB' = cb

(* Mutant: the pointer is cleared even if the callback has stored a new one.  *)
MutantAlwaysClear(stored) == NULL

(* RADIO_IRQHandler drops the callback it has run unless the callback stored  *)
(* another one in its place.                                                  *)
AfterDisableCB(stored) == IF stored = onDisableCB THEN NULL ELSE stored

==============================================================================
