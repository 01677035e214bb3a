---------------------------- MODULE TagProperties ----------------------------
(* What the tag must do and must never do.                                    *)
EXTENDS Tag

(* An interrupt handler that calls a stored callback without a NULL check     *)
(* (RADIO_IRQHandler, ECB_IRQHandler, reschedule_ble_data) never finds NULL:  *)
(* whenever such an event is set, its callback is, too.                       *)
CallbackArmed ==
  /\ EVENTS_DISABLED => onDisableCB # NULL
  /\ ecbIrq /\ EVENTS_ENDECB /\ isr = "none" => onECBDoneCB # NULL
  /\ onDisableCB = "finished_ble_data" => ble_timerEventDoneCB # NULL

(* No callback waits in vain: while one is stored, the peripheral that will   *)
(* raise its event is at work or the event is set.  Each of the chains hangs  *)
(* on a single stored pointer, so a lost event would end it for good.         *)
CallbackAwaited ==
  /\ onHFCLKStartedCB # NULL => hfclk = "starting" \/ EVENTS_HFCLKSTARTED
  /\ onDisableCB # NULL => radio # "disabled" \/ EVENTS_DISABLED
  /\ onECBDoneCB # NULL => ecb = "busy" \/ EVENTS_ENDECB \/ isr = "ECB"
  /\ onInitCB # NULL => lfclk = "starting" \/ EVENTS_LFCLKSTARTED

(* The radio transmits on the crystal oscillator only, and the oscillator is  *)
(* off whenever no round is going on (ble_callback_chain, finished_ble_data): *)
(* a tag that leaves it on drains its battery.                                *)
HfclkOnlyInRound ==
  /\ radio # "disabled" => hfclk = "running"
  /\ hfclk # "off" <=> BleOutstanding

(* The 1 KiB heap holds at most one IV and one ecb_data, each exactly while   *)
(* its encryption is outstanding: random_get and aes_encrypt allocate,        *)
(* on_aes_encrypted and ECB_IRQHandler free.                                  *)
HeapBalanced ==
  /\ ecbBlocks = IF onECBDoneCB = NULL THEN 0 ELSE 1
  /\ ivBlocks = IF isr = "ECB" THEN 0 ELSE ecbBlocks

(* An interval is shorter than a turn of the counter: 240 ticks of 2^24; and  *)
(* longer than eight bytes take the RNG: some ms of 30 s.                     *)
ASSUME IntervalsFit ==
  /\ BleInterval * RTC_FREQUENCY < CounterMod
  /\ AesInterval * RTC_FREQUENCY < CounterMod
  /\ CollectTicks < AesInterval * RTC_FREQUENCY

(* How far ahead of the counter the compare value of a slot lies.             *)
Ahead(slot) == (timer.CC[slot] - COUNTER) % CounterMod

(* A registered slot belongs to its chain, and unless its job is outstanding  *)
(* or its event is set it will fire within its interval: never in the past,   *)
(* which would silence it for a whole turn of the counter (24 days).          *)
ArmedAhead ==
  rtc = "running" =>
    /\ timer.slots[ble_timer_slot].cb = "ble_callback_chain"
    /\ timer.slots[aes_timer_slot].cb = "aes_callback_chain"
    /\ ~BleOutstanding /\ ble_timer_slot \notin EVENTS_COMPARE =>
         Ahead(ble_timer_slot) \in 1..(BleInterval * RTC_FREQUENCY)
    /\ ~EncryptionOutstanding /\ aes_timer_slot \notin EVENTS_COMPARE =>
         Ahead(aes_timer_slot) \in 1..(AesInterval * RTC_FREQUENCY)

(* random.c keeps 8 bytes: index never passes the end of value.               *)
IndexInBounds == index <= IvBytes

(* An IV is drawn only when all its bytes were collected since the last draw  *)
(* (aes_callback_chain, random_get): no byte is used in two IVs.              *)
IvFresh == [][ivBlocks' > ivBlocks => index = IvBytes]_vars

(* Every packet that goes out has its full length, an IV, and the block that  *)
(* was encrypted with this IV, although on_aes_encrypted exchanges them while *)
(* the radio may be reading adv_pdu, and although main copies its placeholder *)
(* over both after it has started the RNG: as long as the hardware is on time.*)
OnAirValid ==
  onTime /\ EVENTS_DISABLED =>
    airLen = "full" /\ airIv # 0 /\ airEnc = airIv

------------------------------------------------------------------------------
(* Liveness, under FairSpec.                                                  *)

(* Packets go out on each of the three channels again and again.              *)
Advertises ==
  \A channel \in Channels : []<>(radio = "payload" /\ FREQUENCY = channel)

(* Every IV is replaced: the payload takes every tag again and again, always  *)
(* with the block that belongs to it.                                         *)
IvRolls == \A tag \in 1..IvTags : []<>(pduIv = tag /\ pduEnc = tag)

(* The advertising half implements the abstract beacon.                       *)
Phase ==
  CASE rtc = "off" -> "boot"
    [] onHFCLKStartedCB # NULL -> "crystal"
    [] onDisableCB = "send_ble_data_on_channel_38" -> "ch37"
    [] onDisableCB = "send_ble_data_on_channel_39" -> "ch38"
    [] onDisableCB = "finished_ble_data" -> "ch39"
    [] OTHER -> "timer"

Abstract == INSTANCE Beacon WITH phase <- Phase, hfxo <- hfclk # "off"

(* Every step of the tag is a step of the beacon or leaves it alone, and the  *)
(* rounds go on for ever, on the channels and in the order of Beacon.         *)
ImplementsBeacon == Abstract!BeaconSpec

------------------------------------------------------------------------------
(* What documents and comments say and the code does not do.                  *)

(* "We use RC if XTAL is not available" (clock.c): the fallback is taken only *)
(* without a crystal.                                                         *)
RcOnlyWithoutXtal == [][LFCLKSRC = "Xtal" /\ LFCLKSRC' = "RC" => ~XtalPresent]_vars

==============================================================================
