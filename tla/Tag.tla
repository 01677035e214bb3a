--------------------------------- MODULE Tag ---------------------------------
(* The beacon tag: main, its interrupt handlers and the callback chains that  *)
(* tie clock.c, timer.c, random.c, aes.c and ble.c together.                  *)
(*                                                                            *)
(* All interrupts have priority 0, so a handler runs to its end before main   *)
(* or another handler continues; `isr' names the handler that is inside, and  *)
(* only two of them stop half way, where a peripheral can see the difference. *)
(* Between handlers main and the peripherals take steps in any order.         *)
EXTENDS Clock, Timer, Random, Aes, Ble

CONSTANTS
  BleInterval,            \* seconds between rounds: 1 in ble_callback_chain.c
  AesInterval             \* seconds between IVs: 30 in aes_callback_chain.c

ASSUME TagAssumption ==
  /\ BleInterval \in Nat \ {0}
  /\ AesInterval \in Nat \ {0}

VARIABLES
  mainpc,                 \* the next statement of main
  isr,                    \* "none", or the handler that has been entered
  onTime,                 \* every peripheral has been as fast as in its datasheet
  ble_timer_slot, ble_timerEventDoneCB,
  aes_timer_slot, aes_timerEventDoneCB,
  iv_data,                \* tag of the last IV drawn
  ivBlocks,               \* IVs allocated by random_get and not yet freed
  pduLen,                 \* adv_pdu[1]: "blank", "addr" or "full"
  pduIv,                  \* tag of the IV in adv_pdu, 0 for the placeholder
  pduEnc,                 \* tag of the IV its encrypted block was made with
  airLen, airIv, airEnc   \* what the radio has read of the packet it sends

pduVars == <<pduLen, pduIv, pduEnc>>
airVars == <<airLen, airIv, airEnc>>
bleChainVars == <<ble_timer_slot, ble_timerEventDoneCB>>
aesChainVars == <<aes_timer_slot, aes_timerEventDoneCB, iv_data, ivBlocks>>
cpuVars == <<mainpc, isr, onTime>>

vars == <<clockVars, timerVars, randomVars, aesVars, bleVars, cpuVars,
          bleChainVars, aesChainVars, pduVars, airVars>>

MainSteps == {"clock_init", "poll", "fallback", "random_init", "aes_init",
              "pdu_init", "beacon_iv", "beacon_enc", "set_length", "idle"}
Lengths == {"blank", "addr", "full"}

CpuTypeOK ==
  /\ mainpc \in MainSteps
  /\ isr \in {"none", "RNG", "ECB"}
  /\ onTime \in BOOLEAN

BleChainTypeOK ==
  /\ ble_timer_slot \in Slots
  /\ ble_timerEventDoneCB \in DoneCallbacks

AesChainTypeOK ==
  /\ aes_timer_slot \in Slots
  /\ aes_timerEventDoneCB \in DoneCallbacks
  /\ iv_data \in Tags
  /\ ivBlocks \in Int

PduTypeOK == pduLen \in Lengths /\ pduIv \in Tags /\ pduEnc \in Tags
AirTypeOK == airLen \in Lengths /\ airIv \in Tags /\ airEnc \in Tags

TypeOK ==
  /\ ClockTypeOK /\ TimerTypeOK /\ RandomTypeOK /\ AesTypeOK /\ BleTypeOK
  /\ CpuTypeOK /\ BleChainTypeOK /\ AesChainTypeOK /\ PduTypeOK /\ AirTypeOK

Init ==
  /\ ClockInit /\ TimerInit /\ RandomInit /\ AesInit /\ BleInit
  /\ mainpc = "clock_init"
  /\ isr = "none"
  /\ onTime = TRUE
  /\ ble_timer_slot = 0 /\ ble_timerEventDoneCB = NULL
  /\ aes_timer_slot = 0 /\ aes_timerEventDoneCB = NULL
  /\ iv_data = 0
  /\ ivBlocks = 0
  /\ pduLen = "blank" /\ pduIv = 0 /\ pduEnc = 0
  /\ airLen = "blank" /\ airIv = 0 /\ airEnc = 0

------------------------------------------------------------------------------
(* The callback chains.                                                       *)

(* ble_callback_chain: a round starts with the crystal oscillator.            *)
ble_callback_chain(doneCB) ==
  /\ ble_timerEventDoneCB' = doneCB
  /\ clock_start_hf("send_ble_data_on_channel_37")

(* aes_callback_chain: draw an IV and have the payload encrypted with it.     *)
NextTag == (iv_data % IvTags) + 1

aes_callback_chain(doneCB) ==
  /\ aes_timerEventDoneCB' = doneCB
  /\ random_get
  /\ iv_data' = NextTag
  /\ ivBlocks' = ivBlocks + 1
  /\ aes_encrypt(NextTag, "on_aes_encrypted")
  /\ UNCHANGED aes_timer_slot

(* on_aes_encrypted: the IV is copied and its memory freed; then the block is *)
(* copied and, unless this was the first one, the slot re-armed.              *)
MutantLeakIv == pduIv' = iv_data /\ UNCHANGED ivBlocks
MutantLoseIv == UNCHANGED pduIv /\ ivBlocks' = ivBlocks - 1

PublishIv == pduIv' = iv_data /\ ivBlocks' = ivBlocks - 1

PublishEncrypted ==
  /\ pduEnc' = ecb_data
  /\ IF aes_timerEventDoneCB = NULL THEN UNCHANGED timer
     ELSE timer_reschedule(aes_timer_slot)

(* timer_init and whenTimerInited: start the counter, then the BLE slot and   *)
(* the AES slot, in this order.                                               *)
TimerWithBle == timer_add(timer, "ble_callback_chain", BleInterval)

(* Mutant: only the BLE chain is registered.                                  *)
MutantOnlyBle ==
  /\ rtc' = "running"
  /\ ble_timer_slot' = timer_add_slot(timer)
  /\ timer' = TimerWithBle
  /\ UNCHANGED <<COUNTER, EVENTS_COMPARE, EVENTS_OVRFLW, overflow_seconds,
                 aes_timer_slot>>

whenClockInited ==
  /\ rtc' = "running"
  /\ ble_timer_slot' = timer_add_slot(timer)
  /\ aes_timer_slot' = timer_add_slot(TimerWithBle)
  /\ timer' = timer_add(TimerWithBle, "aes_callback_chain", AesInterval)
  /\ UNCHANGED <<COUNTER, EVENTS_COMPARE, EVENTS_OVRFLW, overflow_seconds>>

(* reschedule_ble_data: what is left to do is in ble_timerEventDoneCB.        *)
reschedule_ble_data ==
  /\ ble_timerEventDoneCB = "timer_reschedule"
  /\ timer_reschedule(ble_timer_slot)

------------------------------------------------------------------------------
(* main                                                                       *)

MainStep(from, to) ==
  /\ isr = "none"
  /\ mainpc = from
  /\ mainpc' = to
  /\ UNCHANGED <<isr, onTime>>

MainInitClock ==
  /\ MainStep("clock_init", "poll")
  /\ clock_init("whenClockInited")
  /\ UNCHANGED <<timerVars, randomVars, aesVars, bleVars, bleChainVars,
                 aesChainVars, pduVars, airVars>>

(* The polling loop returns once it reads `started' set.  It may also run out *)
(* when it is: the flag is not volatile, so a read of it may be a stale one.  *)
MainPollReturns ==
  /\ MainStep("poll", "random_init")
  /\ started
  /\ UNCHANGED <<clockVars, timerVars, randomVars, aesVars, bleVars,
                 bleChainVars, aesChainVars, pduVars, airVars>>

MainPollExhausted ==
  /\ MainStep("poll", "fallback")
  /\ UNCHANGED <<clockVars, timerVars, randomVars, aesVars, bleVars,
                 bleChainVars, aesChainVars, pduVars, airVars>>

MainFallback ==
  /\ MainStep("fallback", "random_init")
  /\ clock_init_fallback
  /\ UNCHANGED <<timerVars, randomVars, aesVars, bleVars, bleChainVars,
                 aesChainVars, pduVars, airVars>>

MainInitRandom ==
  /\ MainStep("random_init", "aes_init")
  /\ random_init("aes_callback_chain_issue")
  /\ UNCHANGED <<clockVars, timerVars, aesVars, bleVars, bleChainVars,
                 aesChainVars, pduVars, airVars>>

MainInitAes ==
  /\ MainStep("aes_init", "pdu_init")
  /\ aes_init
  /\ UNCHANGED <<clockVars, timerVars, randomVars, bleVars, bleChainVars,
                 aesChainVars, pduVars, airVars>>

(* ble_pdu_init writes the header and the address.                            *)
MainInitPdu ==
  /\ MainStep("pdu_init", "beacon_iv")
  /\ pduLen' = "addr"
  /\ UNCHANGED <<clockVars, timerVars, randomVars, aesVars, bleVars,
                 bleChainVars, aesChainVars, pduIv, pduEnc, airVars>>

(* The memcpy of beacon_temp_only covers the IV and then the encrypted block; *)
(* an interrupt may come between the two.                                     *)
MainCopyBeaconIv ==
  /\ MainStep("beacon_iv", "beacon_enc")
  /\ pduIv' = 0
  /\ UNCHANGED <<clockVars, timerVars, randomVars, aesVars, bleVars,
                 bleChainVars, aesChainVars, pduLen, pduEnc, airVars>>

MainCopyBeaconEnc ==
  /\ MainStep("beacon_enc", "set_length")
  /\ pduEnc' = 0
  /\ UNCHANGED <<clockVars, timerVars, randomVars, aesVars, bleVars,
                 bleChainVars, aesChainVars, pduLen, pduIv, airVars>>

(* adv_pdu[1] is set; then main sleeps for good.                              *)
MainSetLength ==
  /\ MainStep("set_length", "idle")
  /\ pduLen' = "full"
  /\ UNCHANGED <<clockVars, timerVars, randomVars, aesVars, bleVars,
                 bleChainVars, aesChainVars, pduIv, pduEnc, airVars>>

Main == \/ MainInitClock \/ MainPollReturns \/ MainPollExhausted \/ MainFallback
        \/ MainInitRandom \/ MainInitAes \/ MainInitPdu
        \/ MainCopyBeaconIv \/ MainCopyBeaconEnc \/ MainSetLength

------------------------------------------------------------------------------
(* The interrupt handlers.                                                    *)

(* Mutant: the init callback is kept, so a second event registers the slots   *)
(* again.                                                                     *)
MutantKeepInitCB ==
  \/ /\ ~EVENTS_LFCLKSTARTED
     /\ UNCHANGED <<EVENTS_LFCLKSTARTED, started, onInitCB, timerVars,
                    ble_timer_slot, aes_timer_slot>>
  \/ /\ EVENTS_LFCLKSTARTED
     /\ EVENTS_LFCLKSTARTED' = FALSE
     /\ started' = TRUE
     /\ UNCHANGED onInitCB
     /\ whenClockInited

(* POWER_CLOCK_IRQHandler, the LFCLKSTARTED part: the first event of all runs *)
(* the init callback, a later one finds it gone.                              *)
LfclkStarted ==
  \/ /\ ~EVENTS_LFCLKSTARTED
     /\ UNCHANGED <<EVENTS_LFCLKSTARTED, started, onInitCB, timerVars,
                    ble_timer_slot, aes_timer_slot>>
  \/ /\ EVENTS_LFCLKSTARTED
     /\ EVENTS_LFCLKSTARTED' = FALSE
     /\ started' = TRUE
     /\ onInitCB' = NULL
     /\ \/ onInitCB = "whenClockInited" /\ whenClockInited
        \/ onInitCB = NULL /\ UNCHANGED <<timerVars, ble_timer_slot,
                                          aes_timer_slot>>

(* The HFCLKSTARTED part: send_ble_data_on_channel_37.                        *)
HfclkStarted ==
  \/ ~EVENTS_HFCLKSTARTED /\ UNCHANGED <<EVENTS_HFCLKSTARTED,
                                         onHFCLKStartedCB, bleVars>>
  \/ /\ EVENTS_HFCLKSTARTED
     /\ EVENTS_HFCLKSTARTED' = FALSE
     /\ onHFCLKStartedCB' = NULL
     /\ \/ /\ onHFCLKStartedCB = "send_ble_data_on_channel_37"
           /\ ble_send_on_channel(37, "send_ble_data_on_channel_38")
        \/ onHFCLKStartedCB = NULL /\ UNCHANGED bleVars

POWER_CLOCK_IRQHandler ==
  /\ isr = "none"
  /\ EVENTS_LFCLKSTARTED \/ EVENTS_HFCLKSTARTED
  /\ LfclkStarted
  /\ HfclkStarted
  /\ UNCHANGED <<lfclk, LFCLKSRC, hfclk, randomVars, aesVars, cpuVars,
                 ble_timerEventDoneCB, aes_timerEventDoneCB, iv_data, ivBlocks,
                 pduVars, airVars>>

(* RTC1_IRQHandler: acknowledge, then run the callback of every fired slot.   *)
(* The two chains share no state, so the order of the slots does not show.    *)
RTC1_IRQHandler ==
  /\ isr = "none"
  /\ RTC1_acknowledge
  /\ IF "ble_callback_chain" \in FiredCallbacks
     THEN ble_callback_chain("timer_reschedule")
     ELSE UNCHANGED <<clockVars, ble_timerEventDoneCB>>
  /\ IF "aes_callback_chain" \in FiredCallbacks
     THEN /\ aes_callback_chain("timer_reschedule")
          /\ UNCHANGED <<EVENTS_VALRDY, onFirstDataCB>>
     ELSE UNCHANGED <<randomVars, aesVars, aesChainVars>>
  /\ UNCHANGED <<timer, bleVars, cpuVars, ble_timer_slot, pduVars, airVars>>

(* Mutant: channel 38 is left out of the round.                               *)
MutantSkip38(channel_index, cb) ==
  /\ ble_send_on_channel(39, AfterDisableCB("finished_ble_data"))
  /\ UNCHANGED <<clockVars, timer>>

(* RADIO_IRQHandler: the next channel, or the end of the round.  A NULL       *)
(* callback would be called: CallbackArmed says there never is one.           *)
SendNext(channel_index, cb) ==
  /\ ble_send_on_channel(channel_index, AfterDisableCB(cb))
  /\ UNCHANGED <<clockVars, timer>>

finished_ble_data ==
  /\ clock_stop_hf
  /\ reschedule_ble_data
  /\ EVENTS_DISABLED' = FALSE
  /\ onDisableCB' = AfterDisableCB(onDisableCB)
  /\ UNCHANGED <<radio, FREQUENCY>>

RADIO_IRQHandler ==
  /\ isr = "none"
  /\ EVENTS_DISABLED
  /\ \/ /\ onDisableCB = "send_ble_data_on_channel_38"
        /\ SendNext(38, "send_ble_data_on_channel_39")
     \/ /\ onDisableCB = "send_ble_data_on_channel_39"
        /\ SendNext(39, "finished_ble_data")
     \/ /\ onDisableCB = "finished_ble_data"
        /\ finished_ble_data
  /\ airLen' = "blank" /\ airIv' = 0 /\ airEnc' = 0
  /\ UNCHANGED <<rtcVars, randomVars, aesVars, cpuVars, bleChainVars,
                 aesChainVars, pduVars>>

(* RNG_IRQHandler: store the byte; then, with the eighth one, stop the RNG    *)
(* and, the first time, start the first encryption.                           *)
RNG_IRQHandler ==
  /\ isr = "none"
  /\ RNG_store
  /\ isr' = "RNG"
  /\ UNCHANGED <<clockVars, timerVars, aesVars, bleVars, mainpc, onTime,
                 bleChainVars, aesChainVars, pduVars, airVars>>

RNG_complete ==
  \/ index # IvBytes /\ UNCHANGED <<randomVars, aesVars, aesChainVars>>
  \/ /\ index = IvBytes
     /\ onFirstDataCB = NULL
     /\ rng' = "stopped"
     /\ rngAge' = 0
     /\ UNCHANGED <<EVENTS_VALRDY, index, onFirstDataCB, aesVars, aesChainVars>>
  \/ /\ index = IvBytes
     /\ onFirstDataCB = "aes_callback_chain_issue"
     /\ aes_callback_chain(NULL)
     /\ onFirstDataCB' = NULL
     /\ UNCHANGED EVENTS_VALRDY

RNG_IRQHandler_end ==
  /\ isr = "RNG"
  /\ isr' = "none"
  /\ RNG_complete
  /\ UNCHANGED <<clockVars, timerVars, bleVars, mainpc, onTime, bleChainVars,
                 pduVars, airVars>>

(* ECB_IRQHandler: it runs on_aes_encrypted, in two parts, and then frees the *)
(* structure.                                                                 *)
ECB_IRQHandler ==
  /\ isr = "none"
  /\ ecbIrq /\ EVENTS_ENDECB
  /\ onECBDoneCB = "on_aes_encrypted"
  /\ isr' = "ECB"
  /\ EVENTS_ENDECB' = FALSE
  /\ PublishIv
  /\ UNCHANGED <<clockVars, timerVars, randomVars, ecb, ecbIrq, onECBDoneCB,
                 ecb_data, ecbBlocks, bleVars, mainpc, onTime, bleChainVars,
                 aes_timer_slot, aes_timerEventDoneCB, iv_data, pduLen, pduEnc,
                 airVars>>

ECB_IRQHandler_end ==
  /\ isr = "ECB"
  /\ isr' = "none"
  /\ PublishEncrypted
  /\ onECBDoneCB' = NULL
  /\ ecbBlocks' = ecbBlocks - 1
  /\ UNCHANGED <<clockVars, rtcVars, randomVars, ecb, EVENTS_ENDECB, ecbIrq,
                 ecb_data, bleVars, mainpc, onTime, bleChainVars, aesChainVars,
                 pduLen, pduIv, airVars>>

Handlers ==
  \/ POWER_CLOCK_IRQHandler \/ RTC1_IRQHandler \/ RADIO_IRQHandler
  \/ RNG_IRQHandler \/ RNG_IRQHandler_end
  \/ ECB_IRQHandler \/ ECB_IRQHandler_end

------------------------------------------------------------------------------
(* The peripherals.  Their speed is bounded only by what follows.             *)

BleOutstanding == onHFCLKStartedCB # NULL \/ onDisableCB # NULL
EncryptionOutstanding == onECBDoneCB # NULL
AesOutstanding ==
  EncryptionOutstanding \/ rng = "running" \/ EVENTS_VALRDY \/ isr = "RNG"

(* The boot, a few ms, is over before the first tick: main sleeps and the     *)
(* first IV has been drawn.                                                   *)
BootIsOver == mainpc = "idle" /\ onFirstDataCB = NULL

(* A round and an encryption, of some ms, are over before their own slot      *)
(* comes round again a second or more later.                                  *)
JobFits(cb) ==
  /\ cb = "ble_callback_chain" => ~BleOutstanding
  /\ cb = "aes_callback_chain" => ~EncryptionOutstanding

(* A tick lasts 1/8 s: the handler of the last one is long over.              *)
HandlerFits == EVENTS_COMPARE = {} /\ ~EVENTS_OVRFLW

(* Hardware that is on time has both jobs over before the next tick.          *)
HwTick ==
  /\ HandlerFits
  /\ BootIsOver
  /\ \A i \in CompareHits : JobFits(timer.slots[i].cb)
  /\ RtcTicks
  /\ RngTicks
  /\ onTime' = (onTime /\ ~BleOutstanding /\ ~AesOutstanding)
  /\ UNCHANGED <<clockVars, aesVars, bleVars, mainpc, isr, bleChainVars,
                 aesChainVars, pduVars, airVars>>

HwLfclk ==
  /\ LfclkStarts
  /\ UNCHANGED <<timerVars, randomVars, aesVars, bleVars, cpuVars,
                 bleChainVars, aesChainVars, pduVars, airVars>>

(* Hardware that is on time has a block encrypted (in less than ten us)       *)
(* before the crystal has started (in hundreds).                              *)
HwHfclk ==
  /\ HfclkStarts
  /\ onTime' = (onTime /\ ~EncryptionOutstanding)
  /\ UNCHANGED <<timerVars, randomVars, aesVars, bleVars, mainpc, isr,
                 bleChainVars, aesChainVars, pduVars, airVars>>

(* Without RngOverrun no byte gets ready while the handler runs.  A main that *)
(* is on time is done before the RNG has all its bytes.                       *)
HwRandomByte ==
  /\ isr = "RNG" => RngOverrun
  /\ ByteReady
  /\ onTime' = (onTime /\ (index = IvBytes - 1 => mainpc = "idle"))
  /\ UNCHANGED <<clockVars, timerVars, aesVars, bleVars, mainpc, isr,
                 bleChainVars, aesChainVars, pduVars, airVars>>

HwEncrypted ==
  /\ EncryptionEnds
  /\ UNCHANGED <<clockVars, timerVars, randomVars, bleVars, cpuVars,
                 bleChainVars, aesChainVars, pduVars, airVars>>

(* The radio sends the packet, reading it from adv_pdu in two parts.          *)
HwRadioReadsIv ==
  /\ radio = "rampup"
  /\ radio' = "payload"
  /\ airLen' = pduLen
  /\ airIv' = pduIv
  /\ UNCHANGED <<clockVars, timerVars, randomVars, aesVars, FREQUENCY,
                 EVENTS_DISABLED, onDisableCB, cpuVars, bleChainVars,
                 aesChainVars, pduVars, airEnc>>

HwRadioEnds ==
  /\ radio = "payload"
  /\ radio' = "disabled"
  /\ EVENTS_DISABLED' = TRUE
  /\ airEnc' = pduEnc
  /\ UNCHANGED <<clockVars, timerVars, randomVars, aesVars, FREQUENCY,
                 onDisableCB, cpuVars, bleChainVars, aesChainVars, pduVars,
                 airLen, airIv>>

Hardware ==
  \/ HwTick \/ HwLfclk \/ HwHfclk \/ HwRandomByte \/ HwEncrypted
  \/ HwRadioReadsIv \/ HwRadioEnds

------------------------------------------------------------------------------
Next == Main \/ Handlers \/ Hardware

Spec == Init /\ [][Next]_vars

(* main runs whenever no handler does, a pending interrupt is taken, and      *)
(* every peripheral finishes what it was started for; only of the crystal     *)
(* behind LFCLK nothing is assumed.                                           *)
Fairness ==
  /\ WF_vars(Main)
  /\ WF_vars(POWER_CLOCK_IRQHandler)
  /\ WF_vars(RTC1_IRQHandler)
  /\ WF_vars(RADIO_IRQHandler)
  /\ WF_vars(RNG_IRQHandler \/ RNG_IRQHandler_end)
  /\ WF_vars(ECB_IRQHandler \/ ECB_IRQHandler_end)
  /\ WF_vars(HwTick)
  /\ WF_vars(HwLfclk /\ LFCLKSRC = "RC")
  /\ WF_vars(HwHfclk)
  /\ WF_vars(HwRandomByte)
  /\ WF_vars(HwEncrypted)
  /\ WF_vars(HwRadioReadsIv \/ HwRadioEnds)

FairSpec == Spec /\ Fairness

==============================================================================
