---------------------------- MODULE TagRoundProofs ----------------------------
(* Proofs about the rounds: that they are those of the abstract beacon, and   *)
(* that every packet of them carries an IV with its own encrypted block.      *)
EXTENDS TagTimerProofs

------------------------------------------------------------------------------
(* The refinement of Beacon.                                                  *)

(* The invariant the refinement rests on.                                     *)
RoundsInv == TypeOK /\ CallbackInv /\ ArmedInv

(* It holds: the parts are theorems about the tag already.                    *)
THEOREM RoundsInvariant == Spec => []RoundsInv
BY TypeCorrect, CallbackInvariant, ArmedInvariant, PTL DEF RoundsInv

(* The phase in each of the places a round can be in.                         *)
PhaseTable ==
  /\ rtc = "off" => Phase = "boot" /\ hfclk = "off"
  /\ rtc # "off" =>
       /\ onHFCLKStartedCB # NULL => Phase = "crystal"
       /\ onDisableCB = "send_ble_data_on_channel_38" => Phase = "ch37"
       /\ onDisableCB = "send_ble_data_on_channel_39" => Phase = "ch38"
       /\ onDisableCB = "finished_ble_data" => Phase = "ch39"
       /\ ~BleOutstanding => Phase = "timer"
  /\ hfclk # "off" <=> BleOutstanding

(* The table follows from the invariant: no two of its places overlap.        *)
LEMMA PhaseIs == RoundsInv => PhaseTable
<1> SUFFICES ASSUME RoundsInv PROVE PhaseTable
  OBVIOUS
<1>1. /\ hfclk # "off" <=> BleOutstanding
      /\ onHFCLKStartedCB = NULL \/ onDisableCB = NULL
      /\ rtc = "off" => hfclk = "off"
  BY DEF RoundsInv, CallbackInv, RoundInv, ArmedInv, IdleInv
<1>2. rtc = "off" => Phase = "boot"
  BY <1>1 DEF Phase, BleOutstanding, NULL
<1>3. rtc # "off" /\ onHFCLKStartedCB # NULL => Phase = "crystal"
  BY <1>1 DEF Phase, NULL
<1>4. ASSUME rtc # "off"
      PROVE  /\ onDisableCB = "send_ble_data_on_channel_38" => Phase = "ch37"
             /\ onDisableCB = "send_ble_data_on_channel_39" => Phase = "ch38"
             /\ onDisableCB = "finished_ble_data" => Phase = "ch39"
             /\ ~BleOutstanding => Phase = "timer"
  BY <1>1, <1>4 DEF Phase, BleOutstanding, NULL
<1> QED BY <1>1, <1>2, <1>3, <1>4 DEF PhaseTable

(* It does so after a step, too.                                              *)
LEMMA PhaseWillBe == RoundsInv' => PhaseTable'
BY PhaseIs, PTL

(* A step that leaves the callbacks of the round and the two clocks alone is  *)
(* a stutter of the beacon.                                                   *)
LEMMA PhaseFrame ==
  ASSUME UNCHANGED <<rtc, onHFCLKStartedCB, onDisableCB>>,
         hfclk' = "off" <=> hfclk = "off"
  PROVE  UNCHANGED Abstract!beaconVars
BY DEF Phase, Abstract!beaconVars

(* The counter is started by the init callback alone.                         *)
LEMMA RtcFrame ==
  ASSUME Next, ~POWER_CLOCK_IRQHandler
  PROVE  rtc' = rtc
<1> USE DEF timerVars, rtcVars
<1>1. CASE Main
  BY <1>1
  DEF Main, MainInitClock, MainPollReturns, MainPollExhausted, MainFallback,
      MainInitRandom, MainInitAes, MainInitPdu, MainCopyBeaconIv,
      MainCopyBeaconEnc, MainSetLength
<1>2. CASE Handlers
  BY <1>2
  DEF Handlers, RTC1_IRQHandler, RTC1_acknowledge, RADIO_IRQHandler,
      RNG_IRQHandler, RNG_IRQHandler_end, ECB_IRQHandler, ECB_IRQHandler_end
<1>3. CASE Hardware
  BY <1>3
  DEF Hardware, HwTick, RtcTicks, HwLfclk, HwHfclk, HwRandomByte, HwEncrypted,
      HwRadioReadsIv, HwRadioEnds
<1> QED BY <1>1, <1>2, <1>3 DEF Next

(* The clock's handler: the timers are registered, or channel 37 is sent on.  *)
LEMMA BeaconClock ==
  ASSUME RoundsInv, RoundsInv', POWER_CLOCK_IRQHandler
  PROVE  [Abstract!BeaconNext]_(Abstract!beaconVars)
<1> USE PhaseIs, PhaseWillBe DEF PhaseTable, POWER_CLOCK_IRQHandler
<1>0. /\ hfclk' = hfclk
      /\ EVENTS_HFCLKSTARTED => hfclk # "off" /\ onHFCLKStartedCB # NULL
      /\ onHFCLKStartedCB \in HFCLKStartedCallbacks
  BY DEF RoundsInv, CallbackInv, RoundInv, TypeOK, ClockTypeOK
<1>1. CASE onInitCB = "whenClockInited" /\ whenClockInited
  <2>1. rtc = "off" /\ rtc' = "running"
    BY <1>1 DEF RoundsInv, CallbackInv, BootInv, whenClockInited, NULL
  <2>2. hfclk = "off"
    BY <2>1
  <2>3. ~BleOutstanding'
    BY <1>0, <2>2
  <2>4. Phase = "boot" /\ Phase' = "timer"
    BY <2>1, <2>3
  <2>5. Abstract!Register
    BY <1>0, <2>4 DEF Abstract!Register
  <2> QED BY <2>5 DEF Abstract!BeaconNext
<1>2. CASE UNCHANGED timerVars
  <2>1. rtc' = rtc
    BY <1>2 DEF timerVars, rtcVars
  <2>2. CASE ~EVENTS_HFCLKSTARTED
    <3>1. UNCHANGED <<onHFCLKStartedCB, onDisableCB>>
      BY <2>2 DEF HfclkStarted, bleVars
    <3> QED BY <1>0, <2>1, <3>1, PhaseFrame
  <2>3. CASE EVENTS_HFCLKSTARTED
    <3>1. /\ onHFCLKStartedCB # NULL
          /\ onDisableCB' = "send_ble_data_on_channel_38"
      BY <1>0, <2>3
      DEF HfclkStarted, ble_send_on_channel, HFCLKStartedCallbacks
    <3>2. rtc # "off"
      BY <1>0, <2>3
    <3>3. Phase = "crystal" /\ Phase' = "ch37"
      BY <2>1, <3>1, <3>2
    <3>4. Abstract!Send("crystal", "ch37")
      BY <1>0, <3>3 DEF Abstract!Send
    <3> QED BY <3>4 DEF Abstract!BeaconNext
  <2> QED BY <2>2, <2>3
<1> QED BY <1>1, <1>2 DEF LfclkStarted

(* The timer's handler starts a round or not.                                 *)
LEMMA BeaconTimer ==
  ASSUME RoundsInv, RoundsInv', RTC1_IRQHandler
  PROVE  [Abstract!BeaconNext]_(Abstract!beaconVars)
<1> USE PhaseIs, PhaseWillBe DEF PhaseTable
<1>1. rtc' = rtc /\ onDisableCB' = onDisableCB
  BY DEF RTC1_IRQHandler, RTC1_acknowledge, bleVars
<1>2. CASE "ble_callback_chain" \in FiredCallbacks
  <2>1. ~BleOutstanding
    BY <1>2, FiredJobsFit DEF RoundsInv, CallbackInv
  <2>2. rtc # "off"
    BY <1>2 DEF RoundsInv, CallbackInv, BootInv, FiredCallbacks
  <2>3. /\ onHFCLKStartedCB' = "send_ble_data_on_channel_37"
        /\ hfclk' = "starting"
    BY <1>2 DEF RTC1_IRQHandler, ble_callback_chain, clock_start_hf
  <2>4. Phase = "timer" /\ Phase' = "crystal"
    BY <1>1, <2>1, <2>2, <2>3 DEF NULL
  <2>5. hfclk = "off"
    BY <2>1
  <2>6. Abstract!StartRound
    BY <2>3, <2>4 DEF Abstract!StartRound
  <2> QED BY <2>6 DEF Abstract!BeaconNext
<1>3. CASE "ble_callback_chain" \notin FiredCallbacks
  BY <1>1, <1>3, PhaseFrame DEF RTC1_IRQHandler, clockVars, hfVars
<1> QED BY <1>2, <1>3

(* The radio's handler goes to the next channel or ends the round.            *)
LEMMA BeaconRadio ==
  ASSUME RoundsInv, RoundsInv', RADIO_IRQHandler
  PROVE  [Abstract!BeaconNext]_(Abstract!beaconVars)
<1> USE PhaseIs, PhaseWillBe DEF PhaseTable
<1>1. rtc' = rtc /\ rtc # "off" /\ hfclk # "off"
  <2>1. onDisableCB # NULL
    BY DEF RADIO_IRQHandler, NULL
  <2> QED BY <2>1 DEF RADIO_IRQHandler, rtcVars, BleOutstanding
<1>2. CASE /\ onDisableCB = "send_ble_data_on_channel_38"
           /\ SendNext(38, "send_ble_data_on_channel_39")
  <2>1. /\ onDisableCB' = "send_ble_data_on_channel_39"
        /\ hfclk' = hfclk
    BY <1>2
    DEF SendNext, ble_send_on_channel, AfterDisableCB, clockVars, hfVars
  <2>2. Phase = "ch37" /\ Phase' = "ch38"
    BY <1>1, <1>2, <2>1
  <2>3. Abstract!Send("ch37", "ch38")
    BY <2>1, <2>2 DEF Abstract!Send
  <2> QED BY <2>3 DEF Abstract!BeaconNext
<1>3. CASE /\ onDisableCB = "send_ble_data_on_channel_39"
           /\ SendNext(39, "finished_ble_data")
  <2>1. onDisableCB' = "finished_ble_data" /\ hfclk' = hfclk
    BY <1>3
    DEF SendNext, ble_send_on_channel, AfterDisableCB, clockVars, hfVars
  <2>2. Phase = "ch38" /\ Phase' = "ch39"
    BY <1>1, <1>3, <2>1
  <2>3. Abstract!Send("ch38", "ch39")
    BY <2>1, <2>2 DEF Abstract!Send
  <2> QED BY <2>3 DEF Abstract!BeaconNext
<1>4. CASE onDisableCB = "finished_ble_data" /\ finished_ble_data
  <2>1. hfclk' = "off"
    BY <1>4 DEF finished_ble_data, clock_stop_hf
  <2>2. Phase = "ch39" /\ Phase' = "timer"
    BY <1>1, <1>4, <2>1
  <2>3. Abstract!FinishRound
    BY <2>1, <2>2 DEF Abstract!FinishRound
  <2> QED BY <2>3 DEF Abstract!BeaconNext
<1> QED BY <1>2, <1>3, <1>4 DEF RADIO_IRQHandler

(* Every step of the tag is a step of the beacon or none of its business.     *)
LEMMA BeaconStep ==
  ASSUME RoundsInv, RoundsInv', [Next]_vars
  PROVE  [Abstract!BeaconNext]_(Abstract!beaconVars)
<1>1. CASE UNCHANGED vars
  BY <1>1, PhaseFrame DEF vars, timerVars, rtcVars, clockVars, hfVars, bleVars
<1>2. CASE Next /\ ~POWER_CLOCK_IRQHandler /\ ~RTC1_IRQHandler
           /\ ~RADIO_IRQHandler
  <2>1. rtc' = rtc
    BY <1>2, RtcFrame
  <2>2. CASE HwHfclk
    BY <2>1, <2>2, PhaseFrame DEF HwHfclk, HfclkStarts, bleVars
  <2>3. CASE HwRadioReadsIv \/ HwRadioEnds
    BY <2>1, <2>3, PhaseFrame
    DEF HwRadioReadsIv, HwRadioEnds, clockVars, hfVars
  <2>4. CASE UNCHANGED <<hfVars, bleVars, ble_timerEventDoneCB>>
    BY <2>1, <2>4, PhaseFrame DEF hfVars, bleVars
  <2> QED BY <1>2, <2>2, <2>3, <2>4, RoundFrame DEF Next, Handlers, Hardware
<1> QED BY <1>1, <1>2, BeaconClock, BeaconTimer, BeaconRadio

(* The rounds of the tag are those of the beacon: boot, timer, crystal, the   *)
(* channels 37, 38 and 39 in this order, with the oscillator on in the round  *)
(* and off outside it.  That they go on for ever is the rest of               *)
(* ImplementsBeacon.                                                          *)
THEOREM TagImplementsBeacon ==
  Spec => Abstract!BeaconInit /\ [][Abstract!BeaconNext]_(Abstract!beaconVars)
<1>1. Init => Abstract!BeaconInit
  BY DEF Init, TimerInit, ClockInit, Abstract!BeaconInit, Phase, BleInit, NULL
<1>2. RoundsInv /\ RoundsInv' /\ [Next]_vars
        => [Abstract!BeaconNext]_(Abstract!beaconVars)
  BY BeaconStep
<1> QED BY <1>1, <1>2, RoundsInvariant, PTL DEF Spec

------------------------------------------------------------------------------
(* What goes on the air while the hardware is on time.                        *)

(* Main is done once the RNG has all the bytes of the first IV, and until     *)
(* then the callback of the first IV waits.                                   *)
BytesLate ==
  /\ EVENTS_VALRDY /\ index = IvBytes - 1 => mainpc = "idle"
  /\ index >= IvBytes => mainpc = "idle"
  /\ mainpc \notin BeforeRandom /\ mainpc # "idle" => onFirstDataCB # NULL

(* No slot fires before main is done, nor into a job of either chain.         *)
FiredLate ==
  EVENTS_COMPARE # {} => mainpc = "idle" /\ ~BleOutstanding /\ ~AesOutstanding

(* An encryption is that of the last IV drawn, and over before the crystal of *)
(* a round runs.                                                              *)
EncryptionLate ==
  onECBDoneCB # NULL =>
    /\ mainpc = "idle"
    /\ hfclk # "running"
    /\ ecb_data = iv_data /\ iv_data # 0
    /\ isr = "ECB" => pduIv = iv_data

(* From the end of the boot on the payload is complete unless an encryption   *)
(* is outstanding.                                                            *)
PduValid ==
  /\ mainpc = "idle" => pduLen = "full"
  /\ BootIsOver /\ onECBDoneCB = NULL => pduIv # 0 /\ pduEnc = pduIv

(* The packet that has gone out is whole.                                     *)
AirComplete == EVENTS_DISABLED => airLen = "full" /\ airIv # 0 /\ airEnc = airIv

(* A round comes after the first IV, and the radio reads one payload.         *)
OnAir ==
  /\ hfclk # "off" => BootIsOver
  /\ radio = "payload" => airLen = "full" /\ airIv = pduIv
  /\ AirComplete

AirInv == BytesLate /\ FiredLate /\ EncryptionLate /\ PduValid /\ OnAir

(* A step that is not main's leaves main where it is.                         *)
LEMMA MainStays ==
  ASSUME [Next]_vars, ~Main
  PROVE  mainpc' = mainpc
<1> USE DEF cpuVars
<1>1. CASE Handlers
  BY <1>1
  DEF Handlers, POWER_CLOCK_IRQHandler, RTC1_IRQHandler, RADIO_IRQHandler,
      RNG_IRQHandler, RNG_IRQHandler_end, ECB_IRQHandler, ECB_IRQHandler_end
<1>2. CASE Hardware
  BY <1>2
  DEF Hardware, HwTick, HwLfclk, HwHfclk, HwRandomByte, HwEncrypted,
      HwRadioReadsIv, HwRadioEnds
<1>3. CASE UNCHANGED vars
  BY <1>3 DEF vars
<1> QED BY <1>1, <1>2, <1>3 DEF Next

(* Main sleeps for good.                                                      *)
LEMMA MainIsOver ==
  ASSUME mainpc = "idle"
  PROVE  ~Main
BY DEF Main, MainInitClock, MainPollReturns, MainPollExhausted, MainFallback,
   MainInitRandom, MainInitAes, MainInitPdu, MainCopyBeaconIv,
   MainCopyBeaconEnc, MainSetLength, MainStep

(* The steps that leave the RNG alone: all but its own, main's start of it,   *)
(* a tick and an IV drawn by the timer.                                       *)
LEMMA RandomFrame ==
  ASSUME [Next]_vars, ~MainInitRandom, ~RNG_IRQHandler, ~RNG_IRQHandler_end,
         ~HwRandomByte, ~HwTick,
         RTC1_IRQHandler => "aes_callback_chain" \notin FiredCallbacks
  PROVE  UNCHANGED randomVars
<1>1. CASE Main
  BY <1>1
  DEF Main, MainInitClock, MainPollReturns, MainPollExhausted, MainFallback,
      MainInitAes, MainInitPdu, MainCopyBeaconIv, MainCopyBeaconEnc,
      MainSetLength
<1>2. CASE Handlers
  BY <1>2
  DEF Handlers, POWER_CLOCK_IRQHandler, RTC1_IRQHandler, RADIO_IRQHandler,
      ECB_IRQHandler, ECB_IRQHandler_end
<1>3. CASE Hardware
  BY <1>3
  DEF Hardware, HwLfclk, HwHfclk, HwEncrypted, HwRadioReadsIv, HwRadioEnds
<1>4. CASE UNCHANGED vars
  BY <1>4 DEF vars
<1> QED BY <1>1, <1>2, <1>3, <1>4 DEF Next

(* The callback of the first IV is not registered twice.                      *)
LEMMA BootStaysOver ==
  ASSUME BootIsOver, [Next]_vars
  PROVE  BootIsOver'
<1>1. mainpc' = "idle" /\ ~Main
  BY MainIsOver, MainStays DEF BootIsOver
<1>2. CASE UNCHANGED randomVars
  BY <1>1, <1>2 DEF BootIsOver, randomVars
<1>3. CASE RNG_IRQHandler \/ RNG_IRQHandler_end
  BY <1>1, <1>3
  DEF BootIsOver, RNG_IRQHandler, RNG_store, RNG_IRQHandler_end, RNG_complete,
      randomVars
<1>4. CASE HwRandomByte \/ HwTick
  BY <1>1, <1>4 DEF BootIsOver, HwRandomByte, ByteReady, HwTick, RngTicks
<1>5. CASE RTC1_IRQHandler
  BY <1>1, <1>5 DEF BootIsOver, RTC1_IRQHandler, randomVars
<1>6. ~MainInitRandom
  BY <1>1 DEF Main
<1> QED BY <1>2, <1>3, <1>4, <1>5, <1>6, RandomFrame

LEMMA BytesLateStep ==
  ASSUME onTime', TypeOK, CallbackInv, BytesLate, [Next]_vars
  PROVE  BytesLate'
<1> USE RandomAssumption DEF BytesLate
<1>1. CASE mainpc = "idle"
  <2>1. mainpc' = "idle"
    BY <1>1, MainIsOver, MainStays
  <2> QED BY <2>1
<1>2. CASE mainpc # "idle"
  <2>1. RTC1_IRQHandler => FiredCallbacks = {}
    BY <1>2, FiredJobsFit DEF CallbackInv, BootIsOver
  <2>2. CASE MainInitRandom
    BY <1>2, <2>2, Zenon
    DEF MainInitRandom, MainStep, random_init, BeforeRandom, NULL
  <2>3. CASE RNG_IRQHandler
    <3>1. /\ EVENTS_VALRDY /\ index' = index + 1 /\ EVENTS_VALRDY' = FALSE
          /\ onFirstDataCB' = onFirstDataCB /\ mainpc' = mainpc
      BY <2>3 DEF RNG_IRQHandler, RNG_store
    <3>2. index \in Nat /\ IvBytes \in Nat
      BY DEF TypeOK, RandomTypeOK
    <3>3. ~(index + 1 >= IvBytes)
      BY <1>2, <3>1, <3>2
    <3> QED BY <3>1, <3>3
  <2>4. CASE RNG_IRQHandler_end
    <3>1. index # IvBytes
      BY <1>2
    <3> QED BY <2>4, <3>1 DEF RNG_IRQHandler_end, RNG_complete, randomVars
  <2>5. CASE HwRandomByte
    BY <1>2, <2>5 DEF HwRandomByte, ByteReady, cpuVars
  <2>6. CASE UNCHANGED randomVars
    <3>1. CASE Main /\ ~MainInitRandom
      BY <2>6, <3>1
      DEF Main, MainInitClock, MainPollReturns, MainPollExhausted, MainFallback,
          MainInitAes, MainInitPdu, MainCopyBeaconIv, MainCopyBeaconEnc,
          MainSetLength, MainStep, BeforeRandom, randomVars
    <3>2. CASE ~Main
      BY <2>6, <3>2, MainStays DEF randomVars
    <3> QED BY <2>2, <3>1, <3>2
  <2>7. ~HwTick
    BY <1>2 DEF HwTick, BootIsOver
  <2> QED BY <2>1, <2>2, <2>3, <2>4, <2>5, <2>6, <2>7, RandomFrame
<1> QED BY <1>1, <1>2

LEMMA FiredLateStep ==
  ASSUME onTime', TypeOK, CallbackInv, FiredLate, [Next]_vars
  PROVE  FiredLate'
<1> USE DEF FiredLate
<1>1. CASE RTC1_IRQHandler
  BY <1>1 DEF RTC1_IRQHandler, RTC1_acknowledge
<1>2. CASE HwTick
  BY <1>2
  DEF HwTick, RngTicks, BootIsOver, BleOutstanding, AesOutstanding,
      EncryptionOutstanding, clockVars, hfVars, bleVars, aesVars
<1>3. CASE ~RTC1_IRQHandler /\ ~HwTick
  <2>1. EVENTS_COMPARE # {} => BootIsOver
    BY DEF CallbackInv, BootInv, AesOutstanding, BootIsOver
  <2> QED BY <1>3, <2>1, FiredSlotsKept, JobsStayOver DEF BootIsOver
<1> QED BY <1>1, <1>2, <1>3

(* The slots that fire do so after the first IV and outside both jobs.        *)
LEMMA FiredAreLate ==
  ASSUME TypeOK, CallbackInv, FiredLate, FiredCallbacks # {}
  PROVE  /\ BootIsOver
         /\ onECBDoneCB = NULL /\ hfclk = "off"
BY DEF FiredLate, FiredCallbacks, AesOutstanding, EncryptionOutstanding,
   BootIsOver, CallbackInv, BootInv, RoundInv

(* A new encryption is that of the IV just drawn.                             *)
LEMMA EncryptionIsNew ==
  ASSUME TypeOK, NEW doneCB, aes_callback_chain(doneCB),
         mainpc' = "idle", hfclk' # "running", isr' # "ECB"
  PROVE  EncryptionLate' /\ onECBDoneCB' # NULL
<1>1. /\ onECBDoneCB' = "on_aes_encrypted"
      /\ ecb_data' = NextTag /\ iv_data' = NextTag
  BY DEF aes_callback_chain, aes_encrypt
<1>2. NextTag # 0
  BY NextTagType, AesAssumption DEF TypeOK
<1> QED BY <1>1, <1>2 DEF EncryptionLate, NULL

(* The steps that do not touch what an encryption reads and writes.           *)
LEMMA EncryptionFrame ==
  ASSUME [Next]_vars, ~RTC1_IRQHandler, ~RNG_IRQHandler_end,
         ~ECB_IRQHandler, ~ECB_IRQHandler_end, ~Main
  PROVE  UNCHANGED <<onECBDoneCB, ecb_data, iv_data, pduIv, pduEnc, pduLen>>
<1> USE DEF aesVars, aesChainVars, pduVars
<1>1. CASE Handlers
  BY <1>1
  DEF Handlers, POWER_CLOCK_IRQHandler, RADIO_IRQHandler, RNG_IRQHandler
<1>2. CASE Hardware
  BY <1>2
  DEF Hardware, HwTick, HwLfclk, HwHfclk, HwRandomByte, HwEncrypted,
      EncryptionEnds, HwRadioReadsIv, HwRadioEnds
<1>3. CASE UNCHANGED vars
  BY <1>3 DEF vars
<1> QED BY <1>1, <1>2, <1>3 DEF Next

(* Main does not touch the encryption.                                        *)
LEMMA MainFrame ==
  ASSUME Main
  PROVE  UNCHANGED <<onECBDoneCB, isr, hfVars, bleVars, airVars>>
<1> USE DEF aesVars, clockVars, MainStep
<1>1. CASE MainInitClock \/ MainFallback
  BY <1>1 DEF MainInitClock, clock_init, MainFallback, clock_init_fallback
<1>2. CASE MainPollReturns \/ MainPollExhausted \/ MainInitRandom
  BY <1>2 DEF MainPollReturns, MainPollExhausted, MainInitRandom
<1>3. CASE MainInitAes \/ MainInitPdu \/ MainSetLength
  BY <1>3 DEF MainInitAes, aes_init, MainInitPdu, MainSetLength
<1>4. CASE MainCopyBeaconIv \/ MainCopyBeaconEnc
  BY <1>4 DEF MainCopyBeaconIv, MainCopyBeaconEnc
<1> QED BY <1>1, <1>2, <1>3, <1>4 DEF Main

(* An encryption starts outside the rounds or while the crystal starts, and   *)
(* the crystal runs once it is over.                                          *)
LEMMA EncryptionLateStep ==
  ASSUME onTime', TypeOK, CallbackInv, AirInv, [Next]_vars
  PROVE  EncryptionLate'
<1> USE DEF AirInv
<1>1. CASE RTC1_IRQHandler
  <2>1. CASE "aes_callback_chain" \in FiredCallbacks
    <3>1. BootIsOver /\ hfclk = "off"
      BY <2>1, FiredAreLate
    <3>2. hfclk' # "running"
      BY <1>1, <3>1 DEF RTC1_IRQHandler, ble_callback_chain, clock_start_hf,
                        clockVars, hfVars
    <3>3. mainpc' = "idle" /\ isr' # "ECB"
      BY <1>1, <3>1 DEF RTC1_IRQHandler, cpuVars, BootIsOver
    <3> QED BY <1>1, <2>1, <3>2, <3>3, EncryptionIsNew DEF RTC1_IRQHandler
  <2>2. CASE "aes_callback_chain" \notin FiredCallbacks
    <3>1. UNCHANGED <<onECBDoneCB, ecb_data, iv_data, pduIv, mainpc, isr>>
      BY <1>1, <2>2 DEF RTC1_IRQHandler, aesVars, aesChainVars, pduVars, cpuVars
    <3>2. hfclk' # "running" \/ hfclk' = hfclk
      BY <1>1 DEF RTC1_IRQHandler, ble_callback_chain, clock_start_hf,
                  clockVars, hfVars
    <3> QED BY <3>1, <3>2 DEF EncryptionLate
  <2> QED BY <2>1, <2>2
<1>2. CASE RNG_IRQHandler_end
  <2>1. hfclk' = hfclk /\ pduIv' = pduIv /\ mainpc' = mainpc /\ isr' = "none"
    BY <1>2 DEF RNG_IRQHandler_end, clockVars, hfVars, pduVars
  <2>2. CASE /\ index = IvBytes /\ onFirstDataCB # NULL
             /\ aes_callback_chain(NULL)
    <3>1. mainpc = "idle"
      BY <2>2, RandomAssumption DEF BytesLate
    <3>2. hfclk = "off"
      BY <2>2 DEF OnAir, BootIsOver
    <3> QED BY <2>1, <2>2, <3>1, <3>2, EncryptionIsNew
  <2>3. CASE UNCHANGED <<aesVars, aesChainVars>>
    BY <2>1, <2>3 DEF EncryptionLate, aesVars, aesChainVars
  <2> QED BY <1>2, <2>2, <2>3 DEF RNG_IRQHandler_end, RNG_complete, NULL
<1>3. CASE ECB_IRQHandler
  <2>1. EncryptionLate /\ onECBDoneCB # NULL
    BY <1>3 DEF ECB_IRQHandler, NULL
  <2>2. /\ UNCHANGED <<onECBDoneCB, ecb_data, iv_data, mainpc, hfclk>>
        /\ pduIv' = iv_data
    BY <1>3 DEF ECB_IRQHandler, PublishIv, clockVars, hfVars
  <2> QED BY <2>1, <2>2 DEF EncryptionLate
<1>4. CASE ECB_IRQHandler_end
  BY <1>4 DEF ECB_IRQHandler_end, EncryptionLate
<1>5. CASE Main
  BY <1>5, MainFrame, MainIsOver DEF EncryptionLate
<1>6. CASE /\ ~RTC1_IRQHandler /\ ~RNG_IRQHandler_end /\ ~ECB_IRQHandler
           /\ ~ECB_IRQHandler_end /\ ~Main
  <2>1. /\ UNCHANGED <<onECBDoneCB, ecb_data, iv_data, pduIv>>
        /\ mainpc' = mainpc
    BY <1>6, EncryptionFrame, MainStays
  <2>2. isr' = "ECB" => isr = "ECB"
    BY <1>6, PayloadFrame
    DEF Next, Handlers, Hardware, RNG_IRQHandler, HwEncrypted, cpuVars
  <2>3. onECBDoneCB # NULL => (hfclk' = "running" => hfclk = "running")
    <3>1. CASE HwHfclk
      BY <3>1 DEF HwHfclk, EncryptionOutstanding
    <3>2. CASE POWER_CLOCK_IRQHandler
      BY <3>2 DEF POWER_CLOCK_IRQHandler
    <3>3. CASE RADIO_IRQHandler
      BY <3>3 DEF RADIO_IRQHandler, finished_ble_data, clock_stop_hf, SendNext,
                  clockVars, hfVars
    <3>4. CASE HwRadioReadsIv \/ HwRadioEnds
      BY <3>4 DEF HwRadioReadsIv, HwRadioEnds, clockVars, hfVars
    <3> QED BY <1>6, <3>1, <3>2, <3>3, <3>4, RoundFrame
            DEF Next, Handlers, Hardware, hfVars
  <2> QED BY <2>1, <2>2, <2>3 DEF EncryptionLate
<1> QED BY <1>1, <1>2, <1>3, <1>4, <1>5, <1>6

(* on_aes_encrypted exchanges the IV and the block while no packet goes out,  *)
(* and main has written its placeholder before the first one.                 *)
LEMMA PduValidStep ==
  ASSUME onTime', TypeOK, CallbackInv, AirInv, [Next]_vars
  PROVE  PduValid'
<1> USE DEF AirInv
<1>1. CASE Main
  <2>1. mainpc' = "idle" => MainSetLength
    BY <1>1
    DEF Main, MainInitClock, MainPollReturns, MainPollExhausted, MainFallback,
        MainInitRandom, MainInitAes, MainInitPdu, MainCopyBeaconIv,
        MainCopyBeaconEnc, MainStep
  <2>2. CASE MainSetLength
    <3>1. mainpc = "set_length" /\ pduLen' = "full"
          /\ onFirstDataCB' = onFirstDataCB
      BY <2>2 DEF MainSetLength, MainStep, randomVars
    <3>2. onFirstDataCB # NULL
      BY <3>1 DEF BytesLate, BeforeRandom
    <3> QED BY <3>1, <3>2 DEF PduValid, BootIsOver
  <2>3. CASE mainpc' # "idle"
    BY <2>3 DEF PduValid, BootIsOver
  <2> QED BY <2>1, <2>2, <2>3
<1>2. CASE RTC1_IRQHandler
  <2>1. UNCHANGED <<pduVars, mainpc>>
    BY <1>2 DEF RTC1_IRQHandler, cpuVars
  <2>2. CASE "aes_callback_chain" \in FiredCallbacks
    <3>1. onECBDoneCB' # NULL
      BY <1>2, <2>2 DEF RTC1_IRQHandler, aes_callback_chain, aes_encrypt, NULL
    <3> QED BY <2>1, <3>1 DEF PduValid, pduVars
  <2>3. CASE "aes_callback_chain" \notin FiredCallbacks
    BY <1>2, <2>1, <2>3
    DEF RTC1_IRQHandler, PduValid, BootIsOver, pduVars, aesVars, randomVars
  <2> QED BY <2>2, <2>3
<1>3. CASE RNG_IRQHandler_end
  <2>1. UNCHANGED <<pduVars, mainpc>>
    BY <1>3 DEF RNG_IRQHandler_end
  <2>2. CASE aes_callback_chain(NULL)
    <3>1. onECBDoneCB' # NULL
      BY <2>2 DEF aes_callback_chain, aes_encrypt, NULL
    <3> QED BY <2>1, <3>1 DEF PduValid, pduVars
  <2>3. CASE UNCHANGED <<onFirstDataCB, aesVars>>
    BY <2>1, <2>3 DEF PduValid, BootIsOver, pduVars, aesVars
  <2> QED BY <1>3, <2>2, <2>3 DEF RNG_IRQHandler_end, RNG_complete, randomVars
<1>4. CASE ECB_IRQHandler
  BY <1>4 DEF ECB_IRQHandler, PduValid, NULL
<1>5. CASE ECB_IRQHandler_end
  <2>1. onECBDoneCB # NULL /\ isr = "ECB"
    BY <1>5 DEF ECB_IRQHandler_end, CallbackInv, PayloadInv
  <2>2. ecb_data = iv_data /\ iv_data # 0 /\ pduIv = iv_data
    BY <2>1 DEF EncryptionLate
  <2>3. pduEnc' = ecb_data /\ UNCHANGED <<pduIv, pduLen, mainpc>>
    BY <1>5 DEF ECB_IRQHandler_end, PublishEncrypted
  <2> QED BY <2>2, <2>3 DEF PduValid
<1>6. CASE /\ ~RTC1_IRQHandler /\ ~RNG_IRQHandler_end /\ ~ECB_IRQHandler
           /\ ~ECB_IRQHandler_end /\ ~Main
  <2>1. /\ UNCHANGED <<onECBDoneCB, pduIv, pduEnc, pduLen>>
        /\ mainpc' = mainpc
    BY <1>6, EncryptionFrame, MainStays
  <2>2. onFirstDataCB' = onFirstDataCB
    BY <1>6, RandomFrame
    DEF Main, RNG_IRQHandler, RNG_store, HwRandomByte, ByteReady, HwTick,
        RngTicks, randomVars
  <2> QED BY <2>1, <2>2 DEF PduValid, BootIsOver
<1> QED BY <1>1, <1>2, <1>3, <1>4, <1>5, <1>6

(* While the radio sends the crystal runs, so no encryption is outstanding    *)
(* and the payload is complete.                                               *)
LEMMA SendsComplete ==
  ASSUME TypeOK, CallbackInv, AirInv, radio # "disabled"
  PROVE  /\ pduLen = "full" /\ pduIv # 0 /\ pduEnc = pduIv
         /\ onECBDoneCB = NULL /\ BootIsOver
<1>1. hfclk = "running"
  BY DEF CallbackInv, RoundInv, BleOutstanding, TypeOK, ClockTypeOK,
         OscillatorStates
<1>2. BootIsOver /\ onECBDoneCB = NULL
  BY <1>1 DEF AirInv, OnAir, EncryptionLate
<1> QED BY <1>2 DEF AirInv, PduValid, BootIsOver

(* A round starts with the payload drawn.                                     *)
LEMMA RoundsStartLate ==
  ASSUME TypeOK, CallbackInv, AirInv, [Next]_vars, hfclk' # "off"
  PROVE  BootIsOver'
<1>1. CASE hfclk # "off"
  BY <1>1, BootStaysOver DEF AirInv, OnAir
<1>2. CASE hfclk = "off"
  <2>1. CASE RTC1_IRQHandler
    <3>1. "ble_callback_chain" \in FiredCallbacks
      BY <1>2, <2>1 DEF RTC1_IRQHandler, clockVars, hfVars
    <3> QED BY <3>1, FiredAreLate, BootStaysOver DEF AirInv
  <2>2. CASE POWER_CLOCK_IRQHandler
    BY <1>2, <2>2 DEF POWER_CLOCK_IRQHandler
  <2>3. CASE RADIO_IRQHandler
    BY <1>2, <2>3 DEF RADIO_IRQHandler, finished_ble_data, clock_stop_hf,
                      SendNext, clockVars, hfVars
  <2>4. CASE HwHfclk
    BY <1>2, <2>4 DEF HwHfclk, HfclkStarts
  <2>5. CASE HwRadioReadsIv \/ HwRadioEnds
    BY <1>2, <2>5 DEF HwRadioReadsIv, HwRadioEnds, clockVars, hfVars
  <2> QED BY <1>2, <2>1, <2>2, <2>3, <2>4, <2>5, RoundFrame
          DEF Next, Handlers, Hardware, hfVars
<1> QED BY <1>1, <1>2

(* The radio reads one complete payload, in two parts.                        *)
LEMMA OnAirStep ==
  ASSUME TypeOK, CallbackInv, AirInv, [Next]_vars
  PROVE  OnAir'
<1>1. hfclk' # "off" => BootIsOver'
  BY RoundsStartLate
<1>2. (radio = "payload" => airLen = "full" /\ airIv = pduIv) /\ AirComplete
  BY DEF AirInv, OnAir
<1> DEFINE Sending == radio = "payload" => airLen = "full" /\ airIv = pduIv
<1>3. Sending' /\ AirComplete'
  <2>1. CASE UNCHANGED <<radio, EVENTS_DISABLED, airVars>>
    <3>1. radio = "payload" => pduIv' = pduIv
      <4> SUFFICES ASSUME radio = "payload" PROVE pduIv' = pduIv
        OBVIOUS
      <4>1. onECBDoneCB = NULL /\ mainpc = "idle"
        BY SendsComplete DEF BootIsOver
      <4>2. ~Main /\ ~ECB_IRQHandler
        BY <4>1, MainIsOver DEF ECB_IRQHandler, NULL
      <4>3. CASE RTC1_IRQHandler \/ RNG_IRQHandler_end \/ ECB_IRQHandler_end
        BY <4>3
        DEF RTC1_IRQHandler, RNG_IRQHandler_end, ECB_IRQHandler_end, pduVars
      <4> QED BY <4>2, <4>3, EncryptionFrame
    <3> QED BY <1>2, <2>1, <3>1 DEF AirComplete, airVars
  <2>2. CASE POWER_CLOCK_IRQHandler
    <3>1. CASE UNCHANGED bleVars
      BY <2>1, <2>2, <3>1 DEF POWER_CLOCK_IRQHandler, bleVars
    <3>2. CASE radio' = "rampup" /\ EVENTS_DISABLED' = FALSE
      BY <3>2 DEF AirComplete
    <3> QED BY <2>2, <3>1, <3>2
            DEF POWER_CLOCK_IRQHandler, HfclkStarted, ble_send_on_channel
  <2>3. CASE RTC1_IRQHandler
    BY <2>1, <2>3 DEF RTC1_IRQHandler, bleVars
  <2>4. CASE RADIO_IRQHandler
    <3>1. EVENTS_DISABLED' = FALSE
      BY <2>4 DEF RADIO_IRQHandler, SendNext, ble_send_on_channel,
                  finished_ble_data
    <3>2. radio' # "payload"
      BY <2>4 DEF RADIO_IRQHandler, SendNext, ble_send_on_channel,
                  finished_ble_data, CallbackInv, RoundInv
    <3> QED BY <3>1, <3>2 DEF AirComplete
  <2>5. CASE HwRadioReadsIv
    <3>1. pduLen = "full"
      BY <2>5, SendsComplete DEF HwRadioReadsIv
    <3>2. EVENTS_DISABLED' = FALSE
      BY <2>5 DEF HwRadioReadsIv, CallbackInv, RoundInv, TypeOK, BleTypeOK
    <3> QED BY <2>5, <3>1, <3>2 DEF HwRadioReadsIv, AirComplete, pduVars
  <2>6. CASE HwRadioEnds
    <3>1. pduIv # 0 /\ pduEnc = pduIv
      BY <2>6, SendsComplete DEF HwRadioEnds
    <3>2. airLen = "full" /\ airIv = pduIv
      BY <1>2, <2>6 DEF HwRadioEnds
    <3> QED BY <2>6, <3>1, <3>2 DEF HwRadioEnds, AirComplete
  <2>7. CASE Main
    BY <2>1, <2>7, MainFrame DEF bleVars
  <2>8. CASE RNG_IRQHandler \/ RNG_IRQHandler_end \/ ECB_IRQHandler
             \/ ECB_IRQHandler_end
    BY <2>1, <2>8 DEF RNG_IRQHandler, RNG_IRQHandler_end, ECB_IRQHandler,
                      ECB_IRQHandler_end, bleVars
  <2>9. CASE HwTick \/ HwLfclk \/ HwHfclk \/ HwRandomByte \/ HwEncrypted
    BY <2>1, <2>9
    DEF HwTick, HwLfclk, HwHfclk, HwRandomByte, HwEncrypted, bleVars
  <2>10. CASE UNCHANGED vars
    BY <2>1, <2>10 DEF vars, bleVars
  <2> QED BY <2>2, <2>3, <2>4, <2>5, <2>6, <2>7, <2>8, <2>9, <2>10
          DEF Next, Handlers, Hardware
<1> QED BY <1>1, <1>3 DEF OnAir

(* Hardware that has been late once stays late for good.                      *)
LEMMA LateForGood ==
  ASSUME TypeOK, [Next]_vars, onTime'
  PROVE  onTime
<1> USE DEF cpuVars
<1>1. CASE Main
  BY <1>1
  DEF Main, MainInitClock, MainPollReturns, MainPollExhausted, MainFallback,
      MainInitRandom, MainInitAes, MainInitPdu, MainCopyBeaconIv,
      MainCopyBeaconEnc, MainSetLength, MainStep
<1>2. CASE Handlers
  BY <1>2
  DEF Handlers, POWER_CLOCK_IRQHandler, RTC1_IRQHandler, RADIO_IRQHandler,
      RNG_IRQHandler, RNG_IRQHandler_end, ECB_IRQHandler, ECB_IRQHandler_end
<1>3. CASE HwTick \/ HwHfclk \/ HwRandomByte
  BY <1>3, Zenon DEF HwTick, HwHfclk, HwRandomByte
<1>4. CASE HwLfclk \/ HwEncrypted \/ HwRadioReadsIv \/ HwRadioEnds
  BY <1>4 DEF HwLfclk, HwEncrypted, HwRadioReadsIv, HwRadioEnds
<1>5. CASE UNCHANGED vars
  BY <1>5 DEF vars
<1> QED BY <1>1, <1>2, <1>3, <1>4, <1>5 DEF Next, Hardware

(* Every packet that goes out is complete, and its block was encrypted with   *)
(* the IV it carries (on_aes_encrypted, ble_pdu_init, main's placeholder), as *)
(* long as main and the peripherals have been on time: the jobs over before   *)
(* a tick, main before the RNG's last byte, an encryption before the crystal. *)
THEOREM PacketsAreValid == Spec => []OnAirValid
<1> DEFINE TimelyInv == onTime => AirInv
<1>1. Init => TimelyInv
  BY RandomAssumption
  DEF Init, ClockInit, TimerInit, RandomInit, AesInit, BleInit, AirInv,
      BytesLate, FiredLate, EncryptionLate, PduValid, OnAir, AirComplete,
      BootIsOver, BeforeRandom, NULL
<1>2. TypeOK /\ CallbackInv /\ TimelyInv /\ [Next]_vars => TimelyInv'
  <2> SUFFICES ASSUME TypeOK, CallbackInv, TimelyInv, [Next]_vars, onTime'
               PROVE  AirInv'
    OBVIOUS
  <2>1. AirInv
    BY LateForGood
  <2> QED
    BY <2>1, BytesLateStep, FiredLateStep, EncryptionLateStep, PduValidStep,
       OnAirStep
    DEF AirInv
<1>3. TimelyInv => OnAirValid
  BY DEF AirInv, OnAir, AirComplete, OnAirValid
<1> HIDE DEF TimelyInv
<1> QED BY <1>1, <1>2, <1>3, TypeCorrect, CallbackInvariant, PTL DEF Spec

==============================================================================
