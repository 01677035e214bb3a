------------------------------ MODULE TagProofs ------------------------------
(* Proofs about the tag, for intervals, counters and IVs of any size.         *)
EXTENDS TagProperties, TLAPS

(* A remainder is in the range of its modulus (CC, COUNTER, tags).            *)
LEMMA ModuloRange ==
  ASSUME NEW n \in Nat \ {0}, NEW a \in Int
  PROVE  a % n \in 0..(n - 1)
BY SMT

(* Intervals in ticks are natural numbers (interval * RTC_FREQUENCY).         *)
LEMMA TicksNat ==
  ASSUME NEW interval \in Nat
  PROVE  interval * RTC_FREQUENCY \in Nat
BY TimerAssumption, SMT

(* timer_add keeps the type of the timer and returns a slot or 0xF.           *)
LEMMA TimerAddType ==
  ASSUME NEW t \in Timers, NEW cb \in TimerCallbacks, NEW interval \in Nat
  PROVE  /\ timer_add(t, cb, interval) \in Timers
         /\ timer_add_slot(t) \in Slots \union {NoSlot}
<1>1. (interval * RTC_FREQUENCY) % CounterMod \in 0..(CounterMod - 1)
  BY TicksNat, ModuloRange, TimerAssumption
<1>2. timer_add_slot(t) \in Slots \union {NoSlot}
  BY DEF timer_add_slot, Timers, Slots, NoSlot
<1>3. CASE t.current_slot = 3
  BY <1>2, <1>3 DEF timer_add
<1>4. CASE t.current_slot # 3
  <2>1. t.current_slot \in Slots /\ t.current_slot + 1 \in 0..3
    BY <1>4 DEF Timers, Slots
  <2>2. [interval |-> interval, cb |-> cb] \in TimerDefs
    BY DEF TimerDefs
  <2> QED
    BY <1>1, <1>2, <1>4, <2>1, <2>2 DEF timer_add, Timers
<1> QED
  BY <1>3, <1>4

(* timer_reschedule keeps the type of the timer.                              *)
LEMMA TimerRescheduleType ==
  ASSUME TimerTypeOK, NEW slot \in Slots \union {NoSlot}, timer_reschedule(slot)
  PROVE  timer' \in Timers
<1>1. CASE slot \in Slots
  <2>1. timer.slots[slot].interval \in Nat /\ COUNTER \in Int
    BY <1>1, TimerAssumption DEF TimerTypeOK, Timers, TimerDefs
  <2>2. timer.slots[slot].interval * RTC_FREQUENCY \in Int
    BY <2>1, TicksNat
  <2>3. (COUNTER + timer.slots[slot].interval * RTC_FREQUENCY) % CounterMod
          \in 0..(CounterMod - 1)
    <3>1. \A ticks \in Int : (COUNTER + ticks) % CounterMod \in 0..(CounterMod - 1)
      BY <2>1, ModuloRange, TimerAssumption
    <3> QED
      BY <2>2, <3>1, Zenon
  <2> QED
    BY <1>1, <2>3 DEF timer_reschedule, TimerTypeOK, Timers
<1>2. CASE slot \notin Slots
  BY <1>2 DEF timer_reschedule, TimerTypeOK, Timers
<1> QED
  BY <1>1, <1>2

------------------------------------------------------------------------------
(* Type correctness, one part of the state at a time.                         *)

(* What a step leaves alone keeps its type.                                   *)
LEMMA Untouched ==
  /\ ClockTypeOK /\ UNCHANGED clockVars => ClockTypeOK'
  /\ TimerTypeOK /\ UNCHANGED timerVars => TimerTypeOK'
  /\ RandomTypeOK /\ UNCHANGED randomVars => RandomTypeOK'
  /\ AesTypeOK /\ UNCHANGED aesVars => AesTypeOK'
  /\ BleTypeOK /\ UNCHANGED bleVars => BleTypeOK'
  /\ CpuTypeOK /\ UNCHANGED cpuVars => CpuTypeOK'
  /\ BleChainTypeOK /\ UNCHANGED bleChainVars => BleChainTypeOK'
  /\ AesChainTypeOK /\ UNCHANGED aesChainVars => AesChainTypeOK'
  /\ PduTypeOK /\ UNCHANGED pduVars => PduTypeOK'
  /\ AirTypeOK /\ UNCHANGED airVars => AirTypeOK'
<1>1. ClockTypeOK /\ UNCHANGED clockVars => ClockTypeOK'
  BY DEF ClockTypeOK, clockVars, lfVars, hfVars
<1>2. TimerTypeOK /\ UNCHANGED timerVars => TimerTypeOK'
  BY DEF TimerTypeOK, timerVars, rtcVars
<1>3. RandomTypeOK /\ UNCHANGED randomVars => RandomTypeOK'
  BY DEF RandomTypeOK, randomVars
<1>4. AesTypeOK /\ UNCHANGED aesVars => AesTypeOK'
  BY DEF AesTypeOK, aesVars
<1>5. BleTypeOK /\ UNCHANGED bleVars => BleTypeOK'
  BY DEF BleTypeOK, bleVars
<1>6. CpuTypeOK /\ UNCHANGED cpuVars => CpuTypeOK'
  BY DEF CpuTypeOK, cpuVars
<1>7. BleChainTypeOK /\ UNCHANGED bleChainVars => BleChainTypeOK'
  BY DEF BleChainTypeOK, bleChainVars
<1>8. AesChainTypeOK /\ UNCHANGED aesChainVars => AesChainTypeOK'
  BY DEF AesChainTypeOK, aesChainVars
<1>9. PduTypeOK /\ UNCHANGED pduVars => PduTypeOK'
  BY DEF PduTypeOK, pduVars
<1>10. AirTypeOK /\ UNCHANGED airVars => AirTypeOK'
  BY DEF AirTypeOK, airVars
<1> QED
  BY <1>1, <1>2, <1>3, <1>4, <1>5, <1>6, <1>7, <1>8, <1>9, <1>10

(* The operations of the components keep the types of their state.            *)
LEMMA ClockOperations ==
  ASSUME ClockTypeOK
  PROVE  /\ clock_init("whenClockInited") => ClockTypeOK'
         /\ clock_init_fallback => ClockTypeOK'
         /\ clock_start_hf("send_ble_data_on_channel_37") => ClockTypeOK'
         /\ clock_stop_hf => ClockTypeOK'
         /\ LfclkStarts => ClockTypeOK'
         /\ HfclkStarts => ClockTypeOK'
<1> USE DEF ClockTypeOK, lfVars, hfVars, OscillatorStates
<1>1. clock_init("whenClockInited") => ClockTypeOK'
  BY DEF clock_init, InitCallbacks
<1>2. clock_init_fallback => ClockTypeOK'
  BY DEF clock_init_fallback
<1>3. clock_start_hf("send_ble_data_on_channel_37") => ClockTypeOK'
  BY DEF clock_start_hf, HFCLKStartedCallbacks
<1>4. clock_stop_hf => ClockTypeOK'
  BY DEF clock_stop_hf
<1>5. LfclkStarts => ClockTypeOK'
  BY DEF LfclkStarts
<1>6. HfclkStarts => ClockTypeOK'
  BY DEF HfclkStarts
<1> QED
  BY <1>1, <1>2, <1>3, <1>4, <1>5, <1>6

(* The tag that follows another one (aes_callback_chain).                     *)
LEMMA NextTagType ==
  ASSUME AesChainTypeOK
  PROVE  NextTag \in 1..IvTags
<1>1. iv_data % IvTags \in 0..(IvTags - 1)
  BY ModuloRange, AesAssumption DEF AesChainTypeOK, Tags
<1> QED
  BY <1>1, AesAssumption DEF NextTag

(* aes_callback_chain with what its callers leave alone.                      *)
LEMMA AesChainOperation ==
  ASSUME RandomTypeOK, AesTypeOK, AesChainTypeOK, NEW doneCB \in DoneCallbacks,
         aes_callback_chain(doneCB), UNCHANGED EVENTS_VALRDY,
         onFirstDataCB' \in {NULL, onFirstDataCB}
  PROVE  RandomTypeOK' /\ AesTypeOK' /\ AesChainTypeOK'
<1> USE DEF aes_callback_chain
<1>1. RandomTypeOK'
  BY RandomAssumption DEF random_get, RandomTypeOK, FirstDataCallbacks
<1>2. AesTypeOK'
  BY NextTagType DEF aes_encrypt, AesTypeOK, ECBDoneCallbacks, Tags
<1>3. AesChainTypeOK'
  BY NextTagType DEF AesChainTypeOK, Tags
<1> QED
  BY <1>1, <1>2, <1>3

------------------------------------------------------------------------------
(* main's steps keep the type invariant.                                      *)
LEMMA MainType ==
  ASSUME TypeOK, Main
  PROVE  TypeOK'
<1> USE Untouched DEF TypeOK
<1>1. ASSUME NEW from, NEW to \in MainSteps, MainStep(from, to)
      PROVE  CpuTypeOK'
  BY <1>1 DEF MainStep, CpuTypeOK
<1>2. \A step \in {"poll", "random_init", "fallback", "aes_init", "pdu_init",
                   "beacon_iv", "beacon_enc", "set_length", "idle"} :
        step \in MainSteps
  BY DEF MainSteps
<1>3. CASE MainInitClock
  BY <1>1, <1>2, <1>3, ClockOperations DEF MainInitClock
<1>4. CASE MainPollReturns
  BY <1>1, <1>2, <1>4 DEF MainPollReturns
<1>5. CASE MainPollExhausted
  BY <1>1, <1>2, <1>5 DEF MainPollExhausted
<1>6. CASE MainFallback
  BY <1>1, <1>2, <1>6, ClockOperations DEF MainFallback
<1>7. CASE MainInitRandom
  <2>1. RandomTypeOK'
    BY <1>7, RandomAssumption
    DEF MainInitRandom, random_init, RandomTypeOK, FirstDataCallbacks
  <2> QED
    BY <1>1, <1>2, <1>7, <2>1 DEF MainInitRandom
<1>8. CASE MainInitAes
  <2>1. AesTypeOK'
    BY <1>8 DEF MainInitAes, aes_init, AesTypeOK
  <2> QED
    BY <1>1, <1>2, <1>8, <2>1 DEF MainInitAes
<1>9. CASE MainInitPdu
  <2>1. PduTypeOK'
    BY <1>9 DEF MainInitPdu, PduTypeOK, Lengths
  <2> QED
    BY <1>1, <1>2, <1>9, <2>1 DEF MainInitPdu
<1>10. CASE MainCopyBeaconIv
  <2>1. PduTypeOK'
    BY <1>10, AesAssumption DEF MainCopyBeaconIv, PduTypeOK, Tags
  <2> QED
    BY <1>1, <1>2, <1>10, <2>1 DEF MainCopyBeaconIv
<1>11. CASE MainCopyBeaconEnc
  <2>1. PduTypeOK'
    BY <1>11, AesAssumption DEF MainCopyBeaconEnc, PduTypeOK, Tags
  <2> QED
    BY <1>1, <1>2, <1>11, <2>1 DEF MainCopyBeaconEnc
<1>12. CASE MainSetLength
  <2>1. PduTypeOK'
    BY <1>12 DEF MainSetLength, PduTypeOK, Lengths
  <2> QED
    BY <1>1, <1>2, <1>12, <2>1 DEF MainSetLength
<1> QED
  BY <1>3, <1>4, <1>5, <1>6, <1>7, <1>8, <1>9, <1>10, <1>11, <1>12 DEF Main

(* The peripherals' steps keep the type invariant.                            *)
LEMMA HardwareType ==
  ASSUME TypeOK, Hardware
  PROVE  TypeOK'
<1> USE Untouched DEF TypeOK
<1>1. CASE HwTick
  <2>1. NextCount \in 0..(CounterMod - 1)
    BY ModuloRange, TimerAssumption DEF NextCount, TimerTypeOK
  <2>2. TimerTypeOK'
    BY <1>1, <2>1 DEF HwTick, RtcTicks, CompareHits, TimerTypeOK
  <2>3. RandomTypeOK'
    BY <1>1, RandomAssumption DEF HwTick, RngTicks, RandomTypeOK
  <2>4. CpuTypeOK'
    BY <1>1 DEF HwTick, CpuTypeOK
  <2> QED
    BY <1>1, <2>2, <2>3, <2>4 DEF HwTick
<1>2. CASE HwLfclk
  BY <1>2, ClockOperations DEF HwLfclk
<1>3. CASE HwHfclk
  <2>1. CpuTypeOK'
    BY <1>3 DEF HwHfclk, CpuTypeOK
  <2> QED
    BY <1>3, <2>1, ClockOperations DEF HwHfclk
<1>4. CASE HwRandomByte
  <2>1. RandomTypeOK'
    BY <1>4 DEF HwRandomByte, ByteReady, RandomTypeOK
  <2>2. CpuTypeOK'
    BY <1>4 DEF HwRandomByte, CpuTypeOK
  <2> QED
    BY <1>4, <2>1, <2>2 DEF HwRandomByte
<1>5. CASE HwEncrypted
  <2>1. AesTypeOK'
    BY <1>5 DEF HwEncrypted, EncryptionEnds, AesTypeOK
  <2> QED
    BY <1>5, <2>1 DEF HwEncrypted
<1>6. CASE HwRadioReadsIv
  <2>1. BleTypeOK' /\ AirTypeOK'
    BY <1>6 DEF HwRadioReadsIv, BleTypeOK, AirTypeOK, PduTypeOK, pduVars
  <2> QED
    BY <1>6, <2>1 DEF HwRadioReadsIv
<1>7. CASE HwRadioEnds
  <2>1. BleTypeOK' /\ AirTypeOK'
    BY <1>7 DEF HwRadioEnds, BleTypeOK, AirTypeOK, PduTypeOK, pduVars
  <2> QED
    BY <1>7, <2>1 DEF HwRadioEnds
<1> QED
  BY <1>1, <1>2, <1>3, <1>4, <1>5, <1>6, <1>7 DEF Hardware

------------------------------------------------------------------------------
(* The init callback has not run while it is stored, so every slot is free.   *)
SlotsFree == timer.current_slot = 0

RegistersOnce ==
  /\ mainpc = "clock_init" => onInitCB = NULL /\ SlotsFree
  /\ onInitCB # NULL => SlotsFree

(* The timer the init callback builds: two timer_adds from the initial one,   *)
(* which get the first two slots.                                             *)
LEMMA WhenClockInitedType ==
  ASSUME TimerTypeOK, SlotsFree, whenClockInited
  PROVE  /\ TimerTypeOK'
         /\ ble_timer_slot' \in Slots
         /\ aes_timer_slot' \in Slots
<1>1. timer \in Timers /\ {"ble_callback_chain", "aes_callback_chain"}
                            \subseteq TimerCallbacks
  BY DEF TimerTypeOK, TimerCallbacks
<1>2. BleInterval \in Nat /\ AesInterval \in Nat
  BY TagAssumption
<1>3. TimerWithBle \in Timers
  BY <1>1, <1>2, TimerAddType DEF TimerWithBle
<1>4. timer' \in Timers
  BY <1>1, <1>2, <1>3, TimerAddType DEF whenClockInited
<1>5. ble_timer_slot' \in Slots
  BY DEF whenClockInited, timer_add_slot, SlotsFree, Slots
<1>6. aes_timer_slot' \in Slots
  <2>1. TimerWithBle.current_slot = 1
    BY DEF TimerWithBle, timer_add, SlotsFree
  <2> QED
    BY <2>1 DEF whenClockInited, timer_add_slot, Slots
<1> QED
  BY <1>4, <1>5, <1>6 DEF whenClockInited, TimerTypeOK

(* The handlers keep the type invariant.                                      *)
LEMMA ClockHandlerType ==
  ASSUME TypeOK, RegistersOnce, POWER_CLOCK_IRQHandler
  PROVE  TypeOK'
<1> USE DEF TypeOK, POWER_CLOCK_IRQHandler
<1>1. TimerTypeOK' /\ BleChainTypeOK' /\ AesChainTypeOK'
  <2>1. CASE onInitCB = "whenClockInited" /\ whenClockInited
    <3>1. SlotsFree
      BY <2>1 DEF RegistersOnce, NULL
    <3> QED
      BY <2>1, <3>1, WhenClockInitedType DEF BleChainTypeOK, AesChainTypeOK
  <2>2. CASE UNCHANGED <<timerVars, ble_timer_slot, aes_timer_slot>>
    BY <2>2, Untouched DEF BleChainTypeOK, AesChainTypeOK
  <2> QED
    BY <2>1, <2>2 DEF LfclkStarted
<1>2. EVENTS_LFCLKSTARTED' \in BOOLEAN /\ started' \in BOOLEAN
      /\ onInitCB' \in InitCallbacks
  BY DEF LfclkStarted, ClockTypeOK, InitCallbacks
<1>3. EVENTS_HFCLKSTARTED' \in BOOLEAN
      /\ onHFCLKStartedCB' \in HFCLKStartedCallbacks
  BY DEF HfclkStarted, ClockTypeOK, HFCLKStartedCallbacks
<1>4. ClockTypeOK'
  BY <1>2, <1>3 DEF ClockTypeOK
<1>5. BleTypeOK'
  BY Untouched
  DEF HfclkStarted, ble_send_on_channel, BleTypeOK, Channels, DisableCallbacks
<1> QED
  BY <1>1, <1>4, <1>5, Untouched

LEMMA TimerHandlerType ==
  ASSUME TypeOK, RTC1_IRQHandler
  PROVE  TypeOK'
<1> USE DEF TypeOK, RTC1_IRQHandler
<1>1. TimerTypeOK'
  <2>1. (overflow_seconds + 1) % OvfMod \in 0..(OvfMod - 1)
    BY ModuloRange, TimerAssumption DEF TimerTypeOK
  <2> QED
    BY <2>1 DEF RTC1_acknowledge, TimerTypeOK
<1>2. "timer_reschedule" \in DoneCallbacks
  BY DEF DoneCallbacks
<1>3. ClockTypeOK' /\ BleChainTypeOK'
  <2>1. CASE "ble_callback_chain" \in FiredCallbacks
    BY <1>2, <2>1, ClockOperations DEF ble_callback_chain, BleChainTypeOK
  <2>2. CASE "ble_callback_chain" \notin FiredCallbacks
    BY <2>2, Untouched DEF BleChainTypeOK
  <2> QED
    BY <2>1, <2>2
<1>4. RandomTypeOK' /\ AesTypeOK' /\ AesChainTypeOK'
  <2>1. CASE "aes_callback_chain" \in FiredCallbacks
    BY <1>2, <2>1, AesChainOperation
  <2>2. CASE "aes_callback_chain" \notin FiredCallbacks
    BY <2>2, Untouched
  <2> QED
    BY <2>1, <2>2
<1> QED
  BY <1>1, <1>3, <1>4, Untouched

LEMMA RadioHandlerType ==
  ASSUME TypeOK, RADIO_IRQHandler
  PROVE  TypeOK'
<1> USE DEF TypeOK, RADIO_IRQHandler
<1>1. AirTypeOK'
  BY AesAssumption DEF AirTypeOK, Lengths, Tags
<1>2. ASSUME NEW channel \in Channels, NEW cb \in DisableCallbacks,
             SendNext(channel, cb)
      PROVE  ClockTypeOK' /\ TimerTypeOK' /\ BleTypeOK'
  <2>1. BleTypeOK'
    BY <1>2
    DEF SendNext, ble_send_on_channel, AfterDisableCB, BleTypeOK, DisableCallbacks
  <2> QED
    BY <1>2, <2>1, Untouched DEF SendNext, timerVars
<1>3. ASSUME finished_ble_data
      PROVE  ClockTypeOK' /\ TimerTypeOK' /\ BleTypeOK'
  <2>1. timer' \in Timers
    BY <1>3, TimerRescheduleType
    DEF finished_ble_data, reschedule_ble_data, BleChainTypeOK
  <2>2. TimerTypeOK'
    BY <2>1 DEF TimerTypeOK, rtcVars
  <2>3. BleTypeOK'
    BY <1>3 DEF finished_ble_data, AfterDisableCB, BleTypeOK, DisableCallbacks
  <2> QED
    BY <1>3, <2>2, <2>3, ClockOperations DEF finished_ble_data
<1>4. ClockTypeOK' /\ TimerTypeOK' /\ BleTypeOK'
  <2>1. 38 \in Channels /\ 39 \in Channels
    BY DEF Channels
  <2>2. "send_ble_data_on_channel_39" \in DisableCallbacks
        /\ "finished_ble_data" \in DisableCallbacks
    BY DEF DisableCallbacks
  <2> QED
    BY <1>2, <1>3, <2>1, <2>2
<1> QED
  BY <1>1, <1>4, Untouched

LEMMA RandomHandlerType ==
  ASSUME TypeOK, RNG_IRQHandler \/ RNG_IRQHandler_end
  PROVE  TypeOK'
<1> USE Untouched DEF TypeOK
<1>1. CASE RNG_IRQHandler
  <2>1. RandomTypeOK'
    <3>1. index' \in Nat
      BY <1>1 DEF RNG_IRQHandler, RNG_store, RandomTypeOK
    <3> QED
      BY <3>1, <1>1, Zenon DEF RNG_IRQHandler, RNG_store, RandomTypeOK
  <2>2. CpuTypeOK'
    BY <1>1 DEF RNG_IRQHandler, CpuTypeOK
  <2> QED
    BY <1>1, <2>1, <2>2 DEF RNG_IRQHandler
<1>2. CASE RNG_IRQHandler_end
  <2>1. CpuTypeOK'
    BY <1>2 DEF RNG_IRQHandler_end, CpuTypeOK
  <2>2. CASE UNCHANGED <<randomVars, aesVars, aesChainVars>>
    BY <1>2, <2>1, <2>2 DEF RNG_IRQHandler_end
  <2>3. CASE /\ rng' = "stopped" /\ rngAge' = 0
             /\ UNCHANGED <<EVENTS_VALRDY, index, onFirstDataCB, aesVars,
                            aesChainVars>>
    <3>1. EVENTS_VALRDY' \in BOOLEAN
      BY <2>3 DEF RandomTypeOK
    <3>2. RandomTypeOK'
      BY <2>3, <3>1, RandomAssumption DEF RandomTypeOK
    <3> QED
      BY <1>2, <2>1, <2>3, <3>2 DEF RNG_IRQHandler_end
  <2>4. CASE /\ aes_callback_chain(NULL)
             /\ onFirstDataCB' = NULL
             /\ UNCHANGED EVENTS_VALRDY
    <3>1. NULL \in DoneCallbacks
      BY DEF DoneCallbacks
    <3>2. RandomTypeOK' /\ AesTypeOK' /\ AesChainTypeOK'
      BY <2>4, <3>1, AesChainOperation
    <3> QED
      BY <1>2, <2>1, <3>2 DEF RNG_IRQHandler_end
  <2> QED
    BY <1>2, <2>2, <2>3, <2>4 DEF RNG_IRQHandler_end, RNG_complete
<1> QED
  BY <1>1, <1>2

LEMMA EncryptionHandlerType ==
  ASSUME TypeOK, ECB_IRQHandler \/ ECB_IRQHandler_end
  PROVE  TypeOK'
<1> USE Untouched DEF TypeOK
<1>1. CASE ECB_IRQHandler
  <2>1. AesTypeOK'
    BY <1>1 DEF ECB_IRQHandler, AesTypeOK
  <2>2. PduTypeOK' /\ AesChainTypeOK'
    BY <1>1 DEF ECB_IRQHandler, PublishIv, PduTypeOK, AesChainTypeOK
  <2>3. CpuTypeOK'
    BY <1>1 DEF ECB_IRQHandler, CpuTypeOK
  <2> QED
    BY <1>1, <2>1, <2>2, <2>3 DEF ECB_IRQHandler
<1>2. CASE ECB_IRQHandler_end
  <2>1. AesTypeOK'
    BY <1>2 DEF ECB_IRQHandler_end, AesTypeOK, ECBDoneCallbacks
  <2>2. PduTypeOK'
    BY <1>2 DEF ECB_IRQHandler_end, PublishEncrypted, PduTypeOK, AesTypeOK
  <2>3. CpuTypeOK'
    BY <1>2 DEF ECB_IRQHandler_end, CpuTypeOK
  <2>4. timer' \in Timers
    BY <1>2, TimerRescheduleType
    DEF ECB_IRQHandler_end, PublishEncrypted, AesChainTypeOK, TimerTypeOK
  <2>5. TimerTypeOK'
    BY <1>2, <2>4 DEF ECB_IRQHandler_end, TimerTypeOK, rtcVars
  <2> QED
    BY <1>2, <2>1, <2>2, <2>3, <2>5 DEF ECB_IRQHandler_end
<1> QED
  BY <1>1, <1>2

(* Once registered, the slots are not registered again: the callback is gone  *)
(* before another LFCLKSTARTED can come (POWER_CLOCK_IRQHandler).             *)
LEMMA RegistersOnceStep ==
  ASSUME TypeOK, RegistersOnce, [Next]_vars
  PROVE  RegistersOnce'
<1> USE DEF RegistersOnce, SlotsFree
<1>1. CASE MainInitClock
  BY <1>1 DEF MainInitClock, MainStep, clock_init, timerVars
<1>2. CASE Main /\ ~MainInitClock
  <2>1. mainpc' # "clock_init" /\ UNCHANGED <<onInitCB, timer>>
    BY <1>2
    DEF Main, MainPollReturns, MainPollExhausted, MainFallback, MainInitRandom,
        MainInitAes, MainInitPdu, MainCopyBeaconIv, MainCopyBeaconEnc,
        MainSetLength, MainStep, clock_init_fallback, clockVars, lfVars,
        timerVars
  <2> QED
    BY <2>1
<1>3. CASE POWER_CLOCK_IRQHandler
  <2>1. mainpc' = mainpc
    BY <1>3 DEF POWER_CLOCK_IRQHandler, cpuVars
  <2> QED
    BY <1>3, <2>1 DEF POWER_CLOCK_IRQHandler, LfclkStarted, timerVars, NULL
<1>4. CASE ~Main /\ ~POWER_CLOCK_IRQHandler
  <2>1. UNCHANGED <<mainpc, onInitCB>>
    BY <1>4
    DEF Next, Handlers, Hardware, RTC1_IRQHandler, ble_callback_chain,
        clock_start_hf, RADIO_IRQHandler, SendNext, finished_ble_data,
        clock_stop_hf, RNG_IRQHandler, RNG_IRQHandler_end, ECB_IRQHandler,
        ECB_IRQHandler_end, HwTick, HwLfclk, LfclkStarts, HwHfclk, HfclkStarts,
        HwRandomByte, HwEncrypted, HwRadioReadsIv, HwRadioEnds, cpuVars, vars,
        clockVars, lfVars
  <2>2. \A slot : timer_reschedule(slot)
                    => timer'.current_slot = timer.current_slot
    BY DEF timer_reschedule, TypeOK, TimerTypeOK, Timers
  <2>3. timer'.current_slot = timer.current_slot
    BY <1>4, <2>2
    DEF Next, Handlers, Hardware, RTC1_IRQHandler, RADIO_IRQHandler, SendNext,
        finished_ble_data, reschedule_ble_data, RNG_IRQHandler,
        RNG_IRQHandler_end, ECB_IRQHandler, ECB_IRQHandler_end,
        PublishEncrypted, HwTick, RtcTicks, HwLfclk, HwHfclk, HwRandomByte,
        HwEncrypted, HwRadioReadsIv, HwRadioEnds, vars, timerVars
  <2> QED
    BY <2>1, <2>3
<1> QED
  BY <1>1, <1>2, <1>3, <1>4

(* Every variable of the tag keeps its type; in particular no callback        *)
(* pointer ever holds a function meant for another event (clock.c, random.c,  *)
(* aes.c, ble.c), and no chain ever holds 0xF for its slot, which             *)
(* timer_reschedule would index its array with.                               *)
THEOREM TypeCorrect == Spec => []TypeOK
<1>1. Init => TypeOK
  <2> SUFFICES ASSUME Init PROVE TypeOK
    OBVIOUS
  <2>0. ClockInit /\ TimerInit /\ RandomInit /\ AesInit /\ BleInit
    BY DEF Init
  <2>1. ClockTypeOK
    BY <2>0 DEF ClockInit, ClockTypeOK, OscillatorStates, InitCallbacks,
           HFCLKStartedCallbacks
  <2>2. TimerTypeOK
    <3>1. EmptySlot \in TimerDefs /\ 0 \in 0..(CounterMod - 1)
          /\ 0 \in 0..(OvfMod - 1)
      BY TimerAssumption DEF EmptySlot, TimerDefs
    <3>2. timer \in Timers
      BY <2>0, <3>1 DEF TimerInit, Timers
    <3> QED
      BY <2>0, <3>1, <3>2 DEF TimerInit, TimerTypeOK
  <2>3. RandomTypeOK
    <3>1. 0 \in 0..CollectTicks /\ 0 \in Nat
      BY RandomAssumption
    <3> QED
      BY <2>0, <3>1, Zenon DEF RandomInit, RandomTypeOK, FirstDataCallbacks
  <2>4. AesTypeOK
    <3>1. 0 \in Tags /\ 0 \in Int
      BY AesAssumption DEF Tags
    <3> QED
      BY <2>0, <3>1, Zenon DEF AesInit, AesTypeOK, ECBDoneCallbacks
  <2>5. BleTypeOK
    BY <2>0 DEF BleInit, BleTypeOK, DisableCallbacks
  <2>6. CpuTypeOK /\ BleChainTypeOK
    BY DEF Init, CpuTypeOK, MainSteps, BleChainTypeOK, Slots, DoneCallbacks
  <2>7. AesChainTypeOK /\ PduTypeOK /\ AirTypeOK
    BY AesAssumption
    DEF Init, AesChainTypeOK, PduTypeOK, AirTypeOK, Slots, DoneCallbacks, Tags, Lengths
  <2> QED
    BY <2>1, <2>2, <2>3, <2>4, <2>5, <2>6, <2>7 DEF TypeOK
<1>2. TypeOK /\ RegistersOnce /\ [Next]_vars => TypeOK'
  <2>1. ASSUME TypeOK, UNCHANGED vars PROVE TypeOK'
    BY <2>1, Untouched DEF TypeOK, vars
  <2> QED
    BY <2>1, MainType, HardwareType, ClockHandlerType, TimerHandlerType,
       RadioHandlerType, RandomHandlerType, EncryptionHandlerType
    DEF Next, Handlers
<1>3. Init => RegistersOnce
  BY DEF Init, ClockInit, TimerInit, RegistersOnce, SlotsFree
<1>4. TypeOK /\ RegistersOnce /\ [Next]_vars => RegistersOnce'
  BY RegistersOnceStep
<1> QED
  BY <1>1, <1>2, <1>3, <1>4, PTL DEF Spec

------------------------------------------------------------------------------
(* The inductive invariant behind the callback properties.  What a chain may  *)
(* do next depends on which of its pointers is set, so the invariant ties     *)
(* every pointer to the state of its peripheral.                              *)

(* Nothing of the AES chain is under way before main starts the RNG, and the  *)
(* init callback is pending only while the counter stands still.              *)
BeforeRandom == {"clock_init", "poll", "fallback", "random_init"}

BootInv ==
  /\ mainpc = "clock_init" => rtc = "off" /\ onInitCB = NULL
  /\ onInitCB # NULL =>
       rtc = "off" /\ (lfclk = "starting" \/ EVENTS_LFCLKSTARTED)
  /\ rtc = "off" => EVENTS_COMPARE = {}
  /\ mainpc \in BeforeRandom =>
       rng = "stopped" /\ ~EVENTS_VALRDY /\ isr # "RNG" /\ onECBDoneCB = NULL
  /\ onFirstDataCB # NULL => rng = "running" /\ onECBDoneCB = NULL

(* A round is in exactly one place: the crystal starting, its event set, the  *)
(* radio sending, or the radio's event set.                                   *)
RoundInv ==
  /\ onHFCLKStartedCB # NULL <=> hfclk = "starting" \/ EVENTS_HFCLKSTARTED
  /\ EVENTS_HFCLKSTARTED => hfclk = "running"
  /\ onDisableCB # NULL <=> radio # "disabled" \/ EVENTS_DISABLED
  /\ EVENTS_DISABLED => radio = "disabled"
  /\ onHFCLKStartedCB = NULL \/ onDisableCB = NULL
  /\ hfclk # "off" <=> BleOutstanding
  /\ BleOutstanding => ble_timerEventDoneCB = "timer_reschedule"

(* So is an encryption: the peripheral busy, its event set, or its handler    *)
(* half way.                                                                  *)
PayloadInv ==
  /\ onECBDoneCB # NULL <=> ecb = "busy" \/ EVENTS_ENDECB \/ isr = "ECB"
  /\ ecb = "busy" => ~EVENTS_ENDECB /\ isr # "ECB"
  /\ EVENTS_ENDECB => isr # "ECB"
  /\ HeapBalanced

(* No slot fires into the boot or into a job of its own that is outstanding.  *)
CompareInv ==
  \A i \in EVENTS_COMPARE : BootIsOver /\ JobFits(timer.slots[i].cb)

CallbackInv == BootInv /\ RoundInv /\ PayloadInv /\ CompareInv


(* The steps that leave a round alone: all but those of the clock, the timer  *)
(* and the radio.                                                             *)
LEMMA RoundFrame ==
  ASSUME Main \/ HwTick \/ HwLfclk \/ HwRandomByte \/ HwEncrypted
         \/ RNG_IRQHandler \/ RNG_IRQHandler_end
         \/ ECB_IRQHandler \/ ECB_IRQHandler_end \/ UNCHANGED vars
  PROVE  UNCHANGED <<hfVars, bleVars, ble_timerEventDoneCB>>
<1> USE DEF clockVars, bleChainVars
<1>1. CASE Main
  BY <1>1
  DEF Main, MainInitClock, MainPollReturns, MainPollExhausted, MainFallback,
      MainInitRandom, MainInitAes, MainInitPdu, MainCopyBeaconIv,
      MainCopyBeaconEnc, MainSetLength, clock_init, clock_init_fallback
<1>2. CASE HwTick \/ HwLfclk \/ HwRandomByte \/ HwEncrypted
  BY <1>2 DEF HwTick, HwLfclk, HwRandomByte, HwEncrypted, LfclkStarts
<1>3. CASE RNG_IRQHandler \/ RNG_IRQHandler_end
  BY <1>3 DEF RNG_IRQHandler, RNG_IRQHandler_end
<1>4. CASE ECB_IRQHandler \/ ECB_IRQHandler_end
  BY <1>4 DEF ECB_IRQHandler, ECB_IRQHandler_end
<1>5. CASE UNCHANGED vars
  BY <1>5 DEF vars
<1> QED
  BY <1>1, <1>2, <1>3, <1>4, <1>5

(* The slots that fire belong to jobs that are over.                          *)
LEMMA FiredJobsFit ==
  ASSUME CompareInv
  PROVE  /\ "ble_callback_chain" \in FiredCallbacks => ~BleOutstanding
         /\ "aes_callback_chain" \in FiredCallbacks => ~EncryptionOutstanding
         /\ FiredCallbacks # {} => BootIsOver
BY DEF CompareInv, FiredCallbacks, JobFits

(* A round stays in one place.                                                *)
LEMMA RoundStep ==
  ASSUME CallbackInv, [Next]_vars
  PROVE  RoundInv'
<1> USE DEF CallbackInv
<1>1. CASE UNCHANGED <<hfVars, bleVars, ble_timerEventDoneCB>>
  BY <1>1 DEF RoundInv, BleOutstanding, hfVars, bleVars
<1>2. CASE POWER_CLOCK_IRQHandler
  BY <1>2
  DEF POWER_CLOCK_IRQHandler, HfclkStarted, ble_send_on_channel, RoundInv,
      BleOutstanding, bleVars, NULL
<1>3. CASE RTC1_IRQHandler
  <2>1. CASE "ble_callback_chain" \in FiredCallbacks
    BY <1>3, <2>1, FiredJobsFit
    DEF RTC1_IRQHandler, ble_callback_chain, clock_start_hf, RoundInv,
        BleOutstanding, bleVars, NULL
  <2>2. CASE "ble_callback_chain" \notin FiredCallbacks
    BY <1>1, <1>3, <2>2 DEF RTC1_IRQHandler, clockVars
  <2> QED
    BY <2>1, <2>2
<1>4. CASE RADIO_IRQHandler
  <2>1. CASE finished_ble_data
    BY <1>4, <2>1
    DEF RADIO_IRQHandler, finished_ble_data, clock_stop_hf, AfterDisableCB,
        RoundInv, BleOutstanding, bleChainVars, NULL
  <2>2. CASE ~finished_ble_data
    BY <1>4, <2>2
    DEF RADIO_IRQHandler, SendNext, ble_send_on_channel, AfterDisableCB,
        RoundInv, BleOutstanding, clockVars, hfVars, bleChainVars, NULL
  <2> QED
    BY <2>1, <2>2
<1>5. CASE HwHfclk
  BY <1>5
  DEF HwHfclk, HfclkStarts, RoundInv, BleOutstanding, bleVars, bleChainVars
<1>6. CASE HwRadioReadsIv \/ HwRadioEnds
  BY <1>6
  DEF HwRadioReadsIv, HwRadioEnds, RoundInv, BleOutstanding, clockVars, hfVars,
      bleChainVars
<1> QED
  BY <1>1, <1>2, <1>3, <1>4, <1>5, <1>6, RoundFrame DEF Next, Handlers, Hardware

(* The steps that leave an encryption alone.                                  *)
LEMMA PayloadFrame ==
  ASSUME \/ Main /\ ~MainInitAes
         \/ HwTick \/ HwLfclk \/ HwHfclk \/ HwRandomByte
         \/ HwRadioReadsIv \/ HwRadioEnds
         \/ POWER_CLOCK_IRQHandler \/ RADIO_IRQHandler \/ UNCHANGED vars
  PROVE  UNCHANGED <<aesVars, ivBlocks, isr>>
<1> USE DEF cpuVars, aesChainVars
<1>1. CASE Main /\ ~MainInitAes
  BY <1>1
  DEF Main, MainInitClock, MainPollReturns, MainPollExhausted, MainFallback,
      MainInitRandom, MainInitPdu, MainCopyBeaconIv, MainCopyBeaconEnc,
      MainSetLength, MainStep
<1>2. CASE HwTick \/ HwLfclk \/ HwHfclk \/ HwRandomByte
  BY <1>2 DEF HwTick, HwLfclk, HwHfclk, HwRandomByte
<1>3. CASE HwRadioReadsIv \/ HwRadioEnds
  BY <1>3 DEF HwRadioReadsIv, HwRadioEnds
<1>4. CASE POWER_CLOCK_IRQHandler \/ RADIO_IRQHandler
  BY <1>4 DEF POWER_CLOCK_IRQHandler, RADIO_IRQHandler
<1>5. CASE UNCHANGED vars
  BY <1>5 DEF vars
<1> QED
  BY <1>1, <1>2, <1>3, <1>4, <1>5

(* aes_callback_chain starts an encryption when none is outstanding.          *)
LEMMA EncryptionStarts ==
  ASSUME PayloadInv, onECBDoneCB = NULL, NEW doneCB, aes_callback_chain(doneCB),
         isr' # "ECB"
  PROVE  PayloadInv'
BY DEF aes_callback_chain, aes_encrypt, PayloadInv, HeapBalanced, NULL

(* An encryption stays in one place, and its memory with it.                  *)
LEMMA PayloadStep ==
  ASSUME CallbackInv, [Next]_vars
  PROVE  PayloadInv'
<1> USE DEF CallbackInv
<1>1. CASE UNCHANGED <<aesVars, ivBlocks, isr>>
  BY <1>1 DEF PayloadInv, HeapBalanced, aesVars
<1>2. CASE MainInitAes
  BY <1>2
  DEF MainInitAes, MainStep, aes_init, PayloadInv, HeapBalanced, aesChainVars
<1>3. CASE RTC1_IRQHandler
  <2>1. CASE "aes_callback_chain" \in FiredCallbacks
    <3>1. onECBDoneCB = NULL
      BY <2>1, FiredJobsFit DEF EncryptionOutstanding
    <3>2. isr' # "ECB"
      BY <1>3 DEF RTC1_IRQHandler, cpuVars
    <3> QED
      BY <1>3, <2>1, <3>1, <3>2, EncryptionStarts DEF RTC1_IRQHandler
  <2>2. CASE "aes_callback_chain" \notin FiredCallbacks
    BY <1>1, <1>3, <2>2 DEF RTC1_IRQHandler, cpuVars, aesChainVars
  <2> QED
    BY <2>1, <2>2
<1>4. CASE RNG_IRQHandler
  BY <1>4
  DEF RNG_IRQHandler, PayloadInv, HeapBalanced, aesVars, aesChainVars
<1>5. CASE RNG_IRQHandler_end
  <2>1. CASE onFirstDataCB # NULL /\ aes_callback_chain(NULL)
    <3>1. onECBDoneCB = NULL
      BY <2>1 DEF BootInv
    <3> QED
      BY <1>5, <2>1, <3>1, EncryptionStarts DEF RNG_IRQHandler_end
  <2>2. CASE UNCHANGED <<aesVars, aesChainVars>>
    BY <1>5, <2>2
    DEF RNG_IRQHandler_end, PayloadInv, HeapBalanced, aesVars, aesChainVars
  <2> QED
    BY <1>5, <2>1, <2>2 DEF RNG_IRQHandler_end, RNG_complete, NULL
<1>6. CASE ECB_IRQHandler
  BY <1>6 DEF ECB_IRQHandler, PublishIv, PayloadInv, HeapBalanced, NULL
<1>7. CASE ECB_IRQHandler_end
  BY <1>7 DEF ECB_IRQHandler_end, PublishEncrypted, PayloadInv, HeapBalanced, aesChainVars
<1>8. CASE HwEncrypted
  BY <1>8
  DEF HwEncrypted, EncryptionEnds, PayloadInv, HeapBalanced, cpuVars,
      aesChainVars
<1> QED
  BY <1>1, <1>2, <1>3, <1>4, <1>5, <1>6, <1>7, <1>8, PayloadFrame
  DEF Next, Handlers, Hardware


(* The boot: the RNG starts before the first encryption, the counter with the *)
(* init callback.                                                             *)
LEMMA BootStep ==
  ASSUME TypeOK, CallbackInv, [Next]_vars
  PROVE  BootInv'
<1> USE DEF CallbackInv, BootInv, BeforeRandom
<1> DEFINE bootVars == <<mainpc, rtc, onInitCB, lfclk, EVENTS_LFCLKSTARTED,
                         EVENTS_COMPARE, rng, EVENTS_VALRDY, isr, onECBDoneCB,
                         onFirstDataCB>>
<1>1. CASE UNCHANGED bootVars
  BY <1>1
<1>2. CASE Main
  <2> USE DEF MainStep, clockVars, lfVars, timerVars, rtcVars, randomVars,
              aesVars, NULL
  <2>1. CASE MainInitClock \/ MainFallback
    BY <2>1 DEF MainInitClock, clock_init, MainFallback, clock_init_fallback
  <2>2. CASE MainPollReturns \/ MainPollExhausted
    BY <2>2 DEF MainPollReturns, MainPollExhausted
  <2>3. CASE MainInitRandom
    BY <2>3 DEF MainInitRandom, random_init
  <2>4. CASE MainInitAes \/ MainInitPdu \/ MainSetLength
    BY <2>4 DEF MainInitAes, aes_init, MainInitPdu, MainSetLength
  <2>5. CASE MainCopyBeaconIv \/ MainCopyBeaconEnc
    BY <2>5 DEF MainCopyBeaconIv, MainCopyBeaconEnc
  <2> QED
    BY <1>2, <2>1, <2>2, <2>3, <2>4, <2>5 DEF Main
<1>3. CASE POWER_CLOCK_IRQHandler
  BY <1>3
  DEF POWER_CLOCK_IRQHandler, LfclkStarted, whenClockInited, timerVars, rtcVars,
      randomVars, aesVars, cpuVars, NULL
<1>4. CASE RTC1_IRQHandler
  <2>1. EVENTS_COMPARE' = {} /\ UNCHANGED <<cpuVars, rtc, lfVars>>
    BY <1>4 DEF RTC1_IRQHandler, RTC1_acknowledge, ble_callback_chain,
       clock_start_hf, clockVars
  <2>2. CASE "aes_callback_chain" \in FiredCallbacks
    <3>1. mainpc = "idle" /\ onFirstDataCB = NULL
      BY <2>2, FiredJobsFit DEF BootIsOver
    <3> QED
      BY <1>4, <2>1, <2>2, <3>1
      DEF RTC1_IRQHandler, cpuVars, lfVars
  <2>3. CASE "aes_callback_chain" \notin FiredCallbacks
    BY <1>4, <2>1, <2>3
    DEF RTC1_IRQHandler, cpuVars, lfVars, randomVars, aesVars
  <2> QED
    BY <2>2, <2>3
<1>5. CASE RADIO_IRQHandler
  BY <1>1, <1>5
  DEF RADIO_IRQHandler, finished_ble_data, clock_stop_hf, SendNext, clockVars,
      lfVars, rtcVars, randomVars, aesVars, cpuVars
<1>6. CASE RNG_IRQHandler
  BY <1>6
  DEF RNG_IRQHandler, RNG_store, clockVars, lfVars, timerVars, rtcVars, aesVars
<1>7. CASE RNG_IRQHandler_end
  <2> USE DEF RNG_IRQHandler_end, clockVars, lfVars, timerVars, rtcVars
  <2>1. mainpc \notin BeforeRandom
    BY <1>7
  <2>2. CASE UNCHANGED <<randomVars, aesVars>>
    BY <1>7, <2>2 DEF randomVars, aesVars
  <2>3. CASE onFirstDataCB = NULL /\ UNCHANGED onFirstDataCB
    BY <1>7, <2>1, <2>3
  <2>4. CASE onFirstDataCB' = NULL
    BY <1>7, <2>1, <2>4
  <2> QED
    BY <1>7, <2>2, <2>3, <2>4 DEF RNG_complete
<1>8. CASE ECB_IRQHandler \/ ECB_IRQHandler_end
  BY <1>8
  DEF ECB_IRQHandler, ECB_IRQHandler_end, clockVars, lfVars, timerVars, rtcVars,
      randomVars
<1>9. CASE HwTick
  BY <1>9
  DEF HwTick, RtcTicks, RngTicks, clockVars, lfVars, aesVars
<1>10. CASE HwLfclk
  BY <1>10
  DEF HwLfclk, LfclkStarts, timerVars, rtcVars, randomVars, aesVars, cpuVars
<1>11. CASE HwHfclk \/ HwEncrypted
  BY <1>1, <1>11
  DEF HwHfclk, HfclkStarts, HwEncrypted, EncryptionEnds, clockVars, lfVars,
      timerVars, rtcVars, randomVars, aesVars, cpuVars
<1>12. CASE HwRandomByte
  BY <1>12
  DEF HwRandomByte, ByteReady, clockVars, lfVars, timerVars, rtcVars, aesVars,
      cpuVars
<1>13. CASE HwRadioReadsIv \/ HwRadioEnds
  BY <1>1, <1>13
  DEF HwRadioReadsIv, HwRadioEnds, clockVars, lfVars, timerVars, rtcVars,
      randomVars, aesVars, cpuVars
<1>14. CASE UNCHANGED vars
  BY <1>1, <1>14
  DEF vars, clockVars, lfVars, timerVars, rtcVars, randomVars, aesVars, cpuVars
<1> QED
  BY <1>2, <1>3, <1>4, <1>5, <1>6, <1>7, <1>8, <1>9, <1>10, <1>11, <1>12, <1>13,
     <1>14 DEF Next, Handlers, Hardware


(* Only the timer's handler starts a job that its own slot might fire into.   *)
LEMMA JobsStayOver ==
  ASSUME TypeOK, CallbackInv, [Next]_vars, ~RTC1_IRQHandler, BootIsOver
  PROVE  /\ BootIsOver'
         /\ ~BleOutstanding => ~BleOutstanding'
         /\ ~EncryptionOutstanding => ~EncryptionOutstanding'
         /\ ~AesOutstanding => ~AesOutstanding'
<1> USE DEF CallbackInv
<1>0. ~Main
  BY DEF BootIsOver, Main, MainInitClock, MainPollReturns, MainPollExhausted, MainFallback,
     MainInitRandom, MainInitAes, MainInitPdu, MainCopyBeaconIv,
     MainCopyBeaconEnc, MainSetLength, MainStep
<1>1. BootIsOver'
  <2>1. mainpc' = mainpc
    BY <1>0
    DEF Next, Handlers, Hardware, POWER_CLOCK_IRQHandler, RADIO_IRQHandler,
        RNG_IRQHandler, RNG_IRQHandler_end, ECB_IRQHandler, ECB_IRQHandler_end,
        HwTick, HwLfclk, HwHfclk, HwRandomByte, HwEncrypted, HwRadioReadsIv,
        HwRadioEnds, cpuVars, vars
  <2>2. onFirstDataCB' = NULL
    BY <1>0
    DEF BootIsOver, Next, Handlers, Hardware, POWER_CLOCK_IRQHandler,
        RADIO_IRQHandler, RNG_IRQHandler, RNG_store, RNG_IRQHandler_end,
        RNG_complete, ECB_IRQHandler, ECB_IRQHandler_end, HwTick, RngTicks,
        HwLfclk, HwHfclk, HwRandomByte, ByteReady, HwEncrypted, HwRadioReadsIv,
        HwRadioEnds, randomVars, vars
  <2> QED
    BY <2>1, <2>2 DEF BootIsOver
<1>2. ASSUME ~BleOutstanding
      PROVE  ~BleOutstanding'
  <2> USE <1>2 DEF BleOutstanding
  <2>1. CASE UNCHANGED <<hfVars, bleVars, ble_timerEventDoneCB>>
    BY <2>1 DEF hfVars, bleVars
  <2>2. CASE POWER_CLOCK_IRQHandler
    BY <2>2 DEF POWER_CLOCK_IRQHandler, HfclkStarted, RoundInv, bleVars
  <2>3. CASE RADIO_IRQHandler
    BY <2>3 DEF RADIO_IRQHandler, RoundInv
  <2>4. CASE HwHfclk
    BY <2>4 DEF HwHfclk, HfclkStarts, bleVars
  <2>5. CASE HwRadioReadsIv \/ HwRadioEnds
    BY <2>5 DEF HwRadioReadsIv, HwRadioEnds, clockVars, hfVars
  <2> QED
    BY <1>0, <2>1, <2>2, <2>3, <2>4, <2>5, RoundFrame DEF Next, Handlers, Hardware
<1>3. ASSUME ~EncryptionOutstanding
      PROVE  ~EncryptionOutstanding'
  <2> USE <1>3 DEF EncryptionOutstanding
  <2>1. CASE RNG_IRQHandler \/ RNG_IRQHandler_end
    BY <2>1
    DEF RNG_IRQHandler, RNG_IRQHandler_end, RNG_complete, BootIsOver, aesVars,
        NULL
  <2>2. CASE ECB_IRQHandler \/ ECB_IRQHandler_end \/ HwEncrypted
    BY <2>2
    DEF ECB_IRQHandler, ECB_IRQHandler_end, HwEncrypted, EncryptionEnds, NULL
  <2> QED
    BY <1>0, <2>1, <2>2, PayloadFrame DEF Next, Handlers, Hardware, aesVars
<1>4. ASSUME ~AesOutstanding
      PROVE  ~AesOutstanding'
  <2> USE <1>4 DEF AesOutstanding, EncryptionOutstanding
  <2>1. CASE UNCHANGED <<aesVars, ivBlocks, isr>> /\ UNCHANGED randomVars
    BY <2>1 DEF aesVars, randomVars
  <2>2. CASE RNG_IRQHandler \/ RNG_IRQHandler_end \/ HwRandomByte
    BY <2>2 DEF RNG_IRQHandler, RNG_store, RNG_IRQHandler_end, HwRandomByte,
                ByteReady
  <2>3. CASE ECB_IRQHandler \/ ECB_IRQHandler_end \/ HwEncrypted
    BY <2>3
    DEF ECB_IRQHandler, ECB_IRQHandler_end, HwEncrypted, EncryptionEnds,
        randomVars, cpuVars, NULL
  <2>4. CASE HwTick \/ HwLfclk \/ HwHfclk \/ HwRadioReadsIv \/ HwRadioEnds
    BY <2>1, <2>4, PayloadFrame
    DEF aesVars, randomVars, HwTick, RngTicks, HwLfclk, HwHfclk, HwRadioReadsIv, HwRadioEnds
  <2>5. CASE POWER_CLOCK_IRQHandler \/ RADIO_IRQHandler \/ UNCHANGED vars
    BY <2>1, <2>5, PayloadFrame
    DEF POWER_CLOCK_IRQHandler, RADIO_IRQHandler, vars
  <2> QED
    BY <1>0, <2>2, <2>3, <2>4, <2>5 DEF Next, Handlers, Hardware
<1> QED
  BY <1>1, <1>2, <1>3, <1>4

(* A slot that has fired keeps its callback until the handler has run it.     *)
LEMMA FiredSlotsKept ==
  ASSUME TypeOK, CallbackInv, [Next]_vars, ~RTC1_IRQHandler, ~HwTick
  PROVE  /\ UNCHANGED EVENTS_COMPARE
         /\ EVENTS_COMPARE = {} \/ timer'.slots = timer.slots
<1> USE DEF CallbackInv
<1>1. CASE UNCHANGED timerVars
  BY <1>1 DEF timerVars, rtcVars
<1>2. CASE \E slot \in Slots :
             timer_reschedule(slot) /\ UNCHANGED rtcVars
  BY <1>2 DEF timer_reschedule, rtcVars, TypeOK, TimerTypeOK, Timers
<1>3. CASE Main
  BY <1>1, <1>3
  DEF Main, MainInitClock, MainPollReturns, MainPollExhausted, MainFallback,
      MainInitRandom, MainInitAes, MainInitPdu, MainCopyBeaconIv,
      MainCopyBeaconEnc, MainSetLength
<1>4. CASE POWER_CLOCK_IRQHandler
  <2>1. CASE whenClockInited /\ onInitCB = "whenClockInited"
    BY <2>1 DEF whenClockInited, BootInv, NULL
  <2> QED
    BY <1>1, <1>4, <2>1 DEF POWER_CLOCK_IRQHandler, LfclkStarted
<1>5. CASE RADIO_IRQHandler
  BY <1>1, <1>2, <1>5
  DEF RADIO_IRQHandler, SendNext, finished_ble_data, reschedule_ble_data,
      timerVars, TypeOK, BleChainTypeOK
<1>6. CASE RNG_IRQHandler \/ RNG_IRQHandler_end \/ ECB_IRQHandler
  BY <1>1, <1>6 DEF RNG_IRQHandler, RNG_IRQHandler_end, ECB_IRQHandler
<1>7. CASE ECB_IRQHandler_end
  BY <1>1, <1>2, <1>7
  DEF ECB_IRQHandler_end, PublishEncrypted, timerVars, TypeOK, AesChainTypeOK
<1>8. CASE HwLfclk \/ HwHfclk \/ HwRandomByte \/ HwEncrypted
  BY <1>1, <1>8 DEF HwLfclk, HwHfclk, HwRandomByte, HwEncrypted
<1>9. CASE HwRadioReadsIv \/ HwRadioEnds \/ UNCHANGED vars
  BY <1>1, <1>9 DEF HwRadioReadsIv, HwRadioEnds, vars
<1> QED
  BY <1>3, <1>4, <1>5, <1>6, <1>7, <1>8, <1>9 DEF Next, Handlers, Hardware

(* No slot fires into its own job.                                            *)
LEMMA CompareStep ==
  ASSUME TypeOK, CallbackInv, [Next]_vars
  PROVE  CompareInv'
<1> USE DEF CallbackInv
<1>1. CASE RTC1_IRQHandler
  BY <1>1 DEF RTC1_IRQHandler, RTC1_acknowledge, CompareInv
<1>2. CASE HwTick
  BY <1>2
  DEF HwTick, HandlerFits, RtcTicks, CompareInv, JobFits, BleOutstanding,
      BootIsOver, EncryptionOutstanding, RngTicks, clockVars, hfVars, bleVars,
      aesVars
<1>3. CASE ~RTC1_IRQHandler /\ ~HwTick
  <2> SUFFICES ASSUME NEW i \in EVENTS_COMPARE'
               PROVE  BootIsOver' /\ JobFits(timer.slots[i].cb)'
    BY DEF CompareInv
  <2>1. i \in EVENTS_COMPARE /\ timer'.slots = timer.slots
    BY <1>3, FiredSlotsKept
  <2>2. BootIsOver /\ JobFits(timer.slots[i].cb)
    BY <2>1 DEF CompareInv
  <2> QED
    BY <1>3, <2>1, <2>2, JobsStayOver DEF JobFits
<1> QED
  BY <1>1, <1>2, <1>3

(* The invariant holds: at reset all is quiet, and each part of it survives   *)
(* every step of main, of the handlers and of the peripherals.                *)
THEOREM CallbackInvariant == Spec => []CallbackInv
<1>1. Init => CallbackInv
  BY DEF Init, ClockInit, TimerInit, RandomInit, AesInit, BleInit, CallbackInv,
     BootInv, BeforeRandom, RoundInv, PayloadInv, CompareInv, HeapBalanced,
     BleOutstanding, NULL
<1>2. TypeOK /\ CallbackInv /\ [Next]_vars => CallbackInv'
  BY BootStep, RoundStep, PayloadStep, CompareStep DEF CallbackInv
<1> QED
  BY <1>1, <1>2, TypeCorrect, PTL DEF Spec

(* No handler ever calls a NULL callback: not the radio's, which does not     *)
(* check its pointer, nor that of the encryption, nor the end of a round.     *)
THEOREM CallbacksAreArmed == Spec => []CallbackArmed
<1>1. CallbackInv => CallbackArmed
  BY DEF CallbackInv, RoundInv, PayloadInv, CallbackArmed, BleOutstanding, NULL
<1> QED
  BY <1>1, CallbackInvariant, PTL

(* No callback is left waiting for an event that will not come.               *)
THEOREM CallbacksAreAwaited == Spec => []CallbackAwaited
<1>1. CallbackInv => CallbackAwaited
  BY DEF CallbackInv, BootInv, RoundInv, PayloadInv, CallbackAwaited
<1> QED
  BY <1>1, CallbackInvariant, PTL

(* The crystal oscillator runs while the radio sends and only in a round.     *)
THEOREM OscillatorOnlyInRounds == Spec => []HfclkOnlyInRound
<1>1. TypeOK /\ CallbackInv => HfclkOnlyInRound
  BY DEF CallbackInv, RoundInv, HfclkOnlyInRound, BleOutstanding, TypeOK,
         ClockTypeOK, OscillatorStates
<1> QED
  BY <1>1, TypeCorrect, CallbackInvariant, PTL

(* What the payload chain allocates it frees, and never holds two at a time.  *)
THEOREM HeapStaysBalanced == Spec => []HeapBalanced
<1>1. CallbackInv => HeapBalanced
  BY DEF CallbackInv, PayloadInv
<1> QED
  BY <1>1, CallbackInvariant, PTL

==============================================================================
