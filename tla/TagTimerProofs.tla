---------------------------- MODULE TagTimerProofs ----------------------------
(* Proofs about the slots of the timer and the bytes of the IVs, for          *)
(* intervals, counters and IVs of any size.                                   *)
EXTENDS TagProofs

------------------------------------------------------------------------------
(* Arithmetic of the counter.                                                 *)

(* A number of the counter is its own remainder.                              *)
LEMMA RestBelow ==
  ASSUME NEW m \in Nat \ {0}, NEW a \in 0..(m - 1)
  PROVE  a % m = a
  OBVIOUS

(* One turn more goes away ...                                                *)
LEMMA RestAbove ==
  ASSUME NEW m \in Nat \ {0}, NEW a \in m..(2 * m - 1)
  PROVE  a % m = a - m
  OBVIOUS

(* ... and one turn less is made up for.                                      *)
LEMMA RestUnder ==
  ASSUME NEW m \in Nat \ {0}, NEW a \in (0 - m)..(0 - 1)
  PROVE  a % m = a + m
  OBVIOUS

(* How far one number of the counter is ahead of another.                     *)
LEMMA Distance ==
  ASSUME NEW m \in Nat \ {0}, NEW a \in 0..(m - 1), NEW d \in 0..(m - 1)
  PROVE  (a - d) % m = IF a >= d THEN a - d ELSE a - d + m
<1>1. CASE a >= d
  <2>1. a - d \in 0..(m - 1)
    BY <1>1
  <2> QED BY <1>1, <2>1, RestBelow
<1>2. CASE ~(a >= d)
  <2>1. a - d \in (0 - m)..(0 - 1)
    BY <1>2
  <2> QED BY <1>2, <2>1, RestUnder
<1> QED BY <1>1, <1>2

(* A compare value set k ticks past the counter is k ticks ahead.             *)
LEMMA SetAhead ==
  ASSUME NEW m \in Nat \ {0}, NEW c \in 0..(m - 1), NEW k \in 1..(m - 1)
  PROVE  (((c + k) % m) - c) % m = k
<1> DEFINE cc == (c + k) % m
<1>1. cc = IF c + k < m THEN c + k ELSE c + k - m
  <2>1. CASE c + k < m
    <3>1. c + k \in 0..(m - 1)
      BY <2>1
    <3> QED BY <2>1, <3>1, RestBelow
  <2>2. CASE ~(c + k < m)
    <3>1. c + k \in m..(2 * m - 1)
      BY <2>2
    <3> QED BY <2>2, <3>1, RestAbove
  <2> QED BY <2>1, <2>2
<1> HIDE DEF cc
<1>2. cc \in 0..(m - 1)
  BY <1>1
<1>3. (cc - c) % m = IF cc >= c THEN cc - c ELSE cc - c + m
  BY <1>2, Distance
<1>4. (cc - c) % m = k
  BY <1>1, <1>3
<1> QED BY <1>4 DEF cc

(* One that is two ticks or more ahead is not reached and one tick nearer.    *)
LEMMA TickOneNearer ==
  ASSUME NEW m \in Nat \ {0}, NEW c \in 0..(m - 1), NEW cc \in 0..(m - 1),
         (cc - c) % m >= 2
  PROVE  /\ cc # (c + 1) % m
         /\ (cc - ((c + 1) % m)) % m = ((cc - c) % m) - 1
<1> DEFINE d == (c + 1) % m
<1>1. d = IF c = m - 1 THEN 0 ELSE c + 1
  OBVIOUS
<1> HIDE DEF d
<1>2. d \in 0..(m - 1)
  BY <1>1
<1>3. (cc - c) % m = IF cc >= c THEN cc - c ELSE cc - c + m
  BY Distance
<1>4. (cc - d) % m = IF cc >= d THEN cc - d ELSE cc - d + m
  BY <1>2, Distance
<1>5. cc # d /\ (cc - d) % m = ((cc - c) % m) - 1
  BY <1>1, <1>3, <1>4
<1> QED BY <1>5 DEF d

(* A tick that does not reach the value brings it one tick nearer.            *)
LEMMA TickNearer ==
  ASSUME NEW m \in Nat \ {0}, NEW c \in 0..(m - 1), NEW cc \in 0..(m - 1),
         NEW k \in Nat, (cc - c) % m \in 1..k, cc # (c + 1) % m
  PROVE  (cc - ((c + 1) % m)) % m \in 1..k
<1> DEFINE d == (c + 1) % m
<1>1. d = IF c = m - 1 THEN 0 ELSE c + 1
  OBVIOUS
<1> HIDE DEF d
<1>2. d \in 0..(m - 1)
  BY <1>1
<1>3. (cc - c) % m = IF cc >= c THEN cc - c ELSE cc - c + m
  BY Distance
<1>4. (cc - d) % m = IF cc >= d THEN cc - d ELSE cc - d + m
  BY <1>2, Distance
<1>5. cc # d
  BY DEF d
<1>6. (cc - d) % m \in 1..k
  BY <1>1, <1>3, <1>4, <1>5
<1> QED BY <1>6 DEF d
------------------------------------------------------------------------------
(* The inductive invariant.                                                   *)

(* The slot waits for its compare value, which lies ahead of the counter by   *)
(* at most its interval.                                                      *)
Armed(slot, interval) ==
  slot \notin EVENTS_COMPARE => Ahead(slot) \in 1..(interval * RTC_FREQUENCY)

(* The job of the slot will re-arm it when it is over.                        *)
AesRearms == onECBDoneCB # NULL /\ aes_timerEventDoneCB # NULL

(* Before the timers are registered the counter stands at 0 and no round has  *)
(* begun.                                                                     *)
IdleInv ==
  /\ COUNTER = 0
  /\ timer.current_slot = 0
  /\ hfclk = "off"
  /\ aes_timerEventDoneCB = NULL

(* Then each chain has its slot ...                                           *)
SlotsInv ==
  /\ ble_timer_slot = 0 /\ aes_timer_slot = 1
  /\ timer.current_slot = 2
  /\ timer.slots[0] = [interval |-> BleInterval, cb |-> "ble_callback_chain"]
  /\ timer.slots[1] = [interval |-> AesInterval, cb |-> "aes_callback_chain"]

(* ... which is armed unless the chain is to re-arm it: the BLE chain in a    *)
(* round, the payload chain in an encryption but the first.                   *)
BleArmed == hfclk = "off" => Armed(0, BleInterval)
AesArmed == ~AesRearms => Armed(1, AesInterval)

ArmedInv ==
  /\ rtc = "off" => IdleInv
  /\ rtc = "running" => SlotsInv /\ BleArmed /\ AesArmed

(* The intervals in ticks, and the counter.                                   *)
LEMMA Intervals ==
  ASSUME TypeOK
  PROVE  /\ CounterMod \in Nat \ {0}
         /\ COUNTER \in 0..(CounterMod - 1)
         /\ \A i \in Slots : timer.CC[i] \in 0..(CounterMod - 1)
         /\ BleInterval * RTC_FREQUENCY \in 1..(CounterMod - 1)
         /\ AesInterval * RTC_FREQUENCY \in 1..(CounterMod - 1)
<1>1. ASSUME NEW a \in Nat \ {0}, NEW b \in Nat \ {0}
      PROVE  a * b \in Nat \ {0}
  OBVIOUS
<1>2. /\ BleInterval * RTC_FREQUENCY \in Nat \ {0}
      /\ AesInterval * RTC_FREQUENCY \in Nat \ {0}
  BY <1>1, TagAssumption, TimerAssumption
<1>3. CounterMod \in Nat \ {0}
  BY TimerAssumption
<1>4. \A k \in Nat \ {0} : k < CounterMod => k \in 1..(CounterMod - 1)
  BY <1>3
<1>5. /\ COUNTER \in 0..(CounterMod - 1)
      /\ \A i \in Slots : timer.CC[i] \in 0..(CounterMod - 1)
  BY DEF TypeOK, TimerTypeOK, Timers
<1> QED BY <1>2, <1>3, <1>4, <1>5, IntervalsFit

(* A step that leaves alone what the invariant speaks of.                     *)
LEMMA ArmedFrame ==
  ASSUME ArmedInv,
         UNCHANGED <<timerVars, ble_timer_slot, aes_timer_slot,
                     aes_timerEventDoneCB, onECBDoneCB>>,
         hfclk' = "off" <=> hfclk = "off"
  PROVE  ArmedInv'
<1>1. /\ rtc' = rtc /\ COUNTER' = COUNTER /\ timer' = timer
      /\ EVENTS_COMPARE' = EVENTS_COMPARE
  BY DEF timerVars, rtcVars
<1>2. ASSUME NEW s, NEW i PROVE Armed(s, i)' <=> Armed(s, i)
  BY <1>1 DEF Armed, Ahead
<1>3. BleArmed' <=> BleArmed
  BY <1>2 DEF BleArmed
<1>4. AesArmed' <=> AesArmed
  BY <1>2 DEF AesArmed, AesRearms
<1>5. (SlotsInv' <=> SlotsInv) /\ (IdleInv' <=> IdleInv)
  BY <1>1 DEF SlotsInv, IdleInv
<1> QED BY <1>1, <1>3, <1>4, <1>5 DEF ArmedInv

(* timer_reschedule arms its slot and leaves the other alone.                 *)
LEMMA RescheduleArms ==
  ASSUME TypeOK, SlotsInv, NEW s \in 0..1, timer_reschedule(s),
         UNCHANGED <<COUNTER, EVENTS_COMPARE>>
  PROVE  /\ timer'.slots = timer.slots
         /\ timer'.current_slot = timer.current_slot
         /\ Ahead(s)' = timer.slots[s].interval * RTC_FREQUENCY
         /\ Ahead(s)' \in 1..(timer.slots[s].interval * RTC_FREQUENCY)
         /\ \A o \in 0..1 : o # s => Ahead(o)' = Ahead(o)
<1> DEFINE k == timer.slots[s].interval * RTC_FREQUENCY
<1>1. k \in 1..(CounterMod - 1)
  BY Intervals DEF SlotsInv
<1>2. /\ timer' = [timer EXCEPT !.CC[s] = (COUNTER + k) % CounterMod]
      /\ timer \in Timers
  BY DEF timer_reschedule, TypeOK, TimerTypeOK
<1> HIDE DEF k
<1>3. timer'.slots = timer.slots /\ timer'.current_slot = timer.current_slot
  BY <1>2 DEF Timers
<1>4. /\ timer'.CC[s] = (COUNTER + k) % CounterMod
      /\ \A o \in 0..1 : o # s => timer'.CC[o] = timer.CC[o]
  BY <1>2 DEF Timers, Slots
<1>5. Ahead(s)' = k
  BY <1>1, <1>4, Intervals, SetAhead DEF Ahead
<1>6. k \in 1..k
  BY <1>1
<1> QED BY <1>3, <1>4, <1>5, <1>6 DEF k, Ahead

(* Main leaves the timers and the rounds alone.                               *)
LEMMA ArmedMain == ArmedInv /\ Main => ArmedInv'
<1> SUFFICES ASSUME ArmedInv, Main PROVE ArmedInv'
  OBVIOUS
<1> USE DEF bleChainVars, aesChainVars, aesVars, clockVars, hfVars
<1>1. CASE MainInitClock \/ MainFallback
  BY <1>1, ArmedFrame
  DEF MainInitClock, clock_init, MainFallback, clock_init_fallback
<1>2. CASE MainPollReturns \/ MainPollExhausted \/ MainInitRandom
  BY <1>2, ArmedFrame DEF MainPollReturns, MainPollExhausted, MainInitRandom
<1>3. CASE MainInitAes \/ MainInitPdu \/ MainSetLength
  BY <1>3, ArmedFrame DEF MainInitAes, aes_init, MainInitPdu, MainSetLength
<1>4. CASE MainCopyBeaconIv \/ MainCopyBeaconEnc
  BY <1>4, ArmedFrame DEF MainCopyBeaconIv, MainCopyBeaconEnc
<1> QED BY <1>1, <1>2, <1>3, <1>4 DEF Main

(* So do the peripherals, except for the RTC.                                 *)
LEMMA ArmedHardware ==
  ArmedInv /\ Hardware /\ ~HwTick => ArmedInv'
<1> SUFFICES ASSUME ArmedInv, Hardware, ~HwTick PROVE ArmedInv'
  OBVIOUS
<1> USE DEF bleChainVars, aesChainVars, aesVars, clockVars, hfVars
<1>1. CASE HwLfclk \/ HwHfclk
  BY <1>1, ArmedFrame DEF HwLfclk, LfclkStarts, HwHfclk, HfclkStarts
<1>2. CASE HwRandomByte \/ HwEncrypted
  BY <1>2, ArmedFrame DEF HwRandomByte, HwEncrypted, EncryptionEnds
<1>3. CASE HwRadioReadsIv \/ HwRadioEnds
  BY <1>3, ArmedFrame DEF HwRadioReadsIv, HwRadioEnds
<1> QED BY <1>1, <1>2, <1>3 DEF Hardware

(* A tick brings every compare value nearer or sets its event.                *)
LEMMA ArmedTick ==
  ASSUME TypeOK, ArmedInv, HwTick
  PROVE  ArmedInv'
<1>1. /\ rtc = "running" /\ rtc' = "running" /\ timer' = timer
      /\ EVENTS_COMPARE = {} /\ EVENTS_COMPARE' = CompareHits
      /\ COUNTER' = (COUNTER + 1) % CounterMod
  BY DEF HwTick, HandlerFits, RtcTicks, NextCount
<1>2. UNCHANGED <<hfclk, onECBDoneCB, aes_timerEventDoneCB, ble_timer_slot,
                  aes_timer_slot>>
  BY DEF HwTick, clockVars, hfVars, aesVars, bleChainVars, aesChainVars
<1>3. SlotsInv /\ BleArmed /\ AesArmed
  BY <1>1 DEF ArmedInv
<1>4. SlotsInv'
  BY <1>1, <1>2, <1>3 DEF SlotsInv
<1>5. ASSUME NEW s \in 0..1, NEW interval \in Nat, Armed(s, interval)
      PROVE  Armed(s, interval)'
  <2> SUFFICES ASSUME s \notin CompareHits
               PROVE  Ahead(s)' \in 1..(interval * RTC_FREQUENCY)
    BY <1>1 DEF Armed
  <2>1. s \in Slots /\ s < timer.current_slot
    BY <1>3 DEF Slots, SlotsInv
  <2>2. timer.CC[s] # (COUNTER + 1) % CounterMod
    BY <2>1 DEF CompareHits, NextCount
  <2>3. (timer.CC[s] - COUNTER) % CounterMod \in 1..(interval * RTC_FREQUENCY)
    BY <1>1, <1>5 DEF Armed, Ahead
  <2>4. interval * RTC_FREQUENCY \in Nat
    BY TicksNat
  <2>5. timer.CC[s] \in 0..(CounterMod - 1)
    BY <2>1, Intervals
  <2>6. (timer.CC[s] - ((COUNTER + 1) % CounterMod)) % CounterMod
          \in 1..(interval * RTC_FREQUENCY)
    BY <2>2, <2>3, <2>4, <2>5, Intervals, TickNearer
  <2> QED BY <1>1, <2>6 DEF Ahead
<1>6. BleArmed'
  <2>1. ASSUME Armed(0, BleInterval) PROVE Armed(0, BleInterval)'
    BY <1>5, <2>1, TagAssumption
  <2> QED BY <1>2, <1>3, <2>1 DEF BleArmed
<1>7. AesArmed'
  <2>1. ASSUME Armed(1, AesInterval) PROVE Armed(1, AesInterval)'
    BY <1>5, <2>1, TagAssumption
  <2> QED BY <1>2, <1>3, <2>1 DEF AesArmed, AesRearms
<1> QED BY <1>1, <1>4, <1>6, <1>7 DEF ArmedInv

(* The init callback starts the counter and registers both slots, each an     *)
(* interval ahead.                                                            *)
LEMMA ArmedStart ==
  ASSUME TypeOK, IdleInv, whenClockInited,
         UNCHANGED <<hfclk, onECBDoneCB, aes_timerEventDoneCB>>
  PROVE  /\ ArmedInv'
         /\ Ahead(1)' = AesInterval * RTC_FREQUENCY
<1> DEFINE b == (BleInterval * RTC_FREQUENCY) % CounterMod
           a == (AesInterval * RTC_FREQUENCY) % CounterMod
<1>1. b = BleInterval * RTC_FREQUENCY /\ a = AesInterval * RTC_FREQUENCY
  <2>1. ASSUME NEW k \in 1..(CounterMod - 1) PROVE k % CounterMod = k
    BY Intervals, RestBelow
  <2> QED BY <2>1, Intervals
<1>2. /\ timer \in Timers /\ timer.current_slot = 0 /\ COUNTER' = 0
      /\ rtc' = "running"
  BY DEF IdleInv, whenClockInited, TypeOK, TimerTypeOK
<1>3. /\ TimerWithBle.current_slot = 1
      /\ TimerWithBle.slots = [timer.slots EXCEPT ![0] =
           [interval |-> BleInterval, cb |-> "ble_callback_chain"]]
      /\ TimerWithBle.CC = [timer.CC EXCEPT ![0] = b]
  BY <1>2 DEF TimerWithBle, timer_add
<1>4. /\ timer'.current_slot = 2
      /\ timer'.slots = [TimerWithBle.slots EXCEPT ![1] =
           [interval |-> AesInterval, cb |-> "aes_callback_chain"]]
      /\ timer'.CC = [TimerWithBle.CC EXCEPT ![1] = a]
  BY <1>3 DEF whenClockInited, timer_add
<1> HIDE DEF a, b
<1>5. ble_timer_slot' = 0 /\ aes_timer_slot' = 1
  BY <1>2, <1>3 DEF whenClockInited, timer_add_slot
<1>6. /\ timer'.slots[0] =
           [interval |-> BleInterval, cb |-> "ble_callback_chain"]
      /\ timer'.slots[1] =
           [interval |-> AesInterval, cb |-> "aes_callback_chain"]
      /\ timer'.CC[0] = b /\ timer'.CC[1] = a
  BY <1>2, <1>3, <1>4 DEF Timers, Slots
<1>7. SlotsInv'
  BY <1>4, <1>5, <1>6 DEF SlotsInv
<1>8. ASSUME NEW s, NEW k \in 1..(CounterMod - 1), timer'.CC[s] = k
      PROVE  Ahead(s)' = k /\ Ahead(s)' \in 1..k
  <2>1. (k - 0) % CounterMod = k
    <3>1. k - 0 = k /\ k \in 0..(CounterMod - 1)
      OBVIOUS
    <3> QED BY <3>1, Intervals, RestBelow
  <2> QED BY <1>2, <1>8, <2>1 DEF Ahead
<1>9. BleArmed' /\ AesArmed'
  BY <1>1, <1>6, <1>8, Intervals DEF BleArmed, AesArmed, Armed
<1>10. Ahead(1)' = AesInterval * RTC_FREQUENCY
  BY <1>1, <1>6, <1>8, Intervals
<1> QED BY <1>2, <1>7, <1>9, <1>10 DEF ArmedInv

(* It runs while they are not registered; other events register nothing.      *)
LEMMA ArmedClock ==
  ASSUME TypeOK, CallbackInv, ArmedInv, POWER_CLOCK_IRQHandler
  PROVE  ArmedInv'
<1>1. UNCHANGED <<hfclk, onECBDoneCB, aes_timerEventDoneCB>>
  BY DEF POWER_CLOCK_IRQHandler, aesVars
<1>2. CASE onInitCB = "whenClockInited" /\ whenClockInited
  <2>1. rtc = "off"
    BY <1>2 DEF CallbackInv, BootInv, NULL
  <2> QED BY <1>1, <1>2, <2>1, ArmedStart DEF ArmedInv
<1>3. CASE UNCHANGED <<timerVars, ble_timer_slot, aes_timer_slot>>
  BY <1>1, <1>3, ArmedFrame
<1> QED BY <1>2, <1>3 DEF POWER_CLOCK_IRQHandler, LfclkStarted

(* A slot that has fired has its job started, and this will re-arm it.        *)
LEMMA ArmedTimer ==
  ASSUME TypeOK, CallbackInv, ArmedInv, RTC1_IRQHandler
  PROVE  ArmedInv'
<1>1. /\ rtc' = rtc /\ COUNTER' = COUNTER /\ timer' = timer
      /\ EVENTS_COMPARE' = {}
      /\ ble_timer_slot' = ble_timer_slot /\ aes_timer_slot' = aes_timer_slot
  BY DEF RTC1_IRQHandler, RTC1_acknowledge, aes_callback_chain, aesChainVars
<1>2. CASE rtc = "off"
  <2>1. FiredCallbacks = {}
    BY <1>2 DEF CallbackInv, BootInv, FiredCallbacks
  <2>2. hfclk' = hfclk /\ aes_timerEventDoneCB' = aes_timerEventDoneCB
    BY <2>1 DEF RTC1_IRQHandler, clockVars, hfVars, aesChainVars
  <2> QED BY <1>1, <1>2, <2>2 DEF ArmedInv, IdleInv
<1>3. CASE rtc = "running"
  <2>1. SlotsInv /\ BleArmed /\ AesArmed
    BY <1>3 DEF ArmedInv
  <2>2. SlotsInv'
    BY <1>1, <2>1 DEF SlotsInv
  <2>3. ASSUME NEW s \in 0..1, NEW i, s \notin EVENTS_COMPARE, Armed(s, i)
        PROVE  Armed(s, i)'
    BY <1>1, <2>3 DEF Armed, Ahead
  <2>4. BleArmed'
    <3>1. CASE 0 \in EVENTS_COMPARE
      <4>1. "ble_callback_chain" \in FiredCallbacks
        BY <2>1, <3>1 DEF FiredCallbacks, SlotsInv, NULL
      <4>2. hfclk' = "starting"
        BY <4>1 DEF RTC1_IRQHandler, ble_callback_chain, clock_start_hf
      <4> QED BY <4>2 DEF BleArmed
    <3>2. CASE 0 \notin EVENTS_COMPARE
      <4>1. hfclk' = "off" => hfclk = "off"
        BY DEF RTC1_IRQHandler, ble_callback_chain, clock_start_hf, clockVars,
               hfVars
      <4> QED BY <2>1, <2>3, <3>2, <4>1 DEF BleArmed
    <3> QED BY <3>1, <3>2
  <2>5. AesArmed'
    <3>1. CASE 1 \in EVENTS_COMPARE
      <4>1. "aes_callback_chain" \in FiredCallbacks
        BY <2>1, <3>1 DEF FiredCallbacks, SlotsInv, NULL
      <4>2. AesRearms'
        BY <4>1 DEF RTC1_IRQHandler, aes_callback_chain, aes_encrypt, AesRearms,
                    NULL
      <4> QED BY <4>2 DEF AesArmed
    <3>2. CASE 1 \notin EVENTS_COMPARE
      <4>1. AesRearms => AesRearms'
        BY DEF RTC1_IRQHandler, aes_callback_chain, aes_encrypt, aesVars,
               aesChainVars, AesRearms, NULL
      <4> QED BY <2>1, <2>3, <3>2, <4>1 DEF AesArmed
    <3> QED BY <3>1, <3>2
  <2> QED BY <1>1, <1>3, <2>2, <2>4, <2>5 DEF ArmedInv
<1> QED BY <1>2, <1>3 DEF TypeOK, TimerTypeOK

(* The end of a round arms the BLE slot.                                      *)
LEMMA ArmedRadio ==
  ASSUME TypeOK, CallbackInv, ArmedInv, RADIO_IRQHandler
  PROVE  ArmedInv'
<1>1. UNCHANGED <<rtcVars, ble_timer_slot, aes_timer_slot, onECBDoneCB,
                  aes_timerEventDoneCB>>
  BY DEF RADIO_IRQHandler, aesVars, bleChainVars, aesChainVars
<1>2. CASE UNCHANGED <<clockVars, timer>>
  BY <1>1, <1>2, ArmedFrame DEF clockVars, hfVars, timerVars
<1>3. CASE finished_ble_data
  <2>1. hfclk # "off" /\ EVENTS_DISABLED
    BY <1>3 DEF RADIO_IRQHandler, CallbackInv, RoundInv, BleOutstanding
  <2>2. rtc = "running" /\ rtc' = "running"
    BY <1>1, <2>1 DEF ArmedInv, IdleInv, TypeOK, TimerTypeOK, rtcVars
  <2>3. SlotsInv /\ AesArmed
    BY <2>2 DEF ArmedInv
  <2>4. timer_reschedule(0) /\ UNCHANGED <<COUNTER, EVENTS_COMPARE>>
    BY <1>1, <1>3, <2>3
    DEF finished_ble_data, reschedule_ble_data, SlotsInv, rtcVars
  <2>5. /\ timer'.slots = timer.slots
        /\ timer'.current_slot = timer.current_slot
        /\ Ahead(0)' \in 1..(timer.slots[0].interval * RTC_FREQUENCY)
        /\ Ahead(1)' = Ahead(1)
    BY <2>3, <2>4, RescheduleArms
  <2>6. SlotsInv'
    BY <1>1, <2>3, <2>5 DEF SlotsInv
  <2>7. BleArmed'
    BY <2>3, <2>5 DEF BleArmed, Armed, SlotsInv
  <2>8. AesArmed'
    BY <1>1, <2>3, <2>4, <2>5 DEF AesArmed, AesRearms, Armed
  <2> QED BY <2>2, <2>6, <2>7, <2>8 DEF ArmedInv
<1> QED BY <1>2, <1>3 DEF RADIO_IRQHandler, SendNext

(* The first encryption is not to re-arm the slot, which is armed.            *)
LEMMA ArmedRandom ==
  ASSUME TypeOK, CallbackInv, ArmedInv, RNG_IRQHandler \/ RNG_IRQHandler_end
  PROVE  ArmedInv'
<1>1. UNCHANGED <<timerVars, ble_timer_slot, hfclk>>
  BY DEF RNG_IRQHandler, RNG_IRQHandler_end, clockVars, hfVars, bleChainVars
<1>2. CASE UNCHANGED <<aesVars, aesChainVars>>
  BY <1>1, <1>2, ArmedFrame DEF aesVars, aesChainVars
<1>3. CASE onFirstDataCB # NULL /\ aes_callback_chain(NULL)
  <2>1. onECBDoneCB = NULL
    BY <1>3 DEF CallbackInv, BootInv
  <2>2. aes_timer_slot' = aes_timer_slot /\ aes_timerEventDoneCB' = NULL
    BY <1>3 DEF aes_callback_chain
  <2>3. /\ rtc' = rtc /\ COUNTER' = COUNTER /\ timer' = timer
        /\ EVENTS_COMPARE' = EVENTS_COMPARE
    BY <1>1 DEF timerVars, rtcVars
  <2>4. ASSUME NEW s, NEW i PROVE Armed(s, i)' <=> Armed(s, i)
    BY <2>3 DEF Armed, Ahead
  <2>5. IdleInv => IdleInv'
    BY <1>1, <2>2, <2>3 DEF IdleInv
  <2>6. SlotsInv => SlotsInv'
    BY <1>1, <2>2, <2>3 DEF SlotsInv
  <2>7. BleArmed => BleArmed'
    BY <1>1, <2>4 DEF BleArmed
  <2>8. AesArmed => AesArmed'
    BY <2>1, <2>4 DEF AesArmed, AesRearms
  <2> QED BY <2>3, <2>5, <2>6, <2>7, <2>8 DEF ArmedInv
<1> QED BY <1>2, <1>3
        DEF RNG_IRQHandler, RNG_IRQHandler_end, RNG_complete, NULL

(* The end of every other one is.                                             *)
LEMMA ArmedEncryption ==
  ASSUME TypeOK, CallbackInv, ArmedInv, ECB_IRQHandler \/ ECB_IRQHandler_end
  PROVE  ArmedInv'
<1>1. CASE ECB_IRQHandler
  BY <1>1, ArmedFrame DEF ECB_IRQHandler, clockVars, hfVars, bleChainVars
<1>2. CASE ECB_IRQHandler_end
  <2>1. /\ UNCHANGED <<rtcVars, ble_timer_slot, aes_timer_slot, hfclk,
                       aes_timerEventDoneCB>>
        /\ PublishEncrypted /\ onECBDoneCB' = NULL /\ onECBDoneCB # NULL
    BY <1>2 DEF ECB_IRQHandler_end, clockVars, hfVars, bleChainVars,
       aesChainVars, CallbackInv, PayloadInv
  <2>2. /\ rtc' = rtc /\ COUNTER' = COUNTER
        /\ EVENTS_COMPARE' = EVENTS_COMPARE
    BY <2>1 DEF rtcVars
  <2>3. CASE aes_timerEventDoneCB = NULL
    <3>1. timer' = timer
      BY <2>1, <2>3 DEF PublishEncrypted
    <3>2. ASSUME NEW s, NEW i PROVE Armed(s, i)' <=> Armed(s, i)
      BY <2>2, <3>1 DEF Armed, Ahead
    <3>3. /\ IdleInv => IdleInv'
          /\ SlotsInv => SlotsInv'
      BY <2>1, <2>2, <3>1 DEF IdleInv, SlotsInv
    <3>4. BleArmed => BleArmed'
      BY <2>1, <3>2 DEF BleArmed
    <3>5. AesArmed => AesArmed'
      BY <2>3, <3>2 DEF AesArmed, AesRearms
    <3> QED BY <2>2, <3>3, <3>4, <3>5 DEF ArmedInv
  <2>4. CASE aes_timerEventDoneCB # NULL
    <3>1. rtc = "running" /\ SlotsInv /\ BleArmed
      BY <2>4 DEF ArmedInv, IdleInv, TypeOK, TimerTypeOK
    <3>2. timer_reschedule(1) /\ UNCHANGED <<COUNTER, EVENTS_COMPARE>>
      BY <2>1, <2>2, <2>4, <3>1 DEF PublishEncrypted, SlotsInv
    <3>3. /\ timer'.slots = timer.slots
          /\ timer'.current_slot = timer.current_slot
          /\ Ahead(1)' \in 1..(timer.slots[1].interval * RTC_FREQUENCY)
          /\ Ahead(0)' = Ahead(0)
      BY <3>1, <3>2, RescheduleArms
    <3>4. SlotsInv'
      BY <2>1, <3>1, <3>3 DEF SlotsInv
    <3>5. AesArmed'
      BY <3>1, <3>3 DEF AesArmed, Armed, SlotsInv
    <3>6. BleArmed'
      BY <2>1, <3>1, <3>2, <3>3 DEF BleArmed, Armed
    <3> QED BY <2>2, <3>1, <3>4, <3>5, <3>6 DEF ArmedInv
  <2> QED BY <2>3, <2>4
<1> QED BY <1>1, <1>2

(* Every step keeps it.                                                       *)
LEMMA ArmedStep ==
  TypeOK /\ CallbackInv /\ ArmedInv /\ [Next]_vars => ArmedInv'
<1> SUFFICES ASSUME TypeOK, CallbackInv, ArmedInv, [Next]_vars
             PROVE  ArmedInv'
  OBVIOUS
<1>1. CASE UNCHANGED vars
  BY <1>1, ArmedFrame
  DEF vars, clockVars, hfVars, bleChainVars, aesChainVars, aesVars
<1> QED
  BY <1>1, ArmedMain, ArmedHardware, ArmedTick, ArmedClock, ArmedTimer,
     ArmedRadio, ArmedRandom, ArmedEncryption DEF Next, Handlers

(* So it always holds.                                                        *)
THEOREM ArmedInvariant == Spec => []ArmedInv
<1>1. Init => ArmedInv
  BY DEF Init, TimerInit, ClockInit, ArmedInv, IdleInv
<1> QED BY <1>1, ArmedStep, TypeCorrect, CallbackInvariant, PTL DEF Spec

(* No slot is ever left behind the counter: a registered slot that waits      *)
(* fires within its interval, also the payload's before and during the first  *)
(* encryption, which does not re-arm it (timer_add, timer_reschedule).        *)
THEOREM SlotsAreArmedAhead == Spec => []ArmedAhead
<1>1. CallbackInv /\ ArmedInv => ArmedAhead
  <2> SUFFICES ASSUME CallbackInv, ArmedInv, rtc = "running" PROVE ArmedAhead
    BY DEF ArmedAhead
  <2>1. SlotsInv /\ BleArmed /\ AesArmed
    BY DEF ArmedInv
  <2>2. ~BleOutstanding => hfclk = "off"
    BY DEF CallbackInv, RoundInv
  <2>3. ~EncryptionOutstanding => ~AesRearms
    BY DEF EncryptionOutstanding, AesRearms
  <2> QED BY <2>1, <2>2, <2>3
          DEF ArmedAhead, SlotsInv, BleArmed, AesArmed, Armed
<1> QED BY <1>1, ArmedInvariant, CallbackInvariant, PTL

------------------------------------------------------------------------------
(* The bytes of the IVs.                                                      *)

(* The generator stops with the last byte and not before; while it runs and   *)
(* its handler is not inside there is room for a byte.                        *)
BytesInv ==
  /\ index <= IvBytes
  /\ isr = "RNG" => ~EVENTS_VALRDY /\ rng = "running"
  /\ EVENTS_VALRDY => rng = "running"
  /\ rng = "running" /\ isr # "RNG" => index < IvBytes
  /\ mainpc \in BeforeRandom => index = 0
  /\ mainpc \notin BeforeRandom /\ rng = "stopped" => index = IvBytes

(* Every step keeps it: no byte gets ready while the handler is inside.       *)
LEMMA BytesStep ==
  ASSUME ~RngOverrun, TypeOK, CallbackInv, BytesInv, [Next]_vars
  PROVE  BytesInv'
<1> USE RandomAssumption DEF BytesInv
<1>1. CASE UNCHANGED <<randomVars, isr>>
           /\ (mainpc' \in BeforeRandom <=> mainpc \in BeforeRandom)
  BY <1>1 DEF randomVars
<1>2. CASE Main
  <2> USE DEF MainStep, BeforeRandom
  <2>1. CASE MainInitRandom
    BY <2>1 DEF MainInitRandom, random_init, CallbackInv, BootInv
  <2>2. CASE MainInitClock \/ MainPollReturns
    BY <1>1, <2>2 DEF MainInitClock, MainPollReturns
  <2>3. CASE MainPollExhausted \/ MainFallback
    BY <1>1, <2>3 DEF MainPollExhausted, MainFallback
  <2>4. CASE MainInitAes \/ MainInitPdu \/ MainSetLength
    BY <1>1, <2>4 DEF MainInitAes, MainInitPdu, MainSetLength
  <2>5. CASE MainCopyBeaconIv \/ MainCopyBeaconEnc
    BY <1>1, <2>5 DEF MainCopyBeaconIv, MainCopyBeaconEnc
  <2> QED BY <1>2, <2>1, <2>2, <2>3, <2>4, <2>5 DEF Main
<1>3. CASE POWER_CLOCK_IRQHandler \/ RADIO_IRQHandler
  BY <1>1, <1>3 DEF POWER_CLOCK_IRQHandler, RADIO_IRQHandler, cpuVars
<1>4. CASE RTC1_IRQHandler
  <2>1. CASE "aes_callback_chain" \in FiredCallbacks
    <3>1. /\ mainpc = "idle" /\ isr = "none"
          /\ mainpc' = mainpc /\ isr' = isr
          /\ index' = 0 /\ rng' = "running"
      BY <1>4, <2>1, FiredJobsFit
      DEF RTC1_IRQHandler, aes_callback_chain, random_get, cpuVars,
          CallbackInv, BootIsOver
    <3> QED BY <3>1 DEF BeforeRandom
  <2>2. CASE "aes_callback_chain" \notin FiredCallbacks
    BY <1>1, <1>4, <2>2 DEF RTC1_IRQHandler, cpuVars
  <2> QED BY <2>1, <2>2
<1>5. CASE RNG_IRQHandler
  BY <1>5 DEF RNG_IRQHandler, RNG_store, TypeOK, RandomTypeOK, CallbackInv,
     BootInv
<1>6. CASE RNG_IRQHandler_end
  <2>1. mainpc \notin BeforeRandom /\ mainpc' = mainpc /\ isr' = "none"
    BY <1>6 DEF RNG_IRQHandler_end, CallbackInv, BootInv
  <2> QED BY <1>6, <2>1
          DEF RNG_IRQHandler_end, RNG_complete, aes_callback_chain, random_get,
              randomVars, TypeOK, RandomTypeOK
<1>7. CASE ECB_IRQHandler \/ ECB_IRQHandler_end
  BY <1>7 DEF ECB_IRQHandler, ECB_IRQHandler_end, randomVars
<1>8. CASE HwRandomByte
  BY <1>8 DEF HwRandomByte, ByteReady, cpuVars
<1>9. CASE HwTick \/ HwLfclk \/ HwHfclk \/ HwEncrypted
  BY <1>9 DEF HwTick, RngTicks, HwLfclk, HwHfclk, HwEncrypted, cpuVars, randomVars
<1>10. CASE HwRadioReadsIv \/ HwRadioEnds \/ UNCHANGED vars
  BY <1>1, <1>10 DEF HwRadioReadsIv, HwRadioEnds, vars, cpuVars
<1> QED
  BY <1>2, <1>3, <1>4, <1>5, <1>6, <1>7, <1>8, <1>9, <1>10
  DEF Next, Handlers, Hardware

(* The invariant, on a chip that never has two bytes ready for one handler.   *)
LEMMA BytesInvariant ==
  ASSUME ~RngOverrun
  PROVE  Spec => []BytesInv
<1>1. Init => BytesInv
  BY RandomAssumption DEF Init, RandomInit, BytesInv, BeforeRandom
<1>2. TypeOK /\ CallbackInv /\ BytesInv /\ [Next]_vars => BytesInv'
  BY BytesStep
<1> QED BY <1>1, <1>2, TypeCorrect, CallbackInvariant, PTL DEF Spec

(* Eight bytes are kept, of however many there is room for (random.c).        *)
THEOREM BytesInBounds ==
  ASSUME ~RngOverrun
  PROVE  Spec => []IndexInBounds
<1>1. BytesInv => IndexInBounds
  BY DEF BytesInv, IndexInBounds
<1> QED BY <1>1, BytesInvariant, PTL

------------------------------------------------------------------------------
(* The race between the generator and the payload slot.                       *)

(* Until the boot is over the slot lies a whole interval ahead, and no        *)
(* encryption will re-arm it.                                                 *)
BootWaits ==
  ~BootIsOver =>
    /\ aes_timerEventDoneCB = NULL
    /\ rtc = "running" => Ahead(1) = AesInterval * RTC_FREQUENCY

(* While the bytes of the next IV are collected the slot has not fired, and   *)
(* it lies further ahead than collecting may yet take.                        *)
CollectsInTime ==
  rtc = "running" /\ rng = "running" /\ onFirstDataCB = NULL =>
    /\ 1 \notin EVENTS_COMPARE
    /\ ~AesRearms => CollectTicks - rngAge < Ahead(1)

FreshInv ==
  /\ EVENTS_COMPARE \subseteq {0, 1}
  /\ BootWaits
  /\ CollectsInTime

(* A step that leaves the slot and the generator alone.                       *)
LEMMA FreshFrame ==
  ASSUME FreshInv,
         UNCHANGED <<rtc, COUNTER, EVENTS_COMPARE, onECBDoneCB,
                     aes_timerEventDoneCB, rng, onFirstDataCB, rngAge>>,
         timer' = timer \/ Ahead(1)' = Ahead(1),
         BootIsOver => BootIsOver'
  PROVE  FreshInv'
<1>1. Ahead(1)' = Ahead(1)
  BY DEF Ahead
<1>2. BootWaits'
  BY <1>1 DEF FreshInv, BootWaits
<1>3. CollectsInTime'
  BY <1>1 DEF FreshInv, CollectsInTime, AesRearms
<1> QED BY <1>2, <1>3 DEF FreshInv

(* Main starts the generator for the first IV.                                *)
LEMMA FreshMain == FreshInv /\ Main => FreshInv'
<1> SUFFICES ASSUME FreshInv, Main PROVE FreshInv'
  OBVIOUS
<1>1. ~BootIsOver
  BY DEF BootIsOver, Main, MainStep, MainInitClock, MainPollReturns,
         MainPollExhausted, MainFallback, MainInitRandom, MainInitAes,
         MainInitPdu, MainCopyBeaconIv, MainCopyBeaconEnc, MainSetLength
<1> USE DEF timerVars, rtcVars, aesVars, aesChainVars, randomVars
<1>2. CASE MainInitRandom
  <2>1. /\ UNCHANGED <<rtc, COUNTER, EVENTS_COMPARE, timer,
                       aes_timerEventDoneCB>>
        /\ onFirstDataCB' # NULL
    BY <1>2 DEF MainInitRandom, random_init, NULL
  <2> QED BY <1>1, <2>1 DEF FreshInv, BootWaits, CollectsInTime, Ahead
<1>3. CASE MainInitClock \/ MainPollReturns \/ MainPollExhausted \/ MainFallback
  BY <1>1, <1>3, FreshFrame
  DEF MainInitClock, MainPollReturns, MainPollExhausted, MainFallback
<1>4. CASE MainInitAes \/ MainInitPdu \/ MainSetLength
  BY <1>1, <1>4, FreshFrame
  DEF MainInitAes, aes_init, MainInitPdu, MainSetLength
<1>5. CASE MainCopyBeaconIv \/ MainCopyBeaconEnc
  BY <1>1, <1>5, FreshFrame DEF MainCopyBeaconIv, MainCopyBeaconEnc
<1> QED BY <1>2, <1>3, <1>4, <1>5 DEF Main

(* A tick takes one from what collecting may yet take and one from the way    *)
(* the slot lies ahead.                                                       *)
LEMMA FreshTick ==
  ASSUME TypeOK, ArmedInv, FreshInv, HwTick
  PROVE  FreshInv'
<1>1. /\ rtc = "running" /\ rtc' = "running" /\ timer' = timer
      /\ EVENTS_COMPARE = {} /\ EVENTS_COMPARE' = CompareHits
      /\ COUNTER' = (COUNTER + 1) % CounterMod
      /\ BootIsOver'
  BY DEF HwTick, HandlerFits, RtcTicks, RngTicks, NextCount, BootIsOver
<1>2. UNCHANGED <<onECBDoneCB, aes_timerEventDoneCB, rng, onFirstDataCB>>
  BY DEF HwTick, RngTicks, aesVars, aesChainVars
<1>3. SlotsInv
  BY <1>1 DEF ArmedInv
<1>4. CompareHits \subseteq {0, 1}
  BY <1>3 DEF CompareHits, SlotsInv, Slots
<1>5. CollectsInTime'
  <2> SUFFICES ASSUME rng = "running", onFirstDataCB = NULL
               PROVE  /\ 1 \notin CompareHits
                      /\ ~AesRearms => CollectTicks - rngAge' < Ahead(1)'
    BY <1>1, <1>2 DEF CollectsInTime, AesRearms
  <2>1. /\ rngAge < CollectTicks /\ rngAge' = rngAge + 1
        /\ rngAge \in Int /\ CollectTicks \in Int
    BY RandomAssumption DEF HwTick, RngTicks, TypeOK, RandomTypeOK
  <2>2. CASE AesRearms
    <3>1. EncryptionOutstanding
      BY <2>2 DEF AesRearms, EncryptionOutstanding
    <3>2. 1 \in CompareHits => JobFits("aes_callback_chain")
      BY <1>3 DEF HwTick, SlotsInv
    <3> QED BY <2>2, <3>1, <3>2 DEF JobFits
  <2>3. CASE ~AesRearms
    <3> DEFINE ahead == (timer.CC[1] - COUNTER) % CounterMod
    <3>1. CollectTicks - rngAge < ahead
      BY <1>1, <2>3 DEF FreshInv, CollectsInTime, Ahead
    <3>2. timer.CC[1] \in 0..(CounterMod - 1)
      BY Intervals DEF Slots
    <3>3. COUNTER \in 0..(CounterMod - 1) /\ CounterMod \in Nat \ {0}
      BY Intervals
    <3>4. timer.CC[1] - COUNTER \in Int
      BY <3>2, <3>3
    <3>5. ahead \in 0..(CounterMod - 1)
      BY <3>3, <3>4, ModuloRange
    <3>6. ahead >= 2
      <4> HIDE DEF ahead
      <4> QED BY <2>1, <3>1, <3>3, <3>5
    <3>7. /\ timer.CC[1] # (COUNTER + 1) % CounterMod
          /\ (timer.CC[1] - ((COUNTER + 1) % CounterMod)) % CounterMod
               = ahead - 1
      BY <3>2, <3>3, <3>6, TickOneNearer
    <3>8. 1 \notin CompareHits
      BY <3>7 DEF CompareHits, NextCount
    <3>9. Ahead(1)' = ahead - 1
      BY <1>1, <3>7 DEF Ahead
    <3> HIDE DEF ahead
    <3>10. CollectTicks - rngAge' < Ahead(1)'
      BY <2>1, <3>1, <3>3, <3>5, <3>9
    <3> QED BY <3>8, <3>10
  <2> QED BY <2>2, <2>3
<1> QED BY <1>1, <1>4, <1>5 DEF FreshInv, BootWaits

(* The init callback puts the slot an interval ahead, which is more than      *)
(* collecting takes.                                                          *)
LEMMA FreshClock ==
  ASSUME TypeOK, CallbackInv, ArmedInv, FreshInv, POWER_CLOCK_IRQHandler
  PROVE  FreshInv'
<1>1. UNCHANGED <<hfclk, onECBDoneCB, aes_timerEventDoneCB, mainpc, rng,
                  onFirstDataCB, rngAge>>
  BY DEF POWER_CLOCK_IRQHandler, aesVars, cpuVars, randomVars
<1>2. BootIsOver' <=> BootIsOver
  BY <1>1 DEF BootIsOver
<1>3. CASE onInitCB = "whenClockInited" /\ whenClockInited
  <2>1. rtc = "off" /\ EVENTS_COMPARE = {} /\ EVENTS_COMPARE' = {}
    BY <1>3 DEF CallbackInv, BootInv, whenClockInited, NULL
  <2>2. IdleInv
    BY <2>1 DEF ArmedInv
  <2>3. Ahead(1)' = AesInterval * RTC_FREQUENCY
    BY <1>1, <1>3, <2>2, ArmedStart
  <2>4. CollectTicks - rngAge' < Ahead(1)'
    <3>1. rngAge \in Nat /\ CollectTicks \in Nat
      BY RandomAssumption DEF TypeOK, RandomTypeOK
    <3>2. AesInterval * RTC_FREQUENCY \in Nat
      BY Intervals
    <3>3. CollectTicks < AesInterval * RTC_FREQUENCY
      BY IntervalsFit
    <3> DEFINE interval == AesInterval * RTC_FREQUENCY
    <3> HIDE DEF interval
    <3>4. CollectTicks - rngAge < interval
      BY <3>1, <3>2, <3>3 DEF interval
    <3> QED BY <1>1, <2>3, <3>4 DEF interval
  <2> QED BY <1>1, <2>1, <2>2, <2>3, <2>4
          DEF FreshInv, BootWaits, CollectsInTime, IdleInv
<1>4. CASE UNCHANGED <<timerVars, ble_timer_slot, aes_timer_slot>>
  BY <1>1, <1>2, <1>4, FreshFrame DEF timerVars, rtcVars
<1> QED BY <1>3, <1>4 DEF POWER_CLOCK_IRQHandler, LfclkStarted

(* A fired slot starts an encryption, which will re-arm it.                   *)
LEMMA FreshTimer ==
  ASSUME TypeOK, CallbackInv, FreshInv, RTC1_IRQHandler
  PROVE  FreshInv'
<1>1. UNCHANGED <<rtc, COUNTER, timer, mainpc>> /\ EVENTS_COMPARE' = {}
  BY DEF RTC1_IRQHandler, RTC1_acknowledge, cpuVars
<1>2. CASE "aes_callback_chain" \in FiredCallbacks
  <2>1. BootIsOver
    BY <1>2, FiredJobsFit DEF CallbackInv
  <2>2. BootIsOver'
    BY <1>1, <1>2, <2>1 DEF RTC1_IRQHandler, BootIsOver
  <2>3. AesRearms'
    BY <1>2 DEF RTC1_IRQHandler, aes_callback_chain, aes_encrypt, AesRearms,
                NULL
  <2> QED BY <1>1, <2>2, <2>3 DEF FreshInv, BootWaits, CollectsInTime
<1>3. CASE "aes_callback_chain" \notin FiredCallbacks
  <2>1. UNCHANGED <<aesVars, aesChainVars, randomVars>>
    BY <1>3 DEF RTC1_IRQHandler
  <2> QED BY <1>1, <2>1
          DEF FreshInv, BootWaits, CollectsInTime, AesRearms, Ahead, BootIsOver,
              aesVars, aesChainVars, randomVars
<1> QED BY <1>2, <1>3

(* The end of a round arms the other slot.                                    *)
LEMMA FreshRadio ==
  ASSUME TypeOK, CallbackInv, ArmedInv, FreshInv, RADIO_IRQHandler
  PROVE  FreshInv'
<1>1. UNCHANGED <<rtc, COUNTER, EVENTS_COMPARE, onECBDoneCB,
                  aes_timerEventDoneCB, rng, onFirstDataCB, rngAge, mainpc>>
  BY DEF RADIO_IRQHandler, aesVars, aesChainVars, randomVars, rtcVars, cpuVars
<1>2. CASE UNCHANGED timer
  BY <1>1, <1>2, FreshFrame DEF BootIsOver
<1>3. CASE finished_ble_data
  <2>1. hfclk # "off"
    BY <1>3 DEF RADIO_IRQHandler, CallbackInv, RoundInv, BleOutstanding
  <2>2. SlotsInv
    BY <2>1 DEF ArmedInv, IdleInv, TypeOK, TimerTypeOK
  <2>3. timer_reschedule(0)
    BY <1>3, <2>2 DEF finished_ble_data, reschedule_ble_data, SlotsInv
  <2>4. Ahead(1)' = Ahead(1)
    BY <1>1, <2>2, <2>3, RescheduleArms
  <2> QED BY <1>1, <2>4, FreshFrame DEF BootIsOver
<1> QED BY <1>2, <1>3 DEF RADIO_IRQHandler, SendNext

(* The first IV is drawn while the slot still lies a whole interval ahead;    *)
(* later on the generator is stopped.                                         *)
LEMMA FreshRandom ==
  ASSUME TypeOK, CallbackInv, ArmedInv, FreshInv,
         RNG_IRQHandler \/ RNG_IRQHandler_end
  PROVE  FreshInv'
<1>1. UNCHANGED <<rtc, COUNTER, EVENTS_COMPARE, timer, mainpc>>
  BY DEF RNG_IRQHandler, RNG_IRQHandler_end, timerVars, rtcVars
<1>2. CASE UNCHANGED <<rng, onFirstDataCB, rngAge, aesVars, aesChainVars>>
  BY <1>1, <1>2, FreshFrame DEF aesVars, aesChainVars, BootIsOver
<1>3. CASE /\ rng' = "stopped"
           /\ UNCHANGED <<onFirstDataCB, aesVars, aesChainVars>>
  BY <1>1, <1>3
  DEF FreshInv, BootWaits, CollectsInTime, Ahead, BootIsOver, aesChainVars
<1>4. CASE onFirstDataCB # NULL /\ aes_callback_chain(NULL)
  <2>1. ~BootIsOver
    BY <1>4 DEF BootIsOver
  <2>2. EVENTS_COMPARE = {}
    BY <2>1 DEF CallbackInv, CompareInv
  <2>3. aes_timerEventDoneCB' = NULL /\ rngAge' = 0
    BY <1>4 DEF aes_callback_chain, random_get
  <2>4. Ahead(1)' = Ahead(1)
    BY <1>1 DEF Ahead
  <2>5. BootWaits'
    BY <1>1, <2>1, <2>3, <2>4 DEF FreshInv, BootWaits
  <2>6. CollectsInTime'
    <3> SUFFICES ASSUME rtc = "running" PROVE CollectTicks - 0 < Ahead(1)
      BY <1>1, <2>2, <2>3, <2>4 DEF CollectsInTime
    <3>1. Ahead(1) = AesInterval * RTC_FREQUENCY
      BY <2>1 DEF FreshInv, BootWaits
    <3>2. CollectTicks < Ahead(1)
      BY <3>1, IntervalsFit
    <3>3. CollectTicks - 0 = CollectTicks
      BY RandomAssumption
    <3> QED BY <3>2, <3>3
  <2> QED BY <1>1, <2>2, <2>5, <2>6 DEF FreshInv
<1> QED BY <1>2, <1>3, <1>4
        DEF RNG_IRQHandler, RNG_store, RNG_IRQHandler_end, RNG_complete,
            randomVars, NULL

(* The slot is re-armed a whole interval ahead.                               *)
LEMMA FreshEncryption ==
  ASSUME TypeOK, CallbackInv, ArmedInv, FreshInv,
         ECB_IRQHandler \/ ECB_IRQHandler_end
  PROVE  FreshInv'
<1>1. UNCHANGED <<rtc, COUNTER, EVENTS_COMPARE, rng, onFirstDataCB, rngAge,
                  mainpc, aes_timerEventDoneCB>>
  BY DEF ECB_IRQHandler, ECB_IRQHandler_end, timerVars, rtcVars, randomVars,
         aesChainVars
<1>2. CASE ECB_IRQHandler
  BY <1>1, <1>2, FreshFrame DEF ECB_IRQHandler, timerVars, BootIsOver
<1>3. CASE ECB_IRQHandler_end
  <2>1. CASE aes_timerEventDoneCB = NULL
    <3>1. timer' = timer
      BY <1>3, <2>1 DEF ECB_IRQHandler_end, PublishEncrypted
    <3> QED BY <1>1, <2>1, <3>1
            DEF FreshInv, BootWaits, CollectsInTime, AesRearms, Ahead,
                BootIsOver
  <2>2. CASE aes_timerEventDoneCB # NULL
    <3>1. BootIsOver /\ BootIsOver'
      BY <1>1, <2>2 DEF FreshInv, BootWaits, BootIsOver
    <3>2. SlotsInv
      BY <2>2 DEF ArmedInv, IdleInv, TypeOK, TimerTypeOK
    <3>3. timer_reschedule(1)
      BY <1>3, <2>2, <3>2 DEF ECB_IRQHandler_end, PublishEncrypted, SlotsInv
    <3>4. Ahead(1)' = AesInterval * RTC_FREQUENCY
      BY <1>1, <3>2, <3>3, RescheduleArms DEF SlotsInv
    <3>5. CollectTicks - rngAge < Ahead(1)'
      <4>1. rngAge \in Nat /\ CollectTicks \in Nat
        BY RandomAssumption DEF TypeOK, RandomTypeOK
      <4>2. Ahead(1)' \in Nat
        BY <3>4, Intervals
      <4>3. CollectTicks < Ahead(1)'
        BY <3>4, IntervalsFit
      <4> QED BY <4>1, <4>2, <4>3
    <3> QED BY <1>1, <3>1, <3>5 DEF FreshInv, BootWaits, CollectsInTime
  <2> QED BY <2>1, <2>2
<1> QED BY <1>2, <1>3

(* The other peripherals have no part in the race.                            *)
LEMMA FreshHardware ==
  ASSUME FreshInv, Hardware, ~HwTick
  PROVE  FreshInv'
<1> USE DEF timerVars, rtcVars, aesVars, aesChainVars, randomVars, cpuVars,
            BootIsOver
<1>1. CASE HwLfclk \/ HwHfclk
  BY <1>1, FreshFrame DEF HwLfclk, HwHfclk
<1>2. CASE HwRandomByte \/ HwEncrypted
  BY <1>2, FreshFrame DEF HwRandomByte, ByteReady, HwEncrypted, EncryptionEnds
<1>3. CASE HwRadioReadsIv \/ HwRadioEnds
  BY <1>3, FreshFrame DEF HwRadioReadsIv, HwRadioEnds
<1> QED BY <1>1, <1>2, <1>3 DEF Hardware

(* The race always ends the same way.                                         *)
LEMMA FreshInvariant == Spec => []FreshInv
<1>1. Init => FreshInv
  BY DEF Init, TimerInit, RandomInit, FreshInv, BootWaits, CollectsInTime
<1>2. TypeOK /\ CallbackInv /\ ArmedInv /\ FreshInv /\ [Next]_vars => FreshInv'
  <2> SUFFICES ASSUME TypeOK, CallbackInv, ArmedInv, FreshInv, [Next]_vars
               PROVE  FreshInv'
    OBVIOUS
  <2>1. CASE UNCHANGED vars
    BY <2>1, FreshFrame
    DEF vars, timerVars, rtcVars, aesVars, aesChainVars, randomVars, cpuVars,
        BootIsOver
  <2> QED
    BY <2>1, FreshMain, FreshTick, FreshClock, FreshTimer, FreshRadio,
       FreshRandom, FreshEncryption, FreshHardware DEF Next, Handlers
<1> QED
  BY <1>1, <1>2, TypeCorrect, CallbackInvariant, ArmedInvariant, PTL DEF Spec

(* An IV is drawn only when all its bytes are new, although the slot is armed *)
(* before they are collected and aes_callback_chain does not look: it never   *)
(* comes round while the generator runs, whose bytes take less than an        *)
(* interval (on_aes_encrypted, timer_reschedule, RNG_IRQHandler).             *)
THEOREM IvsAreFresh ==
  ASSUME ~RngOverrun
  PROVE  Spec => IvFresh
<1>1. TypeOK /\ CallbackInv /\ BytesInv /\ ArmedInv /\ FreshInv /\ [Next]_vars
        => [ivBlocks' > ivBlocks => index = IvBytes]_vars
  <2> SUFFICES ASSUME TypeOK, CallbackInv, BytesInv, ArmedInv, FreshInv, Next,
                      ivBlocks' > ivBlocks
               PROVE  index = IvBytes
    OBVIOUS
  <2>1. ivBlocks' # ivBlocks
    BY DEF TypeOK, AesChainTypeOK
  <2>2. CASE RTC1_IRQHandler
    <3>1. "aes_callback_chain" \in FiredCallbacks
      BY <2>1, <2>2 DEF RTC1_IRQHandler, aesChainVars
    <3>2. mainpc = "idle" /\ onFirstDataCB = NULL
      BY <3>1, FiredJobsFit DEF BootIsOver, CallbackInv
    <3>3. PICK i \in EVENTS_COMPARE : timer.slots[i].cb = "aes_callback_chain"
      BY <3>1 DEF FiredCallbacks
    <3>4. rtc = "running"
      BY <3>3 DEF CallbackInv, BootInv, TypeOK, TimerTypeOK
    <3>5. i = 1
      BY <3>3, <3>4 DEF FreshInv, ArmedInv, SlotsInv
    <3>6. rng = "stopped"
      BY <3>2, <3>4, <3>5
      DEF FreshInv, CollectsInTime, TypeOK, RandomTypeOK
    <3> QED BY <3>2, <3>6 DEF BytesInv, BeforeRandom
  <2>3. CASE RNG_IRQHandler_end
    BY <2>1, <2>3 DEF RNG_IRQHandler_end, RNG_complete, aesChainVars
  <2>4. CASE ECB_IRQHandler
    BY <2>4 DEF ECB_IRQHandler, PublishIv, TypeOK, AesChainTypeOK
  <2>5. CASE RNG_IRQHandler \/ ECB_IRQHandler_end
    BY <2>1, <2>5 DEF RNG_IRQHandler, ECB_IRQHandler_end, aesChainVars
  <2>6. CASE MainInitAes
    BY <2>1, <2>6 DEF MainInitAes, aesChainVars
  <2> QED
    BY <2>1, <2>2, <2>3, <2>4, <2>5, <2>6, PayloadFrame
    DEF Next, Handlers, Hardware, HwEncrypted, aesChainVars
<1> QED
  BY <1>1, BytesInvariant, FreshInvariant, ArmedInvariant, TypeCorrect,
     CallbackInvariant, PTL DEF Spec, IvFresh

==============================================================================
