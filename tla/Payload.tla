------------------------------- MODULE Payload -------------------------------
(* What a tag says about itself: aes_callback_chain encrypts the reboot       *)
(* counter and the seconds since boot, and a server ignores what is not newer *)
(* than what it knows.  Counter and clock are the modules RebootCounter and   *)
(* Timer; the true time and the server stand beside them.  Of the timer only  *)
(* the slot of the payload chain is here: Tag shows that the chains do not    *)
(* disturb each other.                                                        *)
EXTENDS Timer, RebootCounter

CONSTANTS
  BootMod,                \* the reboot counters the payload can hold: 2^16
  WordMod,                \* a uint32_t
  Interval,               \* of the payload chain, in seconds
  MaxTicks                \* bound on the ticks between two resets

ASSUME PayloadAssumption ==
  /\ BootMod \in Nat \ {0}
  /\ WordMod \in Nat \ {0}
  /\ OvfMod = WordMod
  /\ Interval \in Nat
  /\ Interval * RTC_FREQUENCY > RTC_FREQUENCY
  /\ Interval * RTC_FREQUENCY < CounterMod
  /\ MaxTicks \in Nat

VARIABLES
  data,                   \* the block being encrypted
  adv_pdu,                \* the block in the packet
  aes_timerEventDoneCB,
  known,                  \* the newest block the server has received
  ticks,                  \* the ticks since the RTC was started
  wrapped                 \* the counter in the payload has gone around

chainVars == <<data, adv_pdu, aes_timerEventDoneCB>>
tagVars == <<timerVars, chainVars, ticks>>
payloadVars == <<rebootVars, tagVars, known, wrapped>>

NoBlock == [boot |-> 0, time |-> -1]

PayloadInit ==
  /\ RebootInit
  /\ TimerInit
  /\ data = NoBlock /\ adv_pdu = NoBlock
  /\ aes_timerEventDoneCB = NULL
  /\ known = NoBlock
  /\ ticks = 0
  /\ wrapped = FALSE

------------------------------------------------------------------------------
(* timer_get_seconds, for what it reads: all in unsigned words.               *)
SecondsOf(count, overflows) ==
  ((count + overflows * (CounterMod - 1)) % WordMod) \div RTC_FREQUENCY

timer_get_seconds == SecondsOf(COUNTER, overflow_seconds)

(* Mutant: the time is taken before RTC1_IRQHandler has counted an overflow.  *)
MutantCompareFirst(doneCB) ==
  /\ aes_timerEventDoneCB' = doneCB
  /\ data' = [boot |-> reboot_counter_get % BootMod, time |-> timer_get_seconds]

(* aes_callback_chain; it reads the clock as its caller has left it.          *)
aes_callback_chain(doneCB) ==
  /\ aes_timerEventDoneCB' = doneCB
  /\ data' = [boot |-> reboot_counter_get % BootMod,
              time |-> SecondsOf(COUNTER, overflow_seconds')]

------------------------------------------------------------------------------
(* reboot_counter_init runs before anything else of the tag.                  *)
Boot ==
  /\ pc # "booted"
  /\ RebootNext
  /\ wrapped' = (wrapped \/ (/\ pc' = "read_only"
                             /\ reboot_counter_get' % BootMod = 0))
  /\ UNCHANGED <<tagVars, known>>

(* timer_init and aes_callback_chain_register, whenever the clock is there.   *)
timer_init ==
  /\ pc = "booted"
  /\ rtc = "off"
  /\ rtc' = "running"
  /\ timer' = timer_add(timer, "aes_callback_chain", Interval)
  /\ UNCHANGED <<COUNTER, EVENTS_COMPARE, EVENTS_OVRFLW, overflow_seconds,
                 rebootVars, chainVars, known, ticks, wrapped>>

(* aes_callback_chain_issue, once, when the first random bytes are there.     *)
aes_callback_chain_issue ==
  /\ pc = "booted"
  /\ data = NoBlock /\ adv_pdu = NoBlock
  /\ UNCHANGED <<rebootVars, timerVars, adv_pdu, known, ticks, wrapped>>
  /\ aes_callback_chain(NULL)

RTC1_IRQHandler ==
  /\ RTC1_acknowledge
  /\ IF "aes_callback_chain" \in FiredCallbacks
     THEN aes_callback_chain("timer_reschedule")
     ELSE UNCHANGED <<data, aes_timerEventDoneCB>>
  /\ UNCHANGED <<rebootVars, timer, adv_pdu, known, ticks, wrapped>>

on_aes_encrypted ==
  /\ data # NoBlock
  /\ adv_pdu' = data
  /\ data' = NoBlock
  /\ IF aes_timerEventDoneCB = "timer_reschedule" THEN timer_reschedule(0)
     ELSE UNCHANGED timer
  /\ UNCHANGED <<rebootVars, rtcVars, aes_timerEventDoneCB, known, ticks,
                 wrapped>>

(* The RTC; handlers and jobs are over in time (HandlerFits, JobFits of Tag). *)
Tick ==
  /\ EVENTS_COMPARE = {} /\ ~EVENTS_OVRFLW
  /\ CompareHits # {} => data = NoBlock /\ adv_pdu # NoBlock
  /\ ticks < MaxTicks
  /\ ticks' = ticks + 1
  /\ RtcTicks
  /\ UNCHANGED <<rebootVars, chainVars, known, wrapped>>

(* A reset of the running tag, or its battery is taken out: RAM and RTC are   *)
(* as after power-up.                                                         *)
TagResets ==
  /\ Reset
  /\ rtc' = "off" /\ COUNTER' = 0
  /\ EVENTS_COMPARE' = {} /\ EVENTS_OVRFLW' = FALSE
  /\ overflow_seconds' = 0
  /\ timer' = [timer EXCEPT !.slots[0] = EmptySlot, !.current_slot = 0,
                            !.CC[0] = 0]
  /\ data' = NoBlock /\ adv_pdu' = NoBlock
  /\ aes_timerEventDoneCB' = NULL
  /\ ticks' = 0
  /\ UNCHANGED <<known, wrapped>>

(* The server ignores a block unless both are newer: the counter, or with the *)
(* same counter the time.                                                     *)
Newer(a, b) == a.boot > b.boot \/ (a.boot = b.boot /\ a.time > b.time)

ServerHears ==
  /\ Newer(adv_pdu, known)
  /\ known' = adv_pdu
  /\ UNCHANGED <<rebootVars, tagVars, wrapped>>

PayloadNext ==
  \/ Boot \/ timer_init \/ aes_callback_chain_issue \/ RTC1_IRQHandler
  \/ on_aes_encrypted \/ Tick \/ TagResets \/ ServerHears

PayloadSpec == PayloadInit /\ [][PayloadNext]_payloadVars

------------------------------------------------------------------------------
(* "Time in seconds since last boot" (README.md): the seconds of a tag that   *)
(* has served its overflows are those since its RTC was started, as long as a *)
(* word can hold the ticks (timer_get_seconds).                               *)
TimeSinceBoot ==
  ~EVENTS_OVRFLW /\ ticks < WordMod =>
    timer_get_seconds = ticks \div RTC_FREQUENCY

(* What the code counts as the time: it loses a tick at every overflow.       *)
CountedTicks == ticks - ticks \div CounterMod

(* Every new block is newer than the one before and, unless power was cut     *)
(* between erase and write or 2^16 boots have passed, than all the server has *)
(* ever received: the tag is not ignored, after however many resets           *)
(* (aes_callback_chain).                                                      *)
BlocksGetNewer ==
  [][data' # data /\ data' # NoBlock /\ CountedTicks < WordMod =>
       /\ Newer(data', adv_pdu)
       /\ ~cut /\ ~wrapped => Newer(data', known)]_payloadVars

==============================================================================
