-------------------------------- MODULE Timer --------------------------------
(* timer.c and RTC1: a free-running counter with three compare slots, each    *)
(* owned by a callback that is handed timer_reschedule to re-arm its slot.    *)
EXTENDS Callbacks, Integers

CONSTANTS
  RTC_FREQUENCY,          \* ticks of the counter per second
  CounterMod,             \* the counter counts 0 .. CounterMod - 1
  OvfMod                  \* bound on the count of overflows kept apart

ASSUME TimerAssumption ==
  /\ RTC_FREQUENCY \in Nat \ {0}
  /\ CounterMod \in Nat \ {0}
  /\ OvfMod \in Nat \ {0}

VARIABLES
  rtc,                    \* "off" or "running"
  COUNTER,
  EVENTS_COMPARE,         \* the set of slots whose compare event is set
  EVENTS_OVRFLW,
  overflow_seconds,
  timer                   \* slots, current_slot and the CC registers

rtcVars == <<rtc, COUNTER, EVENTS_COMPARE, EVENTS_OVRFLW, overflow_seconds>>
timerVars == <<rtcVars, timer>>

Slots == 0..2             \* the slots RTC1_IRQHandler walks over
NoSlot == 15              \* timer_add's 0xF

TimerDefs == [interval : Nat, cb : TimerCallbacks \union {NULL}]
EmptySlot == [interval |-> 0, cb |-> NULL]

Timers == [slots : [Slots -> TimerDefs], current_slot : 0..3,
           CC : [Slots -> 0..(CounterMod - 1)]]

TimerTypeOK ==
  /\ rtc \in {"off", "running"}
  /\ COUNTER \in 0..(CounterMod - 1)
  /\ EVENTS_COMPARE \in SUBSET Slots
  /\ EVENTS_OVRFLW \in BOOLEAN
  /\ overflow_seconds \in 0..(OvfMod - 1)
  /\ timer \in Timers

TimerInit ==
  /\ rtc = "off"
  /\ COUNTER = 0
  /\ EVENTS_COMPARE = {}
  /\ EVENTS_OVRFLW = FALSE
  /\ overflow_seconds = 0
  /\ timer = [slots |-> [i \in Slots |-> EmptySlot], current_slot |-> 0,
              CC |-> [i \in Slots |-> 0]]

------------------------------------------------------------------------------
(* timer_add, as what it makes of the timer and what it returns.              *)
timer_add_slot(t) == IF t.current_slot = 3 THEN NoSlot ELSE t.current_slot

timer_add(t, cb, interval) ==
  IF t.current_slot = 3 THEN t
  ELSE [slots |-> [t.slots EXCEPT ![t.current_slot] =
                     [interval |-> interval, cb |-> cb]],
        CC |-> [t.CC EXCEPT ![t.current_slot] =
                  (interval * RTC_FREQUENCY) % CounterMod],
        current_slot |-> t.current_slot + 1]

(* Mutant: the compare value is the interval itself, as in timer_add.         *)
MutantAbsoluteCC(slot) ==
  timer' = [timer EXCEPT !.CC[slot] =
    (timer.slots[slot].interval * RTC_FREQUENCY) % CounterMod]

(* Mutant: the interval is taken for ticks, not for seconds.                  *)
MutantTicksNotSeconds(slot) ==
  timer' = [timer EXCEPT !.CC[slot] =
    (COUNTER + timer.slots[slot].interval) % CounterMod]

(* timer_reschedule: the slot's compare value moves one interval past now.    *)
timer_reschedule(slot) ==
  timer' = [timer EXCEPT !.CC[slot] =
    (COUNTER + timer.slots[slot].interval * RTC_FREQUENCY) % CounterMod]

------------------------------------------------------------------------------
(* RTC1: the next tick, the slots whose compare value it reaches, and the     *)
(* events it raises.                                                          *)
NextCount == (COUNTER + 1) % CounterMod

CompareHits ==
  {i \in Slots : i < timer.current_slot /\ timer.CC[i] = NextCount}

RtcTicks ==
  /\ rtc = "running"
  /\ COUNTER' = NextCount
  /\ EVENTS_COMPARE' = EVENTS_COMPARE \union CompareHits
  /\ EVENTS_OVRFLW' = (EVENTS_OVRFLW \/ NextCount = 0)
  /\ UNCHANGED <<rtc, overflow_seconds, timer>>

(* The head of RTC1_IRQHandler: both kinds of events are acknowledged and an  *)
(* overflow is counted.  The callbacks of the slots in FiredCallbacks follow. *)
RTC1_acknowledge ==
  /\ EVENTS_COMPARE # {} \/ EVENTS_OVRFLW
  /\ EVENTS_COMPARE' = {}
  /\ EVENTS_OVRFLW' = FALSE
  /\ overflow_seconds' = IF EVENTS_OVRFLW THEN (overflow_seconds + 1) % OvfMod
                         ELSE overflow_seconds
  /\ UNCHANGED <<rtc, COUNTER>>

FiredCallbacks == {timer.slots[i].cb : i \in EVENTS_COMPARE} \ {NULL}

==============================================================================
