---------------------------- MODULE PayloadProofs ----------------------------
(* Proofs about what the payload says: the number of the boot, for a word of  *)
(* any size, and the time, for a counter and words of any width and any       *)
(* number of ticks.                                                           *)
EXTENDS Payload, TLAPS

------------------------------------------------------------------------------
(* The number of the boot (reboot_counter_init).                              *)

(* The next number of a counter that wraps at n (value and boots do).         *)
LEMMA NextModulo ==
  ASSUME NEW n \in Nat \ {0}, NEW a \in 0..(n - 1)
  PROVE  /\ (a + 1) % n \in 0..(n - 1)
         /\ (a + 1) % n = IF a + 1 = n THEN 0 ELSE a + 1
BY SMT

(* Every variable keeps its type, whenever power fails (RebootNext).          *)
THEOREM RebootTypeCorrect == RebootSpec => []RebootTypeOK
<1>1. RebootInit => RebootTypeOK
  <2>1. RebootInit => cut \in BOOLEAN
    BY Zenon DEF RebootInit
  <2> QED
    BY <2>1, RebootAssumption DEF RebootInit, RebootTypeOK, Words, InitSteps
<1>2. RebootTypeOK /\ [RebootNext]_rebootVars => RebootTypeOK'
  <2> SUFFICES ASSUME RebootTypeOK, [RebootNext]_rebootVars
               PROVE  RebootTypeOK'
    OBVIOUS
  <2> USE DEF RebootTypeOK, InitSteps, Step
  <2>1. CASE ReadOldValue
    BY <2>1, RebootAssumption DEF ReadOldValue, reboot_counter_get, Words
  <2>2. CASE EnableErase
    BY <2>2 DEF EnableErase
  <2>3. CASE StartErase
    BY <2>3 DEF StartErase
  <2>4. CASE EraseDone
    BY <2>4, RebootAssumption DEF EraseDone, Words
  <2>5. CASE EnableWrite
    <3>1. value' \in Words
      BY <2>5, NextModulo, RebootAssumption DEF EnableWrite, Words
    <3> QED
      BY <3>1, <2>5 DEF EnableWrite
  <2>6. CASE StartWrite
    BY <2>6 DEF StartWrite
  <2>7. CASE WriteDone
    <3>1. boots' \in 0..(Erased - 1)
      BY <2>7, NextModulo, RebootAssumption DEF WriteDone
    <3> QED
      BY <3>1, <2>7 DEF WriteDone
  <2>8. CASE MakeReadOnly
    BY <2>8 DEF MakeReadOnly
  <2>9. CASE Reset
    BY <2>9 DEF Reset, Restart
  <2>10. CASE PowerFails
    BY <2>10 DEF PowerFails, Restart, CutErase, CutWrite
  <2>11. CASE UNCHANGED rebootVars
    BY <2>11 DEF rebootVars
  <2> QED
    BY <2>1, <2>2, <2>3, <2>4, <2>5, <2>6, <2>7, <2>8, <2>9, <2>10, <2>11
    DEF RebootNext
<1> QED
  BY <1>1, <1>2, PTL DEF RebootSpec

------------------------------------------------------------------------------
(* What every step of the init contributes to a disciplined use of the NVMC.  *)
DisciplineInv ==
  /\ pc \in {"erase", "erasing"} => CONFIG = "Een"
  /\ pc \in {"enable_write", "write", "writing"} => CUSTOMER0 = Erased
  /\ pc \in {"write", "writing"} => CONFIG = "Wen"
  /\ pc = "booted" => CONFIG = "Ren"

(* The access that is enabled and the erased word, at every step of the init. *)
THEOREM DisciplineInvariant == RebootSpec => []DisciplineInv
<1>1. RebootInit => DisciplineInv
  BY DEF RebootInit, DisciplineInv
<1>2. DisciplineInv /\ [RebootNext]_rebootVars => DisciplineInv'
  <2> SUFFICES ASSUME DisciplineInv, [RebootNext]_rebootVars
               PROVE  DisciplineInv'
    OBVIOUS
  <2> USE DEF DisciplineInv, Step
  <2>1. CASE ReadOldValue \/ EnableErase \/ StartErase \/ EraseDone
    BY <2>1 DEF ReadOldValue, EnableErase, StartErase, EraseDone
  <2>2. CASE EnableWrite \/ StartWrite \/ WriteDone \/ MakeReadOnly
    BY <2>2 DEF EnableWrite, StartWrite, WriteDone, MakeReadOnly
  <2>3. CASE Reset \/ PowerFails
    BY <2>3 DEF Reset, PowerFails, Restart
  <2>4. CASE UNCHANGED rebootVars
    BY <2>4 DEF rebootVars
  <2> QED
    BY <2>1, <2>2, <2>3, <2>4 DEF RebootNext
<1> QED
  BY <1>1, <1>2, PTL DEF RebootSpec

(* The UICR is erased and written in the order the NVMC asks for, and a       *)
(* running tag cannot change it, also after power has failed at any step.     *)
THEOREM FlashDisciplineHolds == RebootSpec => []FlashDiscipline
<1>1. DisciplineInv => FlashDiscipline
  BY DEF DisciplineInv, FlashDiscipline
<1> QED
  BY <1>1, DisciplineInvariant, PTL

------------------------------------------------------------------------------
(* Where the number of boots is kept at every step of the init: in flash, in  *)
(* the local variable while flash is erased, and in flash again.  Nothing is  *)
(* said once power has failed in between.                                     *)
CountInv ==
  ~cut =>
    /\ pc \in {"read", "read_only", "booted"} => reboot_counter_get = boots
    /\ pc \in {"enable_erase", "erase", "erasing", "enable_write"} => value = boots
    /\ pc \in {"enable_erase", "erase"} => reboot_counter_get = boots
    /\ pc \in {"write", "writing"} => value = boots + 1

(* The count is never in two minds about where it is kept.                    *)
THEOREM CountInvariant == RebootSpec => []CountInv
<1>1. RebootInit => CountInv
  BY RebootAssumption DEF RebootInit, CountInv, reboot_counter_get
<1>2. RebootTypeOK /\ DisciplineInv /\ CountInv /\ [RebootNext]_rebootVars
        => CountInv'
  <2> SUFFICES ASSUME RebootTypeOK, DisciplineInv, CountInv,
                      [RebootNext]_rebootVars
               PROVE  CountInv'
    OBVIOUS
  <2> USE RebootAssumption DEF CountInv, Step, RebootTypeOK
  <2>1. CASE ReadOldValue \/ EnableErase \/ StartErase \/ EraseDone
    BY <2>1 DEF ReadOldValue, EnableErase, StartErase, EraseDone,
                reboot_counter_get
  <2>2. CASE EnableWrite
    <3>1. value \in 0..((Erased + 1) - 1) /\ Erased + 1 \in Nat \ {0}
      BY DEF Words
    <3>2. (value + 1) % (Erased + 1)
            = IF value + 1 = Erased + 1 THEN 0 ELSE value + 1
      BY <3>1, NextModulo
    <3>3. ~cut => value' = boots + 1
      BY <2>2, <3>2 DEF EnableWrite
    <3> QED
      BY <3>3, <2>2 DEF EnableWrite
  <2>3. CASE StartWrite
    BY <2>3 DEF StartWrite
  <2>4. CASE WriteDone
    <3>1. boots' = IF boots + 1 = Erased THEN 0 ELSE boots + 1
      BY <2>4, NextModulo DEF WriteDone
    <3>2. ~cut => CUSTOMER0' = boots + 1
      BY <2>4 DEF WriteDone, DisciplineInv
    <3> QED
      BY <3>1, <3>2, <2>4 DEF WriteDone, reboot_counter_get
  <2>5. CASE MakeReadOnly
    BY <2>5 DEF MakeReadOnly, reboot_counter_get
  <2>6. CASE Reset
    BY <2>6 DEF Reset, Restart, reboot_counter_get
  <2>7. CASE PowerFails
    BY <2>7 DEF PowerFails, Restart, reboot_counter_get, InitSteps
  <2>8. CASE UNCHANGED rebootVars
    BY <2>8 DEF rebootVars, reboot_counter_get
  <2> QED
    BY <2>1, <2>2, <2>3, <2>4, <2>5, <2>6, <2>7, <2>8 DEF RebootNext
<1> QED
  BY <1>1, <1>2, RebootTypeCorrect, DisciplineInvariant, PTL DEF RebootSpec

(* Unless power has failed between the erase and the write, a running tag     *)
(* reports the number of its boots, for a word of any size and across its     *)
(* wrap to 0; a failure before the erase or after the write does no harm.     *)
THEOREM BootsAreCounted == RebootSpec => []CountsBoots
<1>1. CountInv => CountsBoots
  BY DEF CountInv, CountsBoots
<1> QED
  BY <1>1, CountInvariant, PTL

------------------------------------------------------------------------------
(* Arithmetic.                                                                *)

(* What division gives for a number of q whole turns and a rest.              *)
LEMMA TurnsAndRest ==
  ASSUME NEW m \in Nat, NEW q \in Nat, NEW r \in Nat, r < m
  PROVE  (q * m + r) \div m = q /\ (q * m + r) % m = r
<1>1. (q * m + r) \div m = q
  OBVIOUS
<1>2. (q * m + r) % m = r
  OBVIOUS
<1> QED BY <1>1, <1>2

(* Every number is one.                                                       *)
LEMMA Divided ==
  ASSUME NEW m \in Nat \ {0}, NEW n \in Nat
  PROVE  /\ n \div m \in Nat /\ n % m \in 0..(m - 1)
         /\ n = (n \div m) * m + (n % m)
<1>1. n \div m \in Nat
  OBVIOUS
<1>2. n % m \in 0..(m - 1)
  OBVIOUS
<1>3. n = (n \div m) * m + (n % m)
  OBVIOUS
<1> QED BY <1>1, <1>2, <1>3

(* The next one has a larger rest or begins a turn.                           *)
LEMMA NextDivided ==
  ASSUME NEW m \in Nat \ {0}, NEW n \in Nat
  PROVE  IF n % m = m - 1
         THEN (n + 1) \div m = n \div m + 1 /\ (n + 1) % m = 0
         ELSE (n + 1) \div m = n \div m /\ (n + 1) % m = (n % m) + 1
<1> DEFINE q == n \div m
           r == n % m
<1>1. q \in Nat /\ r \in 0..(m - 1) /\ n = q * m + r
  BY Divided
<1> HIDE DEF q, r
<1>2. CASE r = m - 1
  <2>1. n + 1 = (q + 1) * m + 0
    BY <1>1, <1>2
  <2>2. (n + 1) \div m = q + 1 /\ (n + 1) % m = 0
    BY <1>1, <2>1, TurnsAndRest
  <2> QED BY <1>2, <2>2 DEF q, r
<1>3. CASE r # m - 1
  <2>1. n + 1 = q * m + (r + 1) /\ r + 1 < m /\ r + 1 \in Nat
    BY <1>1, <1>3
  <2>2. (n + 1) \div m = q /\ (n + 1) % m = r + 1
    BY <1>1, <2>1, TurnsAndRest
  <2> QED BY <1>3, <2>2 DEF q, r
<1> QED BY <1>2, <1>3

(* A number below the modulus is its own rest.                                *)
LEMMA OwnRest ==
  ASSUME NEW m \in Nat, NEW n \in Nat, n < m
  PROVE  n % m = n
  OBVIOUS

(* A turn of two ticks or more leaves at least one when it has lost one.      *)
LEMMA TurnsLeave ==
  ASSUME NEW m \in Nat, m >= 2, NEW q \in Nat
  PROVE  q * (m - 1) \in Nat /\ q * (m - 1) >= q /\ q * m = q * (m - 1) + q
  OBVIOUS

(* The constants of the timer: an interval is longer than a second and        *)
(* shorter than a turn.                                                       *)
LEMMA Widths ==
  /\ CounterMod \in Nat /\ CounterMod >= 2
  /\ WordMod \in Nat \ {0} /\ OvfMod = WordMod
  BY TimerAssumption, PayloadAssumption

------------------------------------------------------------------------------
(* The inductive invariant.                                                   *)

Turns == ticks \div CounterMod

(* The overflows whose interrupt has been served.                             *)
Served == IF EVENTS_OVRFLW THEN Turns - 1 ELSE Turns

(* COUNTER and overflow_seconds are the ticks since the start, apart for what *)
(* has not been served, and until overflow_seconds overflows.                 *)
ClockInv ==
  /\ ticks \in Nat
  /\ COUNTER = ticks % CounterMod
  /\ overflow_seconds \in Nat
  /\ Served < WordMod => overflow_seconds = Served

(* The ticks, divided into turns.                                             *)
LEMMA TurnsAndCount ==
  ASSUME ticks \in Nat, COUNTER = ticks % CounterMod
  PROVE  /\ Turns \in Nat /\ COUNTER \in 0..(CounterMod - 1)
         /\ ticks = Turns * CounterMod + COUNTER
<1>1. CounterMod \in Nat \ {0}
  BY Widths
<1>2. /\ ticks \div CounterMod \in Nat
      /\ ticks % CounterMod \in 0..(CounterMod - 1)
      /\ ticks = (ticks \div CounterMod) * CounterMod + (ticks % CounterMod)
  BY <1>1, Divided
<1> QED BY <1>2, Zenon DEF Turns

(* Steps that leave the RTC alone.                                            *)
LEMMA ClockAlone ==
  ClockInv /\ UNCHANGED <<COUNTER, EVENTS_OVRFLW, overflow_seconds, ticks>>
    => ClockInv'
  BY DEF ClockInv, Served, Turns

(* A fresh clock: after power-up and after a reset.                           *)
LEMMA ClockFresh ==
  ASSUME NEW t, NEW c, NEW o, t = 0, c = 0, o = 0
  PROVE  /\ t \in Nat /\ c = t % CounterMod /\ o \in Nat
         /\ t \div CounterMod = 0
  BY Widths

(* A tick: the counter goes on, or around with an overflow pending.           *)
LEMMA ClockTicks == ClockInv /\ Tick => ClockInv'
<1> SUFFICES ASSUME ClockInv, Tick PROVE ClockInv'
  OBVIOUS
<1>1. /\ ~EVENTS_OVRFLW /\ ticks \in Nat /\ ticks' = ticks + 1
      /\ COUNTER = ticks % CounterMod
      /\ COUNTER' = (COUNTER + 1) % CounterMod
      /\ EVENTS_OVRFLW' <=> COUNTER' = 0
      /\ overflow_seconds' = overflow_seconds
  BY DEF Tick, RtcTicks, NextCount, ClockInv
<1>2. IF COUNTER = CounterMod - 1
      THEN Turns' = Turns + 1 /\ ticks' % CounterMod = 0
      ELSE Turns' = Turns /\ ticks' % CounterMod = COUNTER + 1
  <2>1. CounterMod \in Nat \ {0}
    BY Widths
  <2>2. IF COUNTER = CounterMod - 1
        THEN /\ (ticks + 1) \div CounterMod = ticks \div CounterMod + 1
             /\ (ticks + 1) % CounterMod = 0
        ELSE /\ (ticks + 1) \div CounterMod = ticks \div CounterMod
             /\ (ticks + 1) % CounterMod = COUNTER + 1
    BY <1>1, <2>1, NextDivided, Zenon
  <2> QED BY <1>1, <2>2, Zenon DEF Turns
<1>3. COUNTER' = ticks' % CounterMod
  <2>1. COUNTER \in 0..(CounterMod - 1)
    BY <1>1, TurnsAndCount
  <2>2. COUNTER' = IF COUNTER = CounterMod - 1 THEN 0 ELSE COUNTER + 1
    BY <1>1, <2>1, Widths
  <2> QED BY <1>2, <2>2
<1>4. Turns \in Nat /\ COUNTER \in 0..(CounterMod - 1)
  BY <1>1, TurnsAndCount
<1>5. Served' = Served
  BY <1>1, <1>2, <1>3, <1>4 DEF Served
<1> QED BY <1>1, <1>3, <1>5 DEF ClockInv

(* The handler counts the overflow it acknowledges.                           *)
LEMMA ClockServed == ClockInv /\ RTC1_acknowledge /\ UNCHANGED ticks => ClockInv'
<1> SUFFICES ASSUME ClockInv, RTC1_acknowledge, UNCHANGED ticks PROVE ClockInv'
  OBVIOUS
<1>1. /\ COUNTER' = COUNTER /\ ticks' = ticks /\ ~EVENTS_OVRFLW'
      /\ overflow_seconds' = IF EVENTS_OVRFLW
                             THEN (overflow_seconds + 1) % WordMod
                             ELSE overflow_seconds
  BY Widths DEF RTC1_acknowledge
<1>2. Turns \in Nat /\ Turns' = Turns /\ Served' = Turns
  BY <1>1, TurnsAndCount DEF ClockInv, Turns, Served
<1>3. CASE EVENTS_OVRFLW
  <2>1. Served = Turns - 1
    BY <1>3 DEF Served
  <2>2. overflow_seconds' \in Nat
    BY <1>1, <1>3, Widths DEF ClockInv
  <2>3. ASSUME Turns < WordMod PROVE overflow_seconds' = Turns
    <3>1. overflow_seconds = Turns - 1
      BY <1>2, <2>1, <2>3, Widths DEF ClockInv
    <3> QED BY <1>1, <1>2, <1>3, <2>3, <3>1, Widths, OwnRest DEF ClockInv
  <2> QED BY <1>1, <1>2, <2>2, <2>3 DEF ClockInv
<1>4. CASE ~EVENTS_OVRFLW
  BY <1>1, <1>2, <1>4 DEF ClockInv, Served
<1> QED BY <1>3, <1>4

(* Every step keeps it.                                                       *)
LEMMA ClockStep == ClockInv /\ [PayloadNext]_payloadVars => ClockInv'
<1> SUFFICES ASSUME ClockInv, [PayloadNext]_payloadVars PROVE ClockInv'
  OBVIOUS
<1>1. CASE Boot
  BY <1>1, ClockAlone DEF Boot, tagVars, timerVars, rtcVars
<1>2. CASE timer_init
  BY <1>2, ClockAlone DEF timer_init
<1>3. CASE aes_callback_chain_issue
  BY <1>3, ClockAlone DEF aes_callback_chain_issue, timerVars, rtcVars
<1>4. CASE RTC1_IRQHandler
  BY <1>4, ClockServed DEF RTC1_IRQHandler
<1>5. CASE on_aes_encrypted
  BY <1>5, ClockAlone DEF on_aes_encrypted, rtcVars
<1>6. CASE Tick
  BY <1>6, ClockTicks
<1>7. CASE TagResets
  <2>1. /\ ticks' = 0 /\ COUNTER' = 0 /\ overflow_seconds' = 0
        /\ EVENTS_OVRFLW' = FALSE
    BY <1>7 DEF TagResets
  <2> QED BY <2>1, ClockFresh DEF ClockInv, Served, Turns
<1>8. CASE ServerHears
  BY <1>8, ClockAlone DEF ServerHears, tagVars, timerVars, rtcVars
<1>9. CASE UNCHANGED payloadVars
  BY <1>9, ClockAlone DEF payloadVars, tagVars, timerVars, rtcVars
<1> QED
  BY <1>1, <1>2, <1>3, <1>4, <1>5, <1>6, <1>7, <1>8, <1>9 DEF PayloadNext

(* COUNTER and the overflows served and pending are the ticks since the start *)
(* (RTC1_IRQHandler, timer_get_seconds).                                      *)
THEOREM ClockInvariant == PayloadSpec => []ClockInv
<1>1. PayloadInit => ClockInv
  <2> SUFFICES ASSUME PayloadInit PROVE ClockInv
    OBVIOUS
  <2>1. /\ ticks = 0 /\ COUNTER = 0 /\ overflow_seconds = 0
        /\ EVENTS_OVRFLW = FALSE
    BY DEF PayloadInit, TimerInit
  <2> QED BY <2>1, ClockFresh DEF ClockInv, Served, Turns
<1> QED BY <1>1, ClockStep, PTL DEF PayloadSpec

------------------------------------------------------------------------------
(* timer_get_seconds of a clock whose overflows are served.                   *)
TimeLags ==
  ~EVENTS_OVRFLW /\ CountedTicks < WordMod =>
    timer_get_seconds = CountedTicks \div RTC_FREQUENCY

LEMMA ClockTells == ClockInv => TimeLags
<1> SUFFICES ASSUME ClockInv, ~EVENTS_OVRFLW, CountedTicks < WordMod
             PROVE  timer_get_seconds = CountedTicks \div RTC_FREQUENCY
  BY DEF TimeLags
<1>1. /\ Turns \in Nat /\ COUNTER \in 0..(CounterMod - 1)
      /\ ticks = Turns * CounterMod + COUNTER
  BY TurnsAndCount DEF ClockInv
<1>2. CountedTicks = COUNTER + Turns * (CounterMod - 1)
  <2>1. CountedTicks = ticks - Turns
    BY DEF CountedTicks, Turns
  <2>2. /\ Turns * (CounterMod - 1) \in Nat
        /\ Turns * CounterMod = Turns * (CounterMod - 1) + Turns
    BY <1>1, Widths, TurnsLeave
  <2> QED BY <1>1, <2>1, <2>2
<1>3. Turns < WordMod
  BY <1>1, <1>2, Widths, TurnsLeave
<1>4. overflow_seconds = Turns
  BY <1>3 DEF ClockInv, Served
<1>5. CountedTicks \in Nat
  BY <1>1, <1>2, Widths, TurnsLeave
<1>6. CountedTicks % WordMod = CountedTicks
  BY <1>5, Widths, OwnRest
<1> QED BY <1>2, <1>4, <1>6 DEF timer_get_seconds, SecondsOf

(* The clock of a tag that has served its overflows is behind by a tick per   *)
(* turn of the counter, and by nothing else as long as a word can hold it:    *)
(* the product and the sum of timer_get_seconds do not overflow before that.  *)
THEOREM TimeLagsATickPerTurn == PayloadSpec => []TimeLags
BY ClockTells, ClockInvariant, PTL

------------------------------------------------------------------------------
(* The reboot counter within the tag.                                         *)

(* What the tag does to the reboot counter is what RebootCounter does.        *)
THEOREM PayloadCountsBoots == PayloadSpec => RebootSpec
<1>1. PayloadInit => RebootInit
  BY DEF PayloadInit
<1>2. [PayloadNext]_payloadVars => [RebootNext]_rebootVars
  <2> SUFFICES ASSUME [PayloadNext]_payloadVars PROVE [RebootNext]_rebootVars
    OBVIOUS
  <2>1. CASE Boot
    BY <2>1 DEF Boot
  <2>2. CASE timer_init \/ aes_callback_chain_issue \/ RTC1_IRQHandler
    BY <2>2 DEF timer_init, aes_callback_chain_issue, RTC1_IRQHandler
  <2>3. CASE on_aes_encrypted \/ Tick \/ ServerHears
    BY <2>3 DEF on_aes_encrypted, Tick, ServerHears
  <2>4. CASE TagResets
    BY <2>4 DEF TagResets, RebootNext
  <2>5. CASE UNCHANGED payloadVars
    BY <2>5 DEF payloadVars
  <2> QED BY <2>1, <2>2, <2>3, <2>4, <2>5 DEF PayloadNext
<1> QED BY <1>1, <1>2, PTL DEF PayloadSpec, RebootSpec

------------------------------------------------------------------------------
(* More arithmetic: the seconds at a number of ticks.                         *)

(* The ticks the code has counted when n have passed, and its seconds.        *)
Counted(n) == n - n \div CounterMod
Seconds(n) == Counted(n) \div RTC_FREQUENCY

(* Numbers less than a turn apart with the same rest are the same.            *)
LEMMA SameRest ==
  ASSUME NEW m \in Nat \ {0}, NEW a \in Nat, NEW b \in a..(a + m - 1),
         a % m = b % m
  PROVE  a = b
<1> DEFINE q == a \div m
           p == b \div m
           r == a % m
<1>0. b \in Nat
  OBVIOUS
<1>1. /\ q \in Nat /\ p \in Nat /\ r \in 0..(m - 1) /\ b \in Nat
      /\ a = q * m + r /\ b = p * m + r
  <2>1. q \in Nat /\ r \in 0..(m - 1) /\ a = q * m + r
    BY Divided
  <2>2. p \in Nat /\ b = p * m + (b % m)
    BY <1>0, Divided
  <2> QED BY <1>0, <2>1, <2>2
<1> HIDE DEF q, p, r
<1>2. p * m - q * m \in 0..(m - 1)
  BY <1>1
<1>3. ASSUME p > q PROVE FALSE
  <2>1. p * m >= (q + 1) * m
    BY <1>1, <1>3
  <2>2. (q + 1) * m = q * m + m
    BY <1>1
  <2> QED BY <1>1, <1>2, <2>1, <2>2
<1>4. ASSUME p < q PROVE FALSE
  <2>1. q * m >= (p + 1) * m
    BY <1>1, <1>4
  <2>2. (p + 1) * m = p * m + m
    BY <1>1
  <2> QED BY <1>1, <1>2, <2>1, <2>2
<1>5. p = q
  BY <1>1, <1>3, <1>4
<1> QED BY <1>1, <1>5

(* Less than a turn on, the turns and the rest.                               *)
LEMMA LaterDivided ==
  ASSUME NEW m \in Nat \ {0}, NEW n \in Nat, NEW k \in 0..(m - 1)
  PROVE  /\ (n + k) \div m \in {n \div m, n \div m + 1}
         /\ (n + k) % m = ((n % m) + k) % m
<1> DEFINE q == n \div m
           r == n % m
<1>1. q \in Nat /\ r \in 0..(m - 1) /\ n = q * m + r
  BY Divided
<1> HIDE DEF q, r
<1>2. CASE r + k < m
  <2>1. n + k = q * m + (r + k) /\ r + k \in Nat
    BY <1>1
  <2>2. (n + k) \div m = q /\ (n + k) % m = r + k
    BY <1>1, <1>2, <2>1, TurnsAndRest
  <2>3. (r + k) % m = r + k
    BY <1>2, <2>1, OwnRest
  <2> QED BY <2>2, <2>3 DEF q, r
<1>3. CASE ~(r + k < m)
  <2>1. /\ n + k = (q + 1) * m + (r + k - m)
        /\ r + k = 1 * m + (r + k - m)
        /\ r + k - m \in Nat /\ r + k - m < m /\ q + 1 \in Nat
    BY <1>1, <1>3
  <2>2. (n + k) \div m = q + 1 /\ (n + k) % m = r + k - m
    <3>1. \A t \in Nat : t < m => /\ ((q + 1) * m + t) \div m = q + 1
                                  /\ ((q + 1) * m + t) % m = t
      BY <2>1, TurnsAndRest
    <3> QED BY <2>1, <3>1
  <2>3. (r + k) % m = r + k - m
    <3>1. \A t \in Nat : t < m => (1 * m + t) % m = t
      BY TurnsAndRest
    <3> QED BY <2>1, <3>1
  <2> QED BY <2>2, <2>3 DEF q, r
<1> QED BY <1>2, <1>3

(* A second and more makes a difference of a second.                          *)
LEMMA SecondsApart ==
  ASSUME NEW f \in Nat \ {0}, NEW a \in Nat, NEW b \in Nat, a + f <= b
  PROVE  a \div f < b \div f
<1> DEFINE q == a \div f
           p == b \div f
           r == a % f
           s == b % f
<1>1. /\ q \in Nat /\ r \in 0..(f - 1) /\ a = q * f + r
      /\ p \in Nat /\ s \in 0..(f - 1) /\ b = p * f + s
  BY Divided
<1> HIDE DEF q, p, r, s
<1>2. ASSUME p <= q PROVE FALSE
  <2>1. p * f <= q * f
    BY <1>1, <1>2
  <2> QED BY <1>1, <2>1
<1> QED BY <1>1, <1>2 DEF q, p

(* So does the end of an interval.                                            *)
LEMMA BeforeInterval ==
  ASSUME NEW f \in Nat \ {0}, NEW i \in Nat, NEW a \in Nat, a < i * f
  PROVE  a \div f < (i * f) \div f
<1> DEFINE q == a \div f
           r == a % f
<1>1. q \in Nat /\ r \in 0..(f - 1) /\ a = q * f + r
  BY Divided
<1>2. (i * f + 0) \div f = i
  BY TurnsAndRest
<1>3. i * f + 0 = i * f
  OBVIOUS
<1> HIDE DEF q, r
<1>4. ASSUME i <= q PROVE FALSE
  <2>1. i * f <= q * f
    BY <1>1, <1>4
  <2> QED BY <1>1, <2>1
<1>5. q < i
  BY <1>1, <1>4
<1> QED BY <1>2, <1>3, <1>5 DEF q

(* Division keeps the order.                                                  *)
LEMMA DividedInOrder ==
  ASSUME NEW f \in Nat \ {0}, NEW a \in Nat, NEW b \in Nat, a <= b
  PROVE  a \div f <= b \div f
<1> DEFINE q == a \div f
           p == b \div f
           r == a % f
           s == b % f
<1>1. /\ q \in Nat /\ r \in 0..(f - 1) /\ a = q * f + r
      /\ p \in Nat /\ s \in 0..(f - 1) /\ b = p * f + s
  BY Divided
<1> HIDE DEF q, p, r, s
<1>2. ASSUME p < q PROVE FALSE
  <2>1. (p + 1) * f <= q * f
    BY <1>1, <1>2
  <2>2. (p + 1) * f = p * f + f
    BY <1>1
  <2> QED BY <1>1, <2>1, <2>2
<1> QED BY <1>1, <1>2 DEF q, p

(* The ticks counted: none more than there are ...                            *)
LEMMA CountedNat ==
  ASSUME NEW n \in Nat
  PROVE  Counted(n) \in Nat
<1> DEFINE q == n \div CounterMod
           r == n % CounterMod
<1>0. CounterMod \in Nat \ {0}
  BY Widths
<1>1. /\ q \in Nat /\ r \in 0..(CounterMod - 1) /\ n = q * CounterMod + r
  BY <1>0, Divided
<1> HIDE DEF q, r
<1>2. /\ q * (CounterMod - 1) \in Nat
      /\ q * CounterMod = q * (CounterMod - 1) + q
  BY <1>1, Widths, TurnsLeave
<1>3. n - q \in Nat
  BY <1>0, <1>1, <1>2
<1> QED BY <1>3 DEF q, Counted

(* ... and, within a turn, at most one less than go by.                       *)
LEMMA CountedLater ==
  ASSUME NEW n \in Nat, NEW k \in 0..(CounterMod - 1)
  PROVE  /\ Counted(n) \in Nat /\ Counted(n + k) \in Nat
         /\ Counted(n + k) <= Counted(n) + k
         /\ Counted(n + k) >= Counted(n) + k - 1
<1>1. CounterMod \in Nat \ {0}
  BY Widths
<1>2. (n + k) \div CounterMod \in {n \div CounterMod, n \div CounterMod + 1}
  BY <1>1, LaterDivided
<1>3. n \div CounterMod \in Nat
  BY <1>1, Divided
<1>4. n + k \in Nat
  OBVIOUS
<1>5. Counted(n) \in Nat /\ Counted(n + k) \in Nat
  BY <1>4, CountedNat
<1> DEFINE q == n \div CounterMod
           p == (n + k) \div CounterMod
<1>6. p \in {q, q + 1} /\ q \in Nat
  BY <1>2, <1>3
<1>7. Counted(n) = n - q
  BY DEF Counted
<1>8. Counted(n + k) = (n + k) - p
  <2>1. \A a : Counted(a) = a - (a \div CounterMod)
    BY DEF Counted
  <2> QED BY <2>1, Zenon
<1> HIDE DEF q, p
<1> QED BY <1>5, <1>6, <1>7, <1>8

(* An interval is longer than a second and shorter than a turn.               *)
LEMMA IntervalFits ==
  /\ RTC_FREQUENCY \in Nat \ {0} /\ Interval \in Nat
  /\ Interval * RTC_FREQUENCY \in 1..(CounterMod - 1)
  /\ Interval * RTC_FREQUENCY >= RTC_FREQUENCY + 1
<1>1. ASSUME NEW i \in Nat, NEW f \in Nat PROVE i * f \in Nat
  OBVIOUS
<1>2. Interval * RTC_FREQUENCY \in Nat
  BY <1>1, PayloadAssumption, TimerAssumption
<1> QED BY <1>2, PayloadAssumption, TimerAssumption

(* A tick does not take seconds back.                                         *)
LEMMA SecondsTick ==
  ASSUME NEW n \in Nat
  PROVE  /\ Counted(n) <= Counted(n + 1)
         /\ Seconds(n) \in Nat /\ Seconds(n) <= Seconds(n + 1)
<1>1. 1 \in 0..(CounterMod - 1)
  BY Widths
<1>2. Counted(n) \in Nat /\ Counted(n + 1) \in Nat
      /\ Counted(n) <= Counted(n + 1)
  <2>1. /\ Counted(n) \in Nat /\ Counted(n + 1) \in Nat
        /\ Counted(n + 1) >= Counted(n) + 1 - 1
    BY <1>1, CountedLater
  <2> QED BY <2>1
<1>3. Counted(n) \div RTC_FREQUENCY <= Counted(n + 1) \div RTC_FREQUENCY
  BY <1>2, IntervalFits, DividedInOrder
<1>4. Counted(n) \div RTC_FREQUENCY \in Nat
  BY <1>2, IntervalFits, Divided
<1> QED BY <1>2, <1>3, <1>4 DEF Seconds

(* An interval later it is later in seconds.                                  *)
LEMMA SecondsInterval ==
  ASSUME NEW n \in Nat
  PROVE  Seconds(n) < Seconds(n + Interval * RTC_FREQUENCY)
<1> DEFINE k == Interval * RTC_FREQUENCY
<1>1. k \in 0..(CounterMod - 1) /\ k >= RTC_FREQUENCY + 1
  BY IntervalFits
<1> HIDE DEF k
<1>2. /\ Counted(n) \in Nat /\ Counted(n + k) \in Nat
      /\ Counted(n + k) >= Counted(n) + k - 1
  BY <1>1, CountedLater
<1>3. Counted(n) + RTC_FREQUENCY <= Counted(n + k)
  BY <1>1, <1>2, IntervalFits
<1> QED BY <1>2, <1>3, IntervalFits, SecondsApart DEF k, Seconds

(* So it is at the end of the first interval.                                 *)
LEMMA SecondsFirst ==
  ASSUME NEW n \in Nat, n < Interval * RTC_FREQUENCY
  PROVE  Seconds(n) < Seconds(Interval * RTC_FREQUENCY)
<1>1. ASSUME NEW c \in 0..(CounterMod - 1) PROVE Counted(c) = c
  <2>1. (0 * CounterMod + c) \div CounterMod = 0
    BY Widths, TurnsAndRest
  <2>2. 0 * CounterMod + c = c
    BY Widths
  <2> QED BY <2>1, <2>2 DEF Counted
<1>2. n \in 0..(CounterMod - 1)
  <2>1. ASSUME NEW k \in 1..(CounterMod - 1), n < k
        PROVE  n \in 0..(CounterMod - 1)
    BY <2>1, Widths
  <2> QED BY <2>1, IntervalFits
<1>3. /\ Counted(n) = n
      /\ Counted(Interval * RTC_FREQUENCY) = Interval * RTC_FREQUENCY
  BY <1>1, <1>2, IntervalFits
<1>4. n \div RTC_FREQUENCY < (Interval * RTC_FREQUENCY) \div RTC_FREQUENCY
  BY IntervalFits, BeforeInterval
<1> QED BY <1>3, <1>4 DEF Seconds

------------------------------------------------------------------------------
(* The inductive invariant behind the order of the blocks.                    *)

(* The boot the running tag writes into its blocks; the times the code's      *)
(* words can hold.                                                            *)
ThisBoot == reboot_counter_get % BootMod
Timely == CountedTicks < WordMod

Block(b) == b = NoBlock \/ (b.boot \in Nat /\ b.time \in Nat)

Slotted == [slots : [Slots -> TimerDefs], current_slot : {0, 1},
            CC : [Slots -> Nat]]

(* Where the chain can be: not before the boot is over; the slot registered   *)
(* once the RTC runs; no slot fires before the first block is published, nor  *)
(* while another one is encrypted.                                            *)
ChainInv ==
  /\ rtc \in {"off", "running"}
  /\ aes_timerEventDoneCB \in {NULL, "timer_reschedule"}
  /\ timer \in Slotted
  /\ pc # "booted" => rtc = "off" /\ data = NoBlock /\ adv_pdu = NoBlock
  /\ rtc = "off" =>
       /\ ticks = 0 /\ EVENTS_COMPARE = {} /\ ~EVENTS_OVRFLW
       /\ timer.current_slot = 0 /\ aes_timerEventDoneCB = NULL
  /\ rtc = "running" =>
       /\ timer.current_slot = 1
       /\ timer.slots[0] = [interval |-> Interval, cb |-> "aes_callback_chain"]
  /\ EVENTS_COMPARE \in {{}, {0}}
  /\ EVENTS_COMPARE # {} => data = NoBlock /\ adv_pdu # NoBlock
  /\ aes_timerEventDoneCB # NULL => adv_pdu # NoBlock
  /\ aes_timerEventDoneCB = NULL => data = NoBlock \/ adv_pdu = NoBlock

(* What the blocks hold: this boot, and a time that has come; the one being   *)
(* encrypted is later than the one published.                                 *)
BlockInv ==
  /\ Block(data) /\ Block(adv_pdu) /\ Block(known)
  /\ data # NoBlock => data.boot = ThisBoot
  /\ adv_pdu # NoBlock => adv_pdu.boot = ThisBoot
  /\ Timely => adv_pdu.time <= Seconds(ticks)
  /\ data # NoBlock /\ Timely =>
       data.time <= Seconds(ticks) /\ adv_pdu.time < data.time

(* The slot fires at tick `fire', in a later second than the published block  *)
(* was drawn in.                                                              *)
FiresAt(fire) ==
  /\ timer.CC[0] = fire % CounterMod
  /\ EVENTS_COMPARE = {} <=> ticks < fire
  /\ aes_timerEventDoneCB = NULL => fire = Interval * RTC_FREQUENCY
  /\ Timely => adv_pdu.time < Seconds(fire)

(* Unless on_aes_encrypted is to re-arm it, it will do so within a turn.      *)
SlotInv ==
  rtc = "running" =>
    \/ aes_timerEventDoneCB # NULL /\ data # NoBlock
    \/ \E fire \in ticks..(ticks + CounterMod - 1) : FiresAt(fire)

(* The server knows no later boot, and of this boot no later block than the   *)
(* published one.                                                             *)
KnownInv ==
  ~cut /\ ~wrapped =>
    /\ known.boot <= boots % BootMod
    /\ pc \in {"read_only", "booted"} /\ known.boot = boots % BootMod =>
         /\ adv_pdu # NoBlock
         /\ Timely => known.time <= adv_pdu.time

(* It is kept with what is known of the clock and of the reboot counter.      *)
KeptInv == ClockInv /\ RebootTypeOK /\ CountInv

(* No block at all is older than every block.                                 *)
LEMMA NoBlockIs ==
  /\ NoBlock.boot = 0 /\ NoBlock.time = -1
  /\ \A b : b.time \in Nat => b # NoBlock
BY DEF NoBlock

(* The boot is a number below the bound of the payload.                       *)
LEMMA BootNat ==
  ASSUME RebootTypeOK
  PROVE  ThisBoot \in Nat
<1>1. reboot_counter_get \in Nat
  BY RebootAssumption DEF RebootTypeOK, Words, reboot_counter_get
<1> QED BY <1>1, PayloadAssumption, Divided DEF ThisBoot

(* timer_get_seconds after a step, as timer_get_seconds before it is.         *)
LEMMA ClockWillTell == ClockInv' => TimeLags'
BY ClockTells, PTL

(* A drawn block holds this boot and the present second.                      *)
LEMMA DrawnBlock ==
  ASSUME KeptInv, ClockInv', ~EVENTS_OVRFLW', UNCHANGED <<COUNTER, ticks>>,
         NEW doneCB, aes_callback_chain(doneCB)
  PROVE  /\ data' # NoBlock
         /\ data'.boot = ThisBoot /\ data'.boot \in Nat
         /\ data'.time \in Nat
         /\ Timely => data'.time = Seconds(ticks)
<1>1. data' = [boot |-> ThisBoot, time |-> SecondsOf(COUNTER, overflow_seconds')]
  BY DEF aes_callback_chain, ThisBoot
<1>2. SecondsOf(COUNTER, overflow_seconds') = timer_get_seconds'
  BY DEF timer_get_seconds
<1>3. Timely => SecondsOf(COUNTER, overflow_seconds') = Seconds(ticks)
  BY <1>2, ClockWillTell DEF TimeLags, Timely, CountedTicks, Seconds, Counted
<1>4. SecondsOf(COUNTER, overflow_seconds') \in Nat
  <2>1. ASSUME NEW c \in Nat, NEW o \in Nat
        PROVE  (c + o * (CounterMod - 1)) % WordMod \in Nat
    <3>1. o * (CounterMod - 1) \in Nat
      BY Widths, TurnsLeave
    <3>2. \A n \in Nat : n % WordMod \in Nat
      BY Widths, Divided
    <3> QED BY <3>1, <3>2
  <2>2. COUNTER \in Nat /\ overflow_seconds' \in Nat
    <3>1. COUNTER \in 0..(CounterMod - 1)
      BY TurnsAndCount DEF KeptInv, ClockInv
    <3> QED BY <3>1, Widths DEF ClockInv
  <2>3. (COUNTER + overflow_seconds' * (CounterMod - 1)) % WordMod \in Nat
    BY <2>1, <2>2
  <2> HIDE DEF ClockInv
  <2>4. \A n \in Nat : n \div RTC_FREQUENCY \in Nat
    BY IntervalFits, Divided
  <2> QED BY <2>3, <2>4 DEF SecondsOf
<1>5. ThisBoot \in Nat
  BY BootNat DEF KeptInv
<1> DEFINE t == SecondsOf(COUNTER, overflow_seconds')
<1>6. data'.boot = ThisBoot /\ data'.time = t
  BY <1>1
<1> HIDE DEF t
<1> QED BY <1>3, <1>4, <1>5, <1>6, NoBlockIs DEF t

(* Before the first block is published no overflow is pending: the slot       *)
(* would have fired before.                                                   *)
LEMMA NoOverflowYet ==
  ASSUME KeptInv, ChainInv, SlotInv, adv_pdu = NoBlock
  PROVE  ~EVENTS_OVRFLW /\ ticks < Interval * RTC_FREQUENCY
<1>1. ticks < Interval * RTC_FREQUENCY
  <2>1. CASE rtc = "off"
    BY <2>1, IntervalFits DEF ChainInv
  <2>2. CASE rtc = "running"
    BY <2>2 DEF ChainInv, SlotInv, FiresAt
  <2> QED BY <2>1, <2>2 DEF ChainInv
<1>2. Turns = 0
  <2>1. ticks < CounterMod /\ ticks \in Nat
    <3>1. ASSUME NEW k \in 1..(CounterMod - 1), NEW n \in Nat, n < k
          PROVE  n < CounterMod
      BY <3>1, Widths
    <3> QED BY <1>1, <3>1, IntervalFits DEF KeptInv, ClockInv
  <2>2. (0 * CounterMod + ticks) \div CounterMod = 0
    BY <2>1, Widths, TurnsAndRest
  <2>3. 0 * CounterMod + ticks = ticks
    BY <2>1, Widths
  <2> QED BY <2>2, <2>3 DEF Turns
<1>3. ASSUME EVENTS_OVRFLW PROVE FALSE
  <2>1. Served = -1
    BY <1>2, <1>3 DEF Served
  <2> QED BY <2>1, Widths DEF KeptInv, ClockInv
<1> QED BY <1>1, <1>3

------------------------------------------------------------------------------
(* The steps.                                                                 *)

(* timer_reschedule of the chain's slot keeps the shape of the timer.         *)
LEMMA SlotRearmed ==
  ASSUME ClockInv, timer \in Slotted, timer_reschedule(0)
  PROVE  /\ timer' \in Slotted
         /\ timer'.slots = timer.slots
         /\ timer'.current_slot = timer.current_slot
         /\ timer'.CC[0] =
              (COUNTER + timer.slots[0].interval * RTC_FREQUENCY) % CounterMod
<1> DEFINE k == timer.slots[0].interval * RTC_FREQUENCY
           cc == (COUNTER + k) % CounterMod
<1>1. timer' = [timer EXCEPT !.CC[0] = cc]
  BY DEF timer_reschedule
<1>2. cc \in Nat
  <2>1. ASSUME NEW i \in Nat PROVE i * RTC_FREQUENCY \in Nat
    BY IntervalFits
  <2>2. timer.slots[0].interval \in Nat
    BY DEF Slotted, TimerDefs, Slots
  <2>3. k \in Nat
    BY <2>1, <2>2
  <2>4. COUNTER \in Nat
    BY TurnsAndCount DEF ClockInv
  <2>5. \A n \in Nat : n % CounterMod \in Nat
    BY Widths, Divided
  <2> HIDE DEF k
  <2> QED BY <2>3, <2>4, <2>5
<1> HIDE DEF cc, k
<1>3. timer' \in Slotted
  BY <1>1, <1>2 DEF Slotted, Slots
<1>4. /\ timer'.slots = timer.slots
      /\ timer'.current_slot = timer.current_slot
      /\ timer'.CC[0] = cc
  BY <1>1 DEF Slotted, Slots
<1> QED BY <1>3, <1>4 DEF cc, k

(* The first and only slot is registered with one interval to go.             *)
LEMMA SlotRegistered ==
  ASSUME timer \in Slotted, timer.current_slot = 0,
         timer' = timer_add(timer, "aes_callback_chain", Interval)
  PROVE  /\ timer' \in Slotted
         /\ timer'.current_slot = 1
         /\ timer'.slots[0] = [interval |-> Interval,
                               cb |-> "aes_callback_chain"]
         /\ timer'.CC[0] = (Interval * RTC_FREQUENCY) % CounterMod
<1> DEFINE cc == (Interval * RTC_FREQUENCY) % CounterMod
           def == [interval |-> Interval, cb |-> "aes_callback_chain"]
<1>1. timer' = [slots |-> [timer.slots EXCEPT ![0] = def],
                CC |-> [timer.CC EXCEPT ![0] = cc], current_slot |-> 0 + 1]
  BY DEF timer_add
<1>2. cc \in Nat
  <2>1. \A n \in Nat : n % CounterMod \in Nat
    BY Widths, Divided
  <2> QED BY <2>1, IntervalFits
<1>3. def \in TimerDefs
  BY IntervalFits DEF TimerDefs, TimerCallbacks
<1> HIDE DEF cc, def
<1>4. timer' \in Slotted
  BY <1>1, <1>2, <1>3 DEF Slotted, Slots
<1>5. /\ timer'.current_slot = 1
      /\ timer'.slots[0] = def /\ timer'.CC[0] = cc
  BY <1>1 DEF Slotted, Slots
<1> QED BY <1>4, <1>5 DEF cc, def

(* The fired slot is the chain's.                                             *)
LEMMA FiredIsChain ==
  ASSUME ChainInv
  PROVE  /\ "aes_callback_chain" \in FiredCallbacks <=> EVENTS_COMPARE = {0}
         /\ EVENTS_COMPARE # {} => rtc = "running"
<1>1. EVENTS_COMPARE # {} => rtc = "running" /\ EVENTS_COMPARE = {0}
  BY DEF ChainInv
<1>2. EVENTS_COMPARE = {0} => timer.slots[0].cb = "aes_callback_chain"
  BY <1>1 DEF ChainInv
<1> QED BY <1>1, <1>2 DEF FiredCallbacks, NULL

(* What a tick hits, in a slot that waits for the tick `fire'.                *)
LEMMA TickHits ==
  ASSUME ClockInv, ChainInv, rtc = "running", EVENTS_COMPARE = {},
         NEW fire \in ticks..(ticks + CounterMod - 1), FiresAt(fire)
  PROVE  /\ fire = ticks + 1 => CompareHits = {0}
         /\ fire # ticks + 1 => CompareHits = {}
<1>1. /\ ticks \in Nat /\ fire \in (ticks + 1)..(ticks + CounterMod - 1)
      /\ timer.CC[0] = fire % CounterMod
      /\ CounterMod \in Nat \ {0}
  BY Widths DEF ClockInv, FiresAt
<1>2. NextCount = (ticks + 1) % CounterMod
  <2>1. 1 \in 0..(CounterMod - 1)
    BY Widths
  <2>2. (ticks + 1) % CounterMod = ((ticks % CounterMod) + 1) % CounterMod
    BY <1>1, <2>1, LaterDivided
  <2> QED BY <2>2 DEF NextCount, ClockInv
<1>3. fire % CounterMod = NextCount <=> fire = ticks + 1
  <2>1. ASSUME (ticks + 1) % CounterMod = fire % CounterMod
        PROVE  ticks + 1 = fire
    <3>1. ticks + 1 \in Nat
          /\ fire \in (ticks + 1)..(ticks + 1 + CounterMod - 1)
      BY <1>1
    <3> QED BY <1>1, <2>1, <3>1, SameRest
  <2> QED BY <1>2, <2>1
<1>4. CompareHits = {i \in Slots : i < 1 /\ timer.CC[i] = NextCount}
  BY DEF CompareHits, ChainInv
<1>5. \A i \in Slots : i < 1 <=> i = 0
  BY DEF Slots
<1>6. 0 \in Slots
  BY DEF Slots
<1> QED BY <1>1, <1>3, <1>4, <1>5, <1>6

(* Every step leaves the chain where it can be.                               *)
LEMMA ChainStep ==
  ASSUME KeptInv, ClockInv', ChainInv, SlotInv, [PayloadNext]_payloadVars
  PROVE  ChainInv'
<1> USE DEF KeptInv
<1>1. CASE Boot
  BY <1>1 DEF Boot, ChainInv, tagVars, chainVars, timerVars, rtcVars
<1>2. CASE timer_init
  <2>1. timer \in Slotted /\ timer.current_slot = 0
    BY <1>2 DEF timer_init, ChainInv
  <2>2. /\ timer' \in Slotted /\ timer'.current_slot = 1
        /\ timer'.slots[0] = [interval |-> Interval,
                              cb |-> "aes_callback_chain"]
    BY <1>2, <2>1, SlotRegistered DEF timer_init
  <2> QED BY <1>2, <2>2 DEF timer_init, ChainInv, chainVars, rebootVars
<1>3. CASE aes_callback_chain_issue
  <2>1. /\ UNCHANGED <<pc, timerVars, ticks, adv_pdu>>
        /\ pc = "booted" /\ adv_pdu = NoBlock /\ aes_timerEventDoneCB' = NULL
    BY <1>3
    DEF aes_callback_chain_issue, aes_callback_chain, rebootVars
  <2> QED BY <2>1 DEF ChainInv, timerVars, rtcVars
<1>4. CASE RTC1_IRQHandler
  <2>1. /\ UNCHANGED <<pc, rtc, timer, ticks, adv_pdu>>
        /\ EVENTS_COMPARE' = {} /\ EVENTS_OVRFLW' = FALSE
    BY <1>4 DEF RTC1_IRQHandler, RTC1_acknowledge, rebootVars
  <2>2. CASE EVENTS_COMPARE = {0}
    <3>1. /\ aes_timerEventDoneCB' = "timer_reschedule"
          /\ adv_pdu # NoBlock /\ rtc = "running"
      BY <1>4, <2>2, FiredIsChain
      DEF RTC1_IRQHandler, aes_callback_chain, ChainInv
    <3> QED BY <2>1, <3>1 DEF ChainInv, NULL
  <2>3. CASE EVENTS_COMPARE # {0}
    <3>1. UNCHANGED <<data, aes_timerEventDoneCB>>
      BY <1>4, <2>3, FiredIsChain DEF RTC1_IRQHandler
    <3> QED BY <2>1, <3>1 DEF ChainInv
  <2> QED BY <2>2, <2>3
<1>5. CASE on_aes_encrypted
  <2>1. /\ UNCHANGED <<pc, rtcVars, ticks, aes_timerEventDoneCB>>
        /\ data # NoBlock /\ adv_pdu' = data /\ data' = NoBlock
    BY <1>5 DEF on_aes_encrypted, rebootVars
  <2>2. /\ timer' \in Slotted /\ timer'.slots = timer.slots
        /\ timer'.current_slot = timer.current_slot
    BY <1>5, SlotRearmed DEF on_aes_encrypted, ChainInv
  <2> QED BY <2>1, <2>2 DEF ChainInv, rtcVars
<1>6. CASE Tick
  <2>1. /\ UNCHANGED <<pc, data, adv_pdu, aes_timerEventDoneCB, rtc, timer>>
        /\ rtc = "running" /\ EVENTS_COMPARE = {}
        /\ EVENTS_COMPARE' = CompareHits
        /\ CompareHits # {} => data = NoBlock /\ adv_pdu # NoBlock
    BY <1>6 DEF Tick, RtcTicks, rebootVars, chainVars
  <2>2. CompareHits \in {{}, {0}}
    <3>1. CompareHits = {i \in Slots : i < 1 /\ timer.CC[i] = NextCount}
      BY <2>1 DEF CompareHits, ChainInv
    <3>2. \A i \in Slots : i < 1 <=> i = 0
      BY DEF Slots
    <3> QED BY <3>1, <3>2
  <2> QED BY <2>1, <2>2 DEF ChainInv
<1>7. CASE TagResets
  <2>1. /\ pc' = "read" /\ rtc' = "off" /\ ticks' = 0 /\ EVENTS_COMPARE' = {}
        /\ EVENTS_OVRFLW' = FALSE /\ data' = NoBlock /\ adv_pdu' = NoBlock
        /\ aes_timerEventDoneCB' = NULL
        /\ timer' = [timer EXCEPT !.slots[0] = EmptySlot, !.current_slot = 0,
                                  !.CC[0] = 0]
    BY <1>7 DEF TagResets, Reset, Restart
  <2>2. EmptySlot \in TimerDefs
    BY DEF EmptySlot, TimerDefs
  <2>3. timer' \in Slotted /\ timer'.current_slot = 0
    BY <2>1, <2>2 DEF ChainInv, Slotted, Slots
  <2> QED BY <2>1, <2>3 DEF ChainInv
<1>8. CASE ServerHears
  BY <1>8 DEF ServerHears, ChainInv, tagVars, chainVars, timerVars, rtcVars,
              rebootVars
<1>9. CASE UNCHANGED payloadVars
  BY <1>9 DEF payloadVars, ChainInv, tagVars, chainVars, timerVars, rtcVars,
              rebootVars
<1> QED
  BY <1>1, <1>2, <1>3, <1>4, <1>5, <1>6, <1>7, <1>8, <1>9 DEF PayloadNext

(* A tick that a word can still hold was one before.                          *)
LEMMA TimelyBefore ==
  ASSUME ClockInv, Tick, Timely'
  PROVE  Timely
<1>1. ticks \in Nat /\ ticks' = ticks + 1
  BY DEF ClockInv, Tick
<1>2. Counted(ticks) \in Nat /\ Counted(ticks + 1) \in Nat
      /\ Counted(ticks) <= Counted(ticks + 1)
  BY <1>1, CountedNat, SecondsTick
<1>3. Counted(ticks + 1) < WordMod
  BY <1>1, Zenon DEF Timely, CountedTicks, Counted
<1>4. Counted(ticks) < WordMod
  BY <1>2, <1>3, Widths
<1> QED BY <1>4 DEF Timely, CountedTicks, Counted

(* The blocks are this boot's, and come in the order of time.                 *)
LEMMA BlockStep ==
  ASSUME KeptInv, ClockInv', ChainInv, SlotInv, BlockInv,
         [PayloadNext]_payloadVars
  PROVE  BlockInv'
<1>0. UNCHANGED rebootVars => ThisBoot' = ThisBoot
  BY DEF rebootVars, ThisBoot, reboot_counter_get
<1>00. UNCHANGED ticks => (Timely' <=> Timely) /\ Seconds(ticks)' = Seconds(ticks)
  BY DEF Timely, CountedTicks, Seconds, Counted
<1>1. CASE Boot
  <2>1. UNCHANGED <<data, adv_pdu, known, ticks>> /\ pc # "booted"
    BY <1>1 DEF Boot, tagVars, chainVars
  <2> QED BY <1>00, <2>1 DEF BlockInv, ChainInv
<1>2. CASE timer_init
  BY <1>0, <1>00, <1>2 DEF timer_init, BlockInv, chainVars
<1>3. CASE aes_callback_chain_issue
  <2>1. /\ UNCHANGED <<rebootVars, COUNTER, EVENTS_OVRFLW, ticks, adv_pdu, known>>
        /\ adv_pdu = NoBlock /\ aes_callback_chain(NULL)
    BY <1>3 DEF aes_callback_chain_issue, timerVars, rtcVars
  <2>2. ~EVENTS_OVRFLW'
    BY <2>1, NoOverflowYet
  <2>3. /\ data' # NoBlock /\ data'.boot = ThisBoot /\ data'.boot \in Nat
        /\ data'.time \in Nat /\ (Timely => data'.time = Seconds(ticks))
    BY <2>1, <2>2, DrawnBlock
  <2> QED BY <1>0, <1>00, <2>1, <2>3, NoBlockIs DEF BlockInv, Block
<1>4. CASE RTC1_IRQHandler
  <2>1. /\ UNCHANGED <<rebootVars, COUNTER, ticks, adv_pdu, known>>
        /\ EVENTS_OVRFLW' = FALSE
    BY <1>4 DEF RTC1_IRQHandler, RTC1_acknowledge
  <2>2. CASE EVENTS_COMPARE = {0}
    <3>1. aes_callback_chain("timer_reschedule")
      BY <1>4, <2>2, FiredIsChain DEF RTC1_IRQHandler
    <3>2. /\ data' # NoBlock /\ data'.boot = ThisBoot /\ data'.boot \in Nat
          /\ data'.time \in Nat /\ (Timely => data'.time = Seconds(ticks))
      BY <2>1, <3>1, DrawnBlock
    <3>3. Timely => adv_pdu.time < Seconds(ticks)
      <4>1. rtc = "running" /\ data = NoBlock /\ ticks \in Nat
        BY <2>2, FiredIsChain DEF ChainInv, KeptInv, ClockInv
      <4>2. PICK fire \in ticks..(ticks + CounterMod - 1) : FiresAt(fire)
        BY <4>1 DEF SlotInv
      <4>3. fire = ticks
        BY <2>2, <4>1, <4>2, Widths DEF FiresAt
      <4> QED BY <4>2, <4>3 DEF FiresAt
    <3> QED BY <1>0, <1>00, <2>1, <3>2, <3>3 DEF BlockInv, Block
  <2>3. CASE EVENTS_COMPARE # {0}
    <3>1. data' = data
      BY <1>4, <2>3, FiredIsChain DEF RTC1_IRQHandler
    <3> QED BY <1>0, <1>00, <2>1, <3>1 DEF BlockInv
  <2> QED BY <2>2, <2>3
<1>5. CASE on_aes_encrypted
  <2>1. /\ UNCHANGED <<rebootVars, ticks, known>>
        /\ data # NoBlock /\ adv_pdu' = data /\ data' = NoBlock
    BY <1>5 DEF on_aes_encrypted
  <2> QED BY <1>0, <1>00, <2>1 DEF BlockInv, Block
<1>6. CASE Tick
  <2>1. UNCHANGED <<rebootVars, data, adv_pdu, known>>
    BY <1>6 DEF Tick, chainVars
  <2>2. ticks \in Nat /\ ticks' = ticks + 1
    BY <1>6 DEF Tick, KeptInv, ClockInv
  <2>3. Seconds(ticks)' = Seconds(ticks + 1)
    BY <2>2 DEF Seconds, Counted
  <2>4. Seconds(ticks) <= Seconds(ticks + 1) /\ Seconds(ticks) \in Nat
    BY <2>2, SecondsTick
  <2>5. Seconds(ticks + 1) \in Nat
    BY <2>2, SecondsTick
  <2>6. data # NoBlock => data.time \in Nat
    BY DEF BlockInv, Block
  <2>7. Timely' => Timely
    BY <1>6, TimelyBefore DEF KeptInv
  <2>8. ASSUME data # NoBlock, Timely' PROVE data.time <= Seconds(ticks)'
    <3>1. data.time <= Seconds(ticks)
      BY <2>7, <2>8 DEF BlockInv
    <3> QED BY <2>3, <2>4, <2>5, <2>6, <2>8, <3>1
  <2>9. ASSUME Timely' PROVE adv_pdu.time <= Seconds(ticks)'
    <3>1. adv_pdu.time <= Seconds(ticks)
      BY <2>7, <2>9 DEF BlockInv
    <3>2. adv_pdu.time \in Int
      BY NoBlockIs DEF BlockInv, Block
    <3> QED BY <2>3, <2>4, <2>5, <3>1, <3>2
  <2> QED BY <1>0, <2>1, <2>7, <2>8, <2>9 DEF BlockInv
<1>7. CASE TagResets
  <2>1. /\ data' = NoBlock /\ adv_pdu' = NoBlock /\ known' = known
        /\ ticks' = 0
    BY <1>7 DEF TagResets
  <2>2. Seconds(ticks)' = Seconds(0)
    BY <2>1 DEF Seconds, Counted
  <2>3. Seconds(0) \in Nat
    BY SecondsTick
  <2> QED BY <2>1, <2>2, <2>3, NoBlockIs DEF BlockInv, Block
<1>8. CASE ServerHears
  BY <1>0, <1>00, <1>8 DEF ServerHears, BlockInv, tagVars, chainVars
<1>9. CASE UNCHANGED payloadVars
  BY <1>0, <1>00, <1>9 DEF payloadVars, BlockInv, tagVars, chainVars
<1> QED
  BY <1>1, <1>2, <1>3, <1>4, <1>5, <1>6, <1>7, <1>8, <1>9 DEF PayloadNext

(* The slot is set an interval ahead of the block that is published with it.  *)
LEMMA SlotStep ==
  ASSUME KeptInv, ClockInv', ChainInv, SlotInv, BlockInv,
         [PayloadNext]_payloadVars
  PROVE  SlotInv'
<1> USE DEF KeptInv
<1>1. CASE UNCHANGED <<rtc, timer, ticks, EVENTS_COMPARE, aes_timerEventDoneCB,
                       adv_pdu>>
           /\ (data # NoBlock => data' # NoBlock)
  <2>1. ASSUME NEW fire, FiresAt(fire) PROVE FiresAt(fire)'
    BY <1>1, <2>1 DEF FiresAt, Timely, CountedTicks
  <2> QED BY <1>1, <2>1 DEF SlotInv
<1>2. CASE Boot
  BY <1>1, <1>2 DEF Boot, tagVars, chainVars, timerVars, rtcVars
<1>3. CASE timer_init
  <2>1. /\ rtc = "off" /\ UNCHANGED <<EVENTS_COMPARE, ticks, adv_pdu,
                                      aes_timerEventDoneCB>>
        /\ timer \in Slotted /\ timer.current_slot = 0
        /\ ticks = 0 /\ EVENTS_COMPARE = {} /\ aes_timerEventDoneCB = NULL
    BY <1>3 DEF timer_init, ChainInv, chainVars
  <2> DEFINE fire == Interval * RTC_FREQUENCY
  <2>2. timer'.CC[0] = fire % CounterMod
    BY <1>3, <2>1, SlotRegistered DEF timer_init
  <2>3. fire \in 1..(CounterMod - 1)
    BY IntervalFits
  <2>4. Timely => adv_pdu.time < Seconds(fire)
    <3>1. Seconds(0) < Seconds(fire) /\ Seconds(0) \in Nat
      BY <2>3, SecondsFirst, SecondsTick
    <3>2. Seconds(fire) \in Nat
      BY <2>3, SecondsTick
    <3>3. Timely => adv_pdu.time <= Seconds(0)
      BY <2>1 DEF BlockInv
    <3>4. adv_pdu.time \in Int
      BY NoBlockIs DEF BlockInv, Block
    <3> QED BY <3>1, <3>2, <3>3, <3>4
  <2>5. Timely' <=> Timely
    BY <2>1 DEF Timely, CountedTicks
  <2>6. FiresAt(fire)'
    <3> HIDE DEF fire
    <3>1. ticks' < fire /\ EVENTS_COMPARE' = {}
      BY <2>1, <2>3
    <3> QED BY <2>1, <2>2, <2>4, <2>5, <3>1 DEF FiresAt, fire
  <2>7. fire \in ticks'..(ticks' + CounterMod - 1)
    BY <2>1, <2>3, Widths
  <2> QED BY <2>6, <2>7 DEF SlotInv
<1>4. CASE aes_callback_chain_issue
  <2>1. /\ UNCHANGED <<rtc, timer, ticks, EVENTS_COMPARE, adv_pdu>>
        /\ adv_pdu = NoBlock /\ aes_timerEventDoneCB = NULL
        /\ aes_timerEventDoneCB' = NULL
    BY <1>4 DEF aes_callback_chain_issue, aes_callback_chain, timerVars,
                rtcVars, ChainInv
  <2>2. ASSUME NEW fire, FiresAt(fire) PROVE FiresAt(fire)'
    BY <2>1, <2>2 DEF FiresAt, Timely, CountedTicks
  <2> QED BY <2>1, <2>2 DEF SlotInv
<1>5. CASE RTC1_IRQHandler
  <2>1. CASE EVENTS_COMPARE = {0}
    <3>1. aes_callback_chain("timer_reschedule")
      BY <1>5, <2>1, FiredIsChain DEF RTC1_IRQHandler
    <3>2. aes_timerEventDoneCB' # NULL
      BY <3>1 DEF aes_callback_chain, NULL
    <3>3. data' # NoBlock
      <4>1. ~EVENTS_OVRFLW' /\ UNCHANGED <<COUNTER, ticks>>
        BY <1>5 DEF RTC1_IRQHandler, RTC1_acknowledge
      <4> QED BY <3>1, <4>1, DrawnBlock
    <3> QED BY <3>2, <3>3 DEF SlotInv
  <2>2. CASE EVENTS_COMPARE # {0}
    <3>1. UNCHANGED <<rtc, timer, ticks, data, aes_timerEventDoneCB, adv_pdu>>
      BY <1>5, <2>2, FiredIsChain DEF RTC1_IRQHandler, RTC1_acknowledge
    <3>2. EVENTS_COMPARE = {} /\ EVENTS_COMPARE' = {}
      BY <1>5, <2>2 DEF RTC1_IRQHandler, RTC1_acknowledge, ChainInv
    <3> QED BY <1>1, <3>1, <3>2
  <2> QED BY <2>1, <2>2
<1>6. CASE on_aes_encrypted
  <2>1. /\ UNCHANGED <<rtc, ticks, EVENTS_COMPARE, aes_timerEventDoneCB>>
        /\ data # NoBlock /\ adv_pdu' = data
        /\ IF aes_timerEventDoneCB = "timer_reschedule"
           THEN timer_reschedule(0) ELSE UNCHANGED timer
    BY <1>6 DEF on_aes_encrypted, rtcVars
  <2>2. EVENTS_COMPARE = {} /\ ticks \in Nat
    BY <2>1 DEF ChainInv, ClockInv
  <2>3. Timely => data.time <= Seconds(ticks)
    BY <2>1 DEF BlockInv
  <2>4. data.time \in Nat /\ Seconds(ticks) \in Nat
    BY <2>1, <2>2, SecondsTick DEF BlockInv, Block
  <2>5. Timely' <=> Timely
    BY <2>1 DEF Timely, CountedTicks
  <2>6. CASE aes_timerEventDoneCB = NULL
    <3>1. UNCHANGED timer
      BY <2>1, <2>6 DEF NULL
    <3>2. SUFFICES ASSUME rtc = "running",
                          NEW fire \in ticks..(ticks + CounterMod - 1),
                          FiresAt(fire)
                   PROVE  FiresAt(fire)'
      BY <2>1, <2>6 DEF SlotInv
    <3>3. fire = Interval * RTC_FREQUENCY /\ ticks < fire
      BY <2>2, <2>6, <3>2 DEF FiresAt
    <3>4. Seconds(ticks) < Seconds(fire)
      BY <2>2, <3>3, SecondsFirst
    <3>5. Seconds(fire) \in Nat
      BY <2>2, <3>2, SecondsTick, Widths
    <3>6. Timely => data.time < Seconds(fire)
      BY <2>3, <2>4, <3>4, <3>5
    <3> QED BY <2>1, <2>5, <3>1, <3>2, <3>6 DEF FiresAt
  <2>7. CASE aes_timerEventDoneCB = "timer_reschedule"
    <3> DEFINE k == Interval * RTC_FREQUENCY
    <3>0. PICK fire : fire = ticks + k
      OBVIOUS
    <3>1. rtc = "running" /\ COUNTER = ticks % CounterMod
      BY <2>7 DEF ChainInv, ClockInv, NULL
    <3>2. timer'.CC[0] = (COUNTER + timer.slots[0].interval * RTC_FREQUENCY)
                           % CounterMod
      BY <2>1, <2>7, SlotRearmed DEF ChainInv
    <3>3. timer.slots[0].interval = Interval
      BY <3>1 DEF ChainInv
    <3>4. k \in 1..(CounterMod - 1) /\ CounterMod \in Nat \ {0}
      BY IntervalFits, Widths
    <3>5. timer'.CC[0] = ((ticks % CounterMod) + k) % CounterMod
      BY <3>1, <3>2, <3>3
    <3>6. Seconds(ticks) < Seconds(fire)
      BY <2>2, <3>0, SecondsInterval
    <3> HIDE DEF k
    <3>7. (ticks + k) % CounterMod = ((ticks % CounterMod) + k) % CounterMod
      <4>1. \A m \in Nat \ {0} : \A n \in Nat : \A j \in 0..(m - 1) :
              (n + j) % m = ((n % m) + j) % m
        BY LaterDivided
      <4>2. k \in 0..(CounterMod - 1)
        BY <3>4
      <4> QED BY <2>2, <3>4, <4>1, <4>2
    <3>8. Seconds(fire) \in Nat
      <4>1. fire \in Nat
        BY <2>2, <3>0, <3>4
      <4> QED BY <4>1, SecondsTick
    <3>9. Timely => data.time < Seconds(fire)
      BY <2>3, <2>4, <3>6, <3>8
    <3>10. ticks < fire /\ fire \in ticks..(ticks + CounterMod - 1)
      BY <2>2, <3>0, <3>4
    <3>11. timer'.CC[0] = fire % CounterMod
      BY <3>0, <3>5, <3>7
    <3>12. FiresAt(fire)'
      BY <2>1, <2>2, <2>5, <2>7, <3>9, <3>10, <3>11 DEF FiresAt, NULL
    <3> QED BY <2>1, <3>10, <3>12 DEF SlotInv
  <2> QED BY <2>6, <2>7 DEF ChainInv
<1>7. CASE Tick
  <2>1. /\ UNCHANGED <<rtc, timer, data, adv_pdu, aes_timerEventDoneCB>>
        /\ rtc = "running" /\ EVENTS_COMPARE = {}
        /\ EVENTS_COMPARE' = CompareHits /\ ticks' = ticks + 1
    BY <1>7 DEF Tick, RtcTicks, chainVars
  <2>2. SUFFICES ASSUME ~(aes_timerEventDoneCB # NULL /\ data # NoBlock)
                 PROVE  SlotInv'
    BY <2>1 DEF SlotInv
  <2>3. PICK fire \in ticks..(ticks + CounterMod - 1) : FiresAt(fire)
    BY <2>1, <2>2 DEF SlotInv
  <2>4. ticks \in Nat /\ CounterMod \in Nat \ {0} /\ ticks < fire
    BY <2>1, <2>3, Widths DEF ClockInv, FiresAt
  <2>5. fire \in ticks'..(ticks' + CounterMod - 1)
    BY <2>1, <2>4
  <2>6. EVENTS_COMPARE' = {} <=> ticks' < fire
    <3>1. /\ fire = ticks + 1 => CompareHits = {0}
          /\ fire # ticks + 1 => CompareHits = {}
      BY <2>1, <2>3, TickHits
    <3>2. ticks + 1 < fire <=> fire # ticks + 1
      BY <2>4
    <3> QED BY <2>1, <3>1, <3>2
  <2>7. Timely' => Timely
    BY <1>7, TimelyBefore
  <2>8. FiresAt(fire)'
    BY <2>1, <2>3, <2>6, <2>7 DEF FiresAt
  <2> QED BY <2>5, <2>8 DEF SlotInv
<1>8. CASE TagResets
  BY <1>8 DEF TagResets, SlotInv
<1>9. CASE ServerHears \/ UNCHANGED payloadVars
  BY <1>1, <1>9 DEF ServerHears, payloadVars, tagVars, chainVars, timerVars,
                    rtcVars
<1> QED
  BY <1>2, <1>3, <1>4, <1>5, <1>6, <1>7, <1>8, <1>9 DEF PayloadNext

(* What a step of the init does to the number of boots: the write makes it    *)
(* the next one, unless the counter in the payload goes around.               *)
LEMMA BootCounts ==
  ASSUME KeptInv, CountInv', Boot, ~cut', ~wrapped'
  PROVE  /\ ~cut /\ ~wrapped
         /\ \/ boots' = boots /\ (pc' \in {"read_only", "booted"} =>
                                    pc \in {"read_only", "booted"})
            \/ boots' % BootMod = (boots % BootMod) + 1
<1>1. ~cut /\ ~wrapped
  <2>1. UNCHANGED cut \/ PowerFails
    BY DEF Boot, RebootNext, ReadOldValue, EnableErase, StartErase, EraseDone,
           EnableWrite, StartWrite, WriteDone, MakeReadOnly, Reset
  <2>2. ~cut
    BY <2>1 DEF PowerFails
  <2> QED BY <2>2 DEF Boot
<1>2. CASE WriteDone
  <2>1. pc' = "read_only" /\ boots' = (boots + 1) % Erased
    BY <1>2 DEF WriteDone, Step
  <2>2. reboot_counter_get' = boots' /\ reboot_counter_get' % BootMod # 0
    BY <2>1 DEF CountInv, Boot
  <2>3. boots' = IF boots + 1 = Erased THEN 0 ELSE boots + 1
    BY <2>1, NextModulo, RebootAssumption DEF KeptInv, RebootTypeOK
  <2>4. 0 % BootMod = 0 /\ BootMod \in Nat \ {0}
    BY PayloadAssumption, OwnRest
  <2>5. boots' = boots + 1 /\ boots \in Nat
    BY <2>2, <2>3, <2>4, RebootAssumption DEF KeptInv, RebootTypeOK
  <2>6. (boots + 1) % BootMod # 0
    BY <2>2, <2>5
  <2>7. (boots + 1) % BootMod = (boots % BootMod) + 1
    BY <2>4, <2>5, <2>6, NextDivided
  <2> QED BY <1>1, <2>5, <2>7
<1>3. CASE ~WriteDone
  <2> USE <1>1, <1>3 DEF Boot, Step
  <2>1. CASE ReadOldValue \/ EnableErase \/ StartErase \/ EraseDone
    BY <2>1 DEF ReadOldValue, EnableErase, StartErase, EraseDone
  <2>2. CASE EnableWrite \/ StartWrite \/ MakeReadOnly
    BY <2>2 DEF EnableWrite, StartWrite, MakeReadOnly
  <2>3. CASE Reset \/ PowerFails
    BY <2>3 DEF Reset, PowerFails, Restart
  <2> QED BY <2>1, <2>2, <2>3 DEF RebootNext
<1> QED BY <1>2, <1>3

(* The server falls behind with every boot and every block published, and     *)
(* what it hears is the block published.                                      *)
LEMMA KnownStep ==
  ASSUME KeptInv, CountInv', ChainInv, BlockInv, KnownInv,
         [PayloadNext]_payloadVars
  PROVE  KnownInv'
<1> USE DEF KeptInv
<1>0. /\ boots % BootMod \in Nat
      /\ known.boot \in Nat /\ known.time \in Int
      /\ adv_pdu.boot \in Nat /\ adv_pdu.time \in Int
  <2>1. boots \in Nat
    BY RebootAssumption DEF RebootTypeOK
  <2>2. boots % BootMod \in Nat
    BY <2>1, PayloadAssumption, Divided
  <2> QED BY <2>2, NoBlockIs DEF BlockInv, Block
<1>1. CASE UNCHANGED <<pc, boots, cut, wrapped, known, adv_pdu, ticks>>
  BY <1>1 DEF KnownInv, Timely, CountedTicks
<1>2. CASE Boot
  <2>1. SUFFICES ASSUME ~cut', ~wrapped' PROVE KnownInv'
    BY DEF KnownInv
  <2>2. /\ ~cut /\ ~wrapped
        /\ \/ boots' = boots /\ (pc' \in {"read_only", "booted"} =>
                                   pc \in {"read_only", "booted"})
           \/ boots' % BootMod = (boots % BootMod) + 1
    BY <1>2, <2>1, BootCounts
  <2>3. UNCHANGED <<known, adv_pdu, ticks>>
    BY <1>2 DEF Boot, tagVars, chainVars
  <2>4. known.boot <= boots % BootMod
    BY <2>2 DEF KnownInv
  <2>5. CASE boots' = boots /\ (pc' \in {"read_only", "booted"} =>
                                  pc \in {"read_only", "booted"})
    BY <2>2, <2>3, <2>5 DEF KnownInv, Timely, CountedTicks
  <2>6. CASE boots' % BootMod = (boots % BootMod) + 1
    <3>1. known.boot < boots' % BootMod
      BY <1>0, <2>4, <2>6
    <3> QED BY <1>0, <2>3, <2>4, <2>6, <3>1 DEF KnownInv
  <2> QED BY <2>2, <2>5, <2>6
<1>3. CASE timer_init \/ aes_callback_chain_issue \/ RTC1_IRQHandler
  BY <1>1, <1>3 DEF timer_init, aes_callback_chain_issue, RTC1_IRQHandler,
                    rebootVars, chainVars
<1>4. CASE on_aes_encrypted
  <2>1. /\ UNCHANGED <<pc, boots, cut, wrapped, known, ticks>>
        /\ data # NoBlock /\ adv_pdu' = data
    BY <1>4 DEF on_aes_encrypted, rebootVars
  <2>2. Timely => adv_pdu.time < data.time
    BY <2>1 DEF BlockInv
  <2>3. data.time \in Int
    BY NoBlockIs DEF BlockInv, Block
  <2>4. ASSUME known.time <= adv_pdu.time, adv_pdu.time < data.time
        PROVE  known.time <= data.time
    BY <1>0, <2>3, <2>4
  <2>5. Timely' <=> Timely
    BY <2>1 DEF Timely, CountedTicks
  <2> QED BY <2>1, <2>2, <2>4, <2>5 DEF KnownInv
<1>5. CASE Tick
  <2>1. UNCHANGED <<pc, boots, cut, wrapped, known, adv_pdu>>
    BY <1>5 DEF Tick, rebootVars, chainVars
  <2> QED BY <1>5, <2>1, TimelyBefore DEF KnownInv
<1>6. CASE TagResets
  <2>1. pc' = "read" /\ UNCHANGED <<boots, cut, wrapped, known>>
    BY <1>6 DEF TagResets, Reset, Restart
  <2> QED BY <2>1 DEF KnownInv
<1>7. CASE ServerHears
  <2>1. /\ UNCHANGED <<pc, boots, cut, wrapped, adv_pdu, ticks>>
        /\ Newer(adv_pdu, known) /\ known' = adv_pdu
    BY <1>7 DEF ServerHears, rebootVars, tagVars, chainVars
  <2>2. adv_pdu # NoBlock
    <3>1. ASSUME adv_pdu = NoBlock PROVE FALSE
      BY <1>0, <2>1, <3>1, NoBlockIs DEF Newer, BlockInv, Block
    <3> QED BY <3>1
  <2>3. pc = "booted" /\ adv_pdu.boot = ThisBoot
    BY <2>2 DEF ChainInv, BlockInv
  <2>4. ~cut => adv_pdu.boot = boots % BootMod
    BY <2>3 DEF CountInv, ThisBoot
  <2> QED BY <1>0, <2>1, <2>2, <2>4 DEF KnownInv
<1>8. CASE UNCHANGED payloadVars
  BY <1>1, <1>8 DEF payloadVars, tagVars, chainVars, rebootVars
<1> QED
  BY <1>2, <1>3, <1>4, <1>5, <1>6, <1>7, <1>8 DEF PayloadNext

------------------------------------------------------------------------------
(* The invariant, and the order of the blocks.                                *)
PayloadInv == ChainInv /\ BlockInv /\ SlotInv /\ KnownInv

LEMMA PayloadBegins == PayloadInit => PayloadInv
<1> SUFFICES ASSUME PayloadInit PROVE PayloadInv
  OBVIOUS
<1>1. /\ pc = "read" /\ boots = 0 /\ rtc = "off" /\ ticks = 0
      /\ EVENTS_COMPARE = {} /\ EVENTS_OVRFLW = FALSE
      /\ data = NoBlock /\ adv_pdu = NoBlock /\ known = NoBlock
      /\ aes_timerEventDoneCB = NULL
      /\ timer = [slots |-> [i \in Slots |-> EmptySlot], current_slot |-> 0,
                  CC |-> [i \in Slots |-> 0]]
  BY DEF PayloadInit, RebootInit, TimerInit
<1>2. EmptySlot \in TimerDefs
  BY DEF EmptySlot, TimerDefs
<1>3. timer \in Slotted /\ timer.current_slot = 0
  BY <1>1, <1>2 DEF Slotted, Slots
<1>4. ChainInv
  BY <1>1, <1>3 DEF ChainInv
<1>5. Seconds(ticks) \in Nat
  BY <1>1, SecondsTick
<1>6. BlockInv
  BY <1>1, <1>5, NoBlockIs DEF BlockInv, Block
<1>7. SlotInv
  BY <1>1 DEF SlotInv
<1>8. boots % BootMod \in Nat
  BY <1>1, PayloadAssumption, Divided
<1>9. KnownInv
  BY <1>1, <1>8, NoBlockIs DEF KnownInv
<1> QED BY <1>4, <1>6, <1>7, <1>9 DEF PayloadInv

(* The chain, its blocks, the slot that fires next and the server agree, in   *)
(* every interleaving of ticks, handlers, resets and what the server hears.   *)
THEOREM PayloadInvariant == PayloadSpec => [](KeptInv /\ PayloadInv)
<1>1. PayloadSpec => []KeptInv
  BY ClockInvariant, RebootTypeCorrect, CountInvariant, PayloadCountsBoots, PTL
  DEF KeptInv
<1>2. KeptInv /\ KeptInv' /\ PayloadInv /\ [PayloadNext]_payloadVars
        => PayloadInv'
  BY ChainStep, BlockStep, SlotStep, KnownStep DEF PayloadInv, KeptInv
<1> QED BY <1>1, <1>2, PayloadBegins, PTL DEF PayloadSpec

(* A new block is drawn by the chain alone.                                   *)
LEMMA NewBlock ==
  ASSUME PayloadNext, data' # data, data' # NoBlock, ChainInv
  PROVE  \/ aes_callback_chain_issue
         \/ RTC1_IRQHandler /\ EVENTS_COMPARE = {0}
<1>1. CASE Boot \/ timer_init \/ Tick \/ TagResets \/ ServerHears
  BY <1>1 DEF Boot, timer_init, Tick, TagResets, ServerHears, tagVars,
              chainVars
<1>2. CASE on_aes_encrypted
  BY <1>2 DEF on_aes_encrypted
<1>3. CASE RTC1_IRQHandler
  BY <1>3, FiredIsChain DEF RTC1_IRQHandler
<1> QED BY <1>1, <1>2, <1>3 DEF PayloadNext

(* Its boot is this one, its time the present one and later than that of the  *)
(* block published.                                                           *)
LEMMA NewBlockIsLater ==
  ASSUME KeptInv, ClockInv', PayloadInv, PayloadNext, Timely,
         data' # data, data' # NoBlock
  PROVE  /\ pc = "booted"
         /\ data'.boot = ThisBoot /\ data'.boot \in Nat
         /\ data'.time \in Nat /\ adv_pdu.time < data'.time
<1> USE DEF PayloadInv
<1>1. CASE aes_callback_chain_issue
  <2>1. /\ UNCHANGED <<COUNTER, EVENTS_OVRFLW, ticks>>
        /\ pc = "booted" /\ adv_pdu = NoBlock /\ aes_callback_chain(NULL)
    BY <1>1 DEF aes_callback_chain_issue, timerVars, rtcVars
  <2>2. ~EVENTS_OVRFLW'
    BY <2>1, NoOverflowYet
  <2>3. data'.boot = ThisBoot /\ data'.boot \in Nat /\ data'.time \in Nat
    BY <2>1, <2>2, DrawnBlock
  <2> QED BY <2>1, <2>3, NoBlockIs
<1>2. CASE RTC1_IRQHandler /\ EVENTS_COMPARE = {0}
  <2>1. /\ UNCHANGED <<COUNTER, ticks>> /\ ~EVENTS_OVRFLW'
        /\ aes_callback_chain("timer_reschedule")
    BY <1>2, FiredIsChain DEF RTC1_IRQHandler, RTC1_acknowledge
  <2>2. /\ data'.boot = ThisBoot /\ data'.boot \in Nat
        /\ data'.time \in Nat /\ data'.time = Seconds(ticks)
    BY <2>1, DrawnBlock
  <2>3. rtc = "running" /\ data = NoBlock /\ ticks \in Nat /\ pc = "booted"
    BY <1>2, FiredIsChain DEF ChainInv, KeptInv, ClockInv
  <2>4. PICK fire \in ticks..(ticks + CounterMod - 1) : FiresAt(fire)
    BY <2>3 DEF SlotInv
  <2>5. fire = ticks
    BY <1>2, <2>3, <2>4, Widths DEF FiresAt
  <2> QED BY <2>2, <2>3, <2>4, <2>5 DEF FiresAt
<1> QED BY <1>1, <1>2, NewBlock

(* Every new block is newer than the one before and, unless power was cut     *)
(* between erase and write or the payload's counter has gone around, than all *)
(* the server has ever received: across resets, overflows of the RTC and any  *)
(* order of encryption, timer and reception.                                  *)
THEOREM BlocksAreNewer == PayloadSpec => BlocksGetNewer
<1> DEFINE Goes == data' # data /\ data' # NoBlock /\ CountedTicks < WordMod
           New == /\ Newer(data', adv_pdu)
                  /\ ~cut /\ ~wrapped => Newer(data', known)
<1>1. KeptInv /\ KeptInv' /\ PayloadInv /\ [PayloadNext]_payloadVars
        => [Goes => New]_payloadVars
  <2> SUFFICES ASSUME KeptInv, KeptInv', PayloadInv, PayloadNext, Goes
               PROVE  New
    BY DEF payloadVars, tagVars, chainVars
  <2>1. /\ pc = "booted"
        /\ data'.boot = ThisBoot /\ data'.boot \in Nat
        /\ data'.time \in Nat /\ adv_pdu.time < data'.time
    BY NewBlockIsLater DEF KeptInv, Timely
  <2>2. /\ adv_pdu.boot \in Nat /\ adv_pdu.time \in Int
        /\ known.boot \in Nat /\ known.time \in Int
        /\ adv_pdu # NoBlock => adv_pdu.boot = ThisBoot
    BY NoBlockIs DEF PayloadInv, BlockInv, Block
  <2>3. Newer(data', adv_pdu)
    <3>1. CASE adv_pdu = NoBlock
      BY <2>1, <3>1, NoBlockIs DEF Newer
    <3>2. CASE adv_pdu # NoBlock
      BY <2>1, <2>2, <3>2 DEF Newer
    <3> QED BY <3>1, <3>2
  <2>4. ASSUME ~cut, ~wrapped PROVE Newer(data', known)
    <3>1. data'.boot = boots % BootMod
      BY <2>1, <2>4 DEF KeptInv, CountInv, ThisBoot
    <3>2. /\ known.boot <= boots % BootMod
          /\ known.boot = boots % BootMod => known.time <= adv_pdu.time
      BY <2>1, <2>4 DEF PayloadInv, KnownInv, Timely
    <3>3. known.boot = boots % BootMod => known.time < data'.time
      BY <2>1, <2>2, <3>2
    <3> HIDE DEF Goes
    <3> QED BY <2>1, <2>2, <3>1, <3>2, <3>3 DEF Newer
  <2> QED BY <2>3, <2>4
<1>2. PayloadSpec => []KeptInv /\ []PayloadInv /\ [][PayloadNext]_payloadVars
  BY PayloadInvariant, PTL DEF PayloadSpec
<1> QED BY <1>1, <1>2, PTL DEF BlocksGetNewer

==============================================================================
