# A formal model of the nrf51 beacon tag

The repository holds the firmware of a battery-powered beacon on an nRF51822.
Once a second it sends an advertising packet on the channels 37, 38 and 39; every
30 seconds the encrypted part of the packet is renewed with a fresh random IV.
There is no operating system: `main` sets the peripherals up and sleeps, and
everything else happens in six interrupt handlers that hand control to each other
through stored function pointers. One lost or NULL pointer stops the tag for
good, and no unit test of the repository runs any of this. In a debug build the
handlers also log, through a ring buffer in RAM that a debug probe empties while
they run. This directory models that machinery in TLA+, checks it with TLC on
small instances and proves its safety properties with TLAPS for all values of the
constants.

    tlc -workers 2 -config MCTag_tag.cfg MCTag         # one model-checking run
    tlapm TagProofs.tla                                # proofs, as in the other
                                                       # modules named ...Proofs

## Inventory

| Part | Source | State | Operations | What makes it correct |
|---|---|---|---|---|
| boot | `src/src/main.c` | the statement `main` has reached | `main`, `whenClockInited`, `whenTimerInited` | the timers start on every path through the clock start; the packet is complete before it is sent |
| clocks | `clock.c` | `started`, `onInitCB`, `onHFCLKStartedCB`, CLOCK events | `clock_init` with its fallback, `clock_start_hf`, `clock_stop_hf`, `POWER_CLOCK_IRQHandler` | the init callback runs exactly once; the crystal oscillator runs in rounds only |
| timer | `timer.c` | `timers[3]`, `current_slot`, `CC[3]`, RTC1 counter and events, `overflow_seconds` | `timer_init`, `timer_add`, `timer_reschedule`, `timer_get_seconds`, `RTC1_IRQHandler` | a slot is always armed ahead of the counter; time does not go back |
| random numbers | `random.c` | `value[8]`, `index`, `onFirstDataCB`, RNG events | `random_init`, `random_get`, `RNG_IRQHandler` | no write behind `value`; no byte in two IVs |
| encryption | `aes.c` | `onECBDoneCB`, `ecb_data` on the heap, ECB events | `aes_init`, `aes_encrypt`, `ECB_IRQHandler` | one block at a time; what is allocated is freed |
| radio | `ble.c` | `onDisableCB`, `adv_pdu`, RADIO events | `ble_init`, `ble_pdu_init`, `ble_send_on_channel`, `RADIO_IRQHandler` | never a NULL callback; IV and block on air belong together |
| payload chain | `aes_callback_chain.c` | `timer_slot`, `timerEventDoneCB`, `iv_data` | `aes_callback_chain`, `aes_callback_chain_issue`, `on_aes_encrypted` | the IV is replaced for ever |
| advertising chain | `ble_callback_chain.c` | `timer_slot`, `timerEventDoneCB` | `ble_callback_chain`, `send_ble_data_on_channel_*`, `finished_ble_data`, `reschedule_ble_data` | every round visits 37, 38, 39 and ends; rounds go on for ever |
| reboot counter | `reboot_counter.c` | `UICR.CUSTOMER[0]`, NVMC configuration | `reboot_counter_init`, `reboot_counter_get` | counts boots; flash is erased before it is written |
| server | external (`README.md:44-46`) | the newest block it has received | ignores what is not newer | a tag that is alive is not ignored, after however many resets |
| RTT log | `rtt/SEGGER_RTT.c` (by SEGGER, compiled in with `LOG`) | per buffer `RdOff`, `WrOff`, `Flags`, the bytes; `_ActiveTerminal` | writes, reads, mode, terminal switches, further buffers | bytes come out as they went in, whatever writer and probe do meanwhile; no call hangs the tag unless blocking was asked for; text is shown on the terminal it is for |
| RTT printf | `rtt/SEGGER_RTT_printf.c` | the buffer of a call, its result | `SEGGER_RTT_vprintf`, `_PrintInt`, `_PrintUnsigned`, `_StoreChar` | the digits and the padding its notes describe; nothing after a gap; lines of two contexts do not mix |
| rest | `pwr_mgmt.c`, `settings.h.in`, `compiler.h`, CMake | none | constant register writes, build-time constants | - |

### How the parts interact

Two chains of callbacks start in `RTC1_IRQHandler` and end by re-arming their own
slot of the timer:

    advertising: RTC1 -> ble_callback_chain -> clock_start_hf
                 POWER_CLOCK (HFCLKSTARTED) -> channel 37
                 RADIO (DISABLED) -> channel 38 -> RADIO -> channel 39
                 RADIO -> finished_ble_data -> clock_stop_hf -> timer_reschedule
    payload:     RTC1 -> aes_callback_chain -> random_get, aes_encrypt
                 ECB (ENDECB) -> on_aes_encrypted -> adv_pdu, timer_reschedule

The boot adds a third: the first eight random bytes run the payload chain once
with `doneCB` NULL, from `RNG_IRQHandler`. The chains meet in `adv_pdu`, which
`main` and `on_aes_encrypted` write and the radio reads by DMA while it sends, and
in the timer, whose slots are handed out when LFCLKSTARTED arrives, which may be
while `main` still polls, or much later.

The encrypted block holds the reboot counter, from flash, and the seconds since
boot, from the RTC and the overflows its handler has counted. The two are read when
the timer of the payload chain fires, inside the handler that counts, and a server
accepts only what is newer: with them the reboot counter, the timer and the payload
chain make up a clock that must not go back over resets.

The log of a debug build is apart from all this: handlers and `main` write to up
buffer 0, and the probe reads it through the debug port at any moment. Program and
probe share the offsets and nothing else. `main` and handlers are kept apart by
`SEGGER_RTT_LOCK`, which sets PRIMASK on a Cortex-M0 (nRF51) and BASEPRI on a
Cortex-M4 (nRF52, the target of the commands in README.md:55).

### What is hard about it

* Interleavings: `main` initialises with interrupts already enabled, so the first
  encryption can end before or in the middle of `main`'s copy into `adv_pdu`, and
  before `aes_init` has enabled the interrupt it needs.
* Atomicity: IV and block are exchanged in two copies under a running DMA.
* Ordering: each handler clears its pointer around a call that stores the next
  one; the fallback of `clock_init` clears an event that may just have been set.
* Stale reads: `started` is polled and not `volatile`.
* Resource bounds: a heap of 1 KiB, three slots, eight bytes of IV, a 24-bit
  counter, a 16-bit boot number.
* Crashes: power may fail between the erase and the write of the UICR, and what the
  tag knows of time and boots is rebuilt after every reset.
* Liveness: nothing restarts a chain that has lost its only pointer; a blocking
  write waits for the probe with interrupts locked.
* Partial failure: a ring without room refuses or cuts a write in the middle of a
  line, a conversion or a switch of the terminal there and back.
* Wrap-around: five functions of the RTT compute the free space, the end of the
  buffer and the unsigned differences of two offsets, each in its own way.

## The modules

| Module | Models | Correspondence |
|---|---|---|
| `Callbacks` | the function pointers | a pointer variable holds the name of a function or NULL; each set lists what the code stores in that pointer |
| `Clock` | `clock.c` and the CLOCK peripheral | variables named after the registers and statics; `clock_init` is cut where the polling loop lets interrupts in |
| `Timer` | `timer.c` and RTC1 | `timer` is the record of the slot table, `current_slot` and the CC registers; `COUNTER` wraps at `CounterMod` (2^24) |
| `Random` | `random.c` and the RNG | bytes are counted, their values are not kept |
| `Aes` | `aes.c` and the ECB peripheral | a block is known by the tag of the IV it was whitened with |
| `Ble` | `ble.c` and RADIO | the radio takes the packet in two reads, IV and block |
| `Tag` | `main.c`, the two chains, all handlers | extends the six; one action per statement of `main` that changes state, per handler and per peripheral event; `Spec` and `FairSpec` |
| `TagProperties` | - | properties of `Tag` and the refinement mapping |
| `Beacon` | - | the abstract beacon: boot, wait, crystal, 37, 38, 39, wait |
| `MCTag`, `MCTag_*.cfg` | - | the instances of `Tag` |
| `RebootCounter` | `reboot_counter.c` and the NVMC | one action per register access, since power may fail between any two |
| `MCRebootCounter`, `*.cfg` | - | its instance |
| `Payload` | `timer_get_seconds`, the block of `aes_callback_chain.c`, the server | extends `RebootCounter` and `Timer`; `ticks` is the true time, `known` what the server knows |
| `MCPayload`, `*.cfg` | - | its instance |
| `RttRing` | one ring of `SEGGER_RTT.c`, its writer and its reader | `RdOff`, `WrOff`, `Flags`, `pBuffer` of the control block; the locals of the call each side is in; `RingSpec` and `RunningSpec` |
| `RttRingProperties` | - | its properties and the refinement mapping |
| `Fifo` | - | the abstract queue: bytes go in at one end and come out at the other |
| `MCRttRing`, `*.cfg` | - | its instances |
| `RttTerminal` | `SEGGER_RTT_SetTerminal`, `SEGGER_RTT_TerminalOut`, writes of text, the mode | the ring is the queue of `Fifo`; `ActiveTerminal` is `_ActiveTerminal`, `shown` and `escape` are the host's |
| `RttPrintf` | `SEGGER_RTT_printf.c` | extends `RttTerminal`; what the functions store as operators, the calls of `SEGGER_RTT_Write` as actions |
| `MCRttPrintf`, `*.cfg` | - | the instance of both |
| `RttLog` | two contexts that print, `SEGGER_RTT_LOCK` | a call of `SEGGER_RTT_printf` per context, cut at the accesses to the ring; `LockMasks` is the core |
| `MCRttLog`, `*.cfg` | - | its instances |
| `TagProofs`, `TagTimerProofs`, `TagRoundProofs` | - | theorems about `Tag`: its pointers; its slots and IVs; its rounds and packets |
| `PayloadProofs` | - | theorems about `RebootCounter` and `Payload` |
| `RttRingProofs`, `RttTerminalProofs`, `RttPrintfProofs`, `RttLogProofs` | - | theorems about the module of that name |

### Handlers and atomicity

All six interrupts are left at priority 0. No handler preempts another, so a
handler is one action, with two exceptions in which a peripheral can see the
inside. `RNG_IRQHandler` is split between the acknowledgement of VALRDY and
TASKS_STOP: the generator is running between the two. `ECB_IRQHandler` is split
between the copy of the IV and the copy of the block: the radio may be reading
between the two. `isr` names the handler that is inside, and while it is set
neither `main` nor another handler runs. Pending handlers are taken in any order,
which includes the fixed order of the interrupt controller. The copies of `main`
into `adv_pdu` are split in the same two parts.

`RTC1_IRQHandler` walks over three slots; the callbacks of the two chains touch
disjoint state, so both effects are conjoined. `POWER_CLOCK_IRQHandler` handles
both events in one run. Each callback a handler calls is part of the handler's
action, as is `timer_reschedule` at the end of a chain.

A call through a NULL pointer is not modelled as an outcome: the handlers that do
not check (`RADIO_IRQHandler`, `ECB_IRQHandler`) have no disjunct for NULL, so the
system would stop there. `CallbackArmed` says the situation never arises, and TLC
checks deadlock in every run.

### The ring

A call that writes is cut where the other side can see it: the offsets are read
and the space computed (`Write`, `WriteSkip`, `PutCharSkip`, `BlockingRound`), the bytes
are copied (`Copy`), WrOff is stored (`PublishWrOff`). `SEGGER_RTT_PutChar` in blocking
mode waits between the first two, and `_WriteBlocking` goes round until nothing is
left. A read is cut into taking both offsets, the copy up to the end of the buffer,
the copy of the rest and the store to RdOff. WrOff is read again at places where the
reader's side cannot have changed it; the owner of an offset is the only one to
store to it, but for `SEGGER_RTT_WriteWithOverwriteNoLock`, which moves RdOff and is
therefore enabled only while nobody reads, as its note (3) asks. Bytes carry
consecutive numbers modulo `Numbers`, which makes one lost, repeated or overwritten
visible. The reader is `SEGGER_RTT_ReadUpBufferNoLock`, which its comment says does
what the probe does, or `SEGGER_RTT_ReadNoLock` with the probe as the writer.

### Payload, clock and counter

`Payload` puts together what decides whether the server listens: `RebootCounter` with
its power failures, and of `Timer` the slot of the payload chain, the counter and the
overflows. `RTC1_IRQHandler` first counts an overflow and then runs the chain;
`aes_callback_chain` therefore reads the clock as its caller has left it
(`overflow_seconds'`). `SecondsOf` is `timer_get_seconds` in unsigned words with its
0xFFFFFF ticks per overflow. A reset may come at any moment of a running tag and
clears RAM and RTC; `ticks` counts the true time since then. The server is the one
README.md:44-46 describes; what it does not receive is a `ServerHears` that is not
taken. `wrapped` and `cut` remember that 2^16 boots have passed and that power failed
between erase and write, after which the counter has really gone back.

### Terminals, printf and the log

`RttTerminal` stands on the queue that `RttRing` is shown to implement. Calls exclude
each other, so a write that cannot wait is one step; what `_WriteBlocking` still has
to write is `todo`, a byte per step, while the host reads. `SEGGER_RTT_TerminalOut`
writes all of its three parts that way even in the modes that do not wait, after one
look at the space. Bytes are known by their kind and the terminal they are for.

`RttPrintf` formats one conversion per call: between conversions `_StoreChar` keeps
only the fill of the buffer, and literal text, `%c` and `%%` go through it as the
characters of `%s` do. What is formatted touches nothing shared, so `Formatted` is an
operator: the loops of `_PrintUnsigned` (counting digits, finding the first one,
printing), and how `_PrintInt` shares the field with it. The writes are actions: with
every full buffer, and once at the end, when the result is ignored. `Documented`
says the same from the notes of `SEGGER_RTT_printf`, by another way.

`RttLog` lets a handler in at any point of main's call where the lock does not keep
it out. A handler runs to its end, since no interrupt preempts another. A write is
cut at the look at the space, the read of WrOff, the copy and the store to WrOff. The
longest line of main has 61 bytes (main.c:84) and fits printf's buffer of 64; that of
a handler has 77 (aes_callback_chain.c:58) and takes two writes. `MainLengths` and
`HandlerLengths` say so. `MainLengths` is not empty: in the model the cells that were
never written hold a byte of main.

### The peripherals and their timing

Peripherals take as long as they like, except for what follows.

* `BootIsOver`: no tick before `main` sleeps and the first IV has been drawn. The boot
  takes a few ms from the moment the RTC is started, a tick 125.
* `JobFits`: when a slot fires, its own previous job has ended: the round, or the
  encryption. Both take milliseconds and a slot comes round after a second or more.
  The generator is not asked. The payload slot is re-armed when the encryption ends,
  and the RNG goes on collecting the bytes of the next IV meanwhile.
* `CollectTicks`: how many ticks may pass while the RNG collects (`rngAge` counts them). Eight
  bytes take about 5 ms, so at most one tick can fall into that time. That a slot may
  fire while bytes are missing is up to the code; `IntervalsFit` says no more than that
  `CollectTicks` is less than the 240 ticks of the interval.
* `HandlerFits`: a handler for one tick (1/8 s) is over before the next.
* `RngOverrun` FALSE: no random byte gets ready inside `RNG_IRQHandler`. The
  generator needs hundreds of microseconds per byte, the handler a few, unless a
  `LOG` build prints in it. The run `tag_overrun` sets it TRUE.
* `onTime` is a record of the past and restricts nothing. It is TRUE as long as every tick
  found both jobs and the collecting over, every start of the crystal oscillator found
  the encryption over, and the last byte of an IV found `main` asleep. Hardware that is
  late makes it FALSE for good and the system goes on. Only `OnAirValid` speaks of it.
* Each LFCLKSTART leads to its own LFCLKSTARTED, also when the clock was running.

`XtalPresent` says whether the 32 kHz crystal oscillates. The polling loop may run
out at any time, also when `started` is set: the flag is not `volatile`, so the
compiler may read it once.

## What the runs show

| Run | Instance | Result |
|---|---|---|
| `tag` | crystal present, 2 ticks per second, counter of 5, 2 bytes per IV, intervals of 2 and 1 seconds, `FairSpec` | no NULL call, no lost callback, oscillator and heap given back, slots armed ahead, no write behind `value`, no byte in two IVs; as long as the tag is on time every packet on air has its full length, an IV, and the block of this IV; packets on every channel for ever, the IV is replaced for ever, and the tag implements `Beacon` |
| `payload` | word of 3 bits, a payload counter of 4 values, RTC of 6 ticks a turn and 2 a second, interval 2 s, time in a word of 20; power fails anywhere in the init, resets at any time | only an erased word is written, and a running tag has read access only; boots are counted unless power failed between erase and write; each block is newer than the last one and than all the server knows |
| `rtt_ring` | buffer of 4, calls of up to 5 bytes, all modes, `RunningSpec` | the ring is a queue of 3 bytes; unread bytes do not change; a reader holds a prefix of the queue; no message is cut in skip mode; without a reader every call returns that was not asked to block, with one every call |
| `rtt_log` | buffer of 5, printf buffer of 2, lines of 2 in main and of 1 and 3 in the handler, a lock that masks all | no line has a part of another in it; nothing in the ring changes before it is read |
| `rtt_printf` | ring of 6 bytes, printf buffer of 3, two terminals, all modes, words of 8 bits | text is shown on its terminal; the host ends on the active one; only blocking mode waits; printf stores the documented text up to the first refusal |
| `tag_xtal` | violation | the RC source is taken with a working crystal; clock.c:116 says only without |
| `tag_overrun` | violation | a byte ready between acknowledgement and stop is stored in `value[8]`; random.c:13 says IVs have 8 bytes |
| `reboot_lost` | violation | power fails during the erase of the second boot, with the word erased already, and the next boot counts as the first; README.md:30 says it counts the resets |
| `payload_time` | violation | after an overflow of the RTC the seconds are too few: timer.c:76 counts 0xFFFFFF ticks per turn; README.md:33 says "Time in seconds since last boot" |
| `printf_result` | violation | a call that fits into printf's buffer returns twice the number of bytes stored; SEGGER_RTT_printf.c:319 says a result of 0 or more is that number |
| `rtt_lock` | violation | with BASEPRI 0x20 a handler at priority 0 writes inside a write of main and two lines mix; SEGGER_RTT_Conf.h:133 says this must not happen |
| `rtt_overwrite` | violation | a message that wraps twice leaves the buffer empty; SEGGER_RTT.c:858 says it writes all data over several wrap-arounds |

`ArmedAhead` and `IvFresh` tie steps of several handlers together. A slot must lie
ahead of the counter by at most its interval although the counter wraps; a compare
value equal to or behind the counter would silence a chain for 24 days. `IvFresh`
is about the race of the payload slot with the generator. Both are set going by the
same chain, the generator when the IV is drawn, the slot when the encryption ends,
and `aes_callback_chain` does not ask whether eight new bytes have arrived. What
keeps the slot behind the bytes is that it is armed a whole interval ahead, never
less, and that no other path arms it while they are collected; a slot armed too short
draws an IV with old bytes. TLC finds that of a `timer_reschedule` that takes the
interval for ticks in place of seconds.

`BlocksGetNewer` needs the order of `RTC1_IRQHandler`: an overflow and a due slot come
with the same tick, and a chain that read the clock first would send a time that is
a turn too old. That the clock itself loses a tick with every turn, an eighth of a second
in 24 days, `payload_time` shows; `BlocksGetNewer` holds all the same, since the tick lost
is less than an interval. `CountedTicks` is the time as the code counts it.

`printf_result` has a call in which nothing goes wrong. When the ring refuses the last
partial buffer the result is no better: it counts that buffer twice and not stored
(SEGGER_RTT_printf.c:458-460), so that not even its sign says whether all of the text
has been taken.

Two more places where a document and the code differ have no run: README.md:5 says a
tag advertises every 3 seconds, the code registers the slot with 1 second
(ble_callback_chain.c:74); SEGGER_RTT.c:2068 says the number of used bytes, and
`SEGGER_RTT_GetBytesInBuffer` adds a distance it should subtract when the content goes
around the end of the buffer (line 2091).

Of a tag that is late, `OnAirValid` would not hold: a late encryption can exchange
the payload under a packet being sent, and `main`'s placeholder can overwrite the
first IV. Both need peripherals far slower or a `main` far later than the real
ones; the source has no guard of its own against either, so the property rests on
the timing and `onTime` says so. All other properties of the run speak of late tags,
too: by `IvRolls` an overwritten first IV is replaced by the next.

### Bounds

* `CounterMod` 5 in place of 2^24: larger than the longest interval in ticks, as in the
  code, no multiple of either, and small enough that the run wraps many times.
* `RTC_FREQUENCY` 2 in place of 8, `BleInterval` 2 and `AesInterval` 1 in place of 1 and 30: the
  slots fire alone and together, in either order after the wrap. The payload chain has
  the shorter interval here, which brings its slot as near to the generator as
  `IntervalsFit` allows: 2 ticks, with `CollectTicks` 1.
* `IvBytes` 2 in place of 8: a first, a last byte and the step between.
* `IvTags` 2: the IV in the packet and the next. Tags repeat, which can hide a
  mix-up of an IV with the one two before; at most one encryption is outstanding
  (`HeapBalanced`), so the two never coexist.
* `OvfMod` 1 in the runs of the tag: no property of theirs looks at `overflow_seconds`;
  those of `payload` do, with a word of 20.
* `Erased` 7 in place of 0xFFFFFFFF: a word of 3 bits, all of whose values are reachable. An
  erase that is cut leaves some more bits set, a write that is cut some of the bits
  cleared it was to clear.
* In `payload`, `CounterMod` 6, `BootMod` 4, `WordMod` 20 and `MaxTicks` 26: four turns of the
  counter without a reset, several wraps of the counter in the payload, and a word
  for the time that overflows before the bound. `CounterMod` is no multiple of the
  interval, so slots come due before, at and after an overflow.
* In `rtt_printf`, a ring of 6 and a buffer of 3 characters: a conversion takes none, one
  or two full buffers and a partial one, and each may find room for all, a part or
  nothing. `Values` are -100, -9, 0 and 16: one to three digits in either base and either
  sign. `Widths` exceed them or say nothing, `Precisions` are none, the 2 that every caller
  uses, and 3, all the digits a word of 8 bits can have; strings have up to 7 characters,
  texts that are not printf's up to 2. A call may begin at any moment, also while a
  switch is on its way. -2^31 is left out (its negation is undefined in C), and so are
  precisions beyond the digits of a word, where `Digit` overflows and the code divides
  by zero.
* In `rtt_log`, a buffer that holds two lines of main or a long line of the handler and
  one byte, so that each write is refused or accepted by what the other left.
* `SizeOfBuffer` 4: a first, a last and middle cells, and one that is free when the
  buffer is full. `MaxBytes` at least the size, so that a message may fit, fit
  only around the end, fit exactly, or never fit. `ReadSizes` from one byte to more
  than there can be. `Numbers` one more than the size, so that a byte and the one
  that replaces it differ.
* `MaxOverwrite` below the size where the ring is to be a queue: a longer message
  passes its own beginning, which `rtt_overwrite` looks at with twice the size.

### Fairness

`FairSpec` asks weak fairness of `main`, of every handler and of every peripheral.
`main` and handlers are one processor that always runs something that is pending;
a pending interrupt stays pending until it is served, and weak fairness per
handler says no storm of others starves it, which the rates justify (one byte,
one tick, three packets a second). A peripheral finishes what it was started for.
`HwTick` waits for the jobs its guard names, and these end under the same fairness.
Nothing is assumed of the crystal behind the 32 kHz clock: `HwLfclk` is fair only with
the RC source selected. The run has behaviours in which the crystal starts early, late
and never, and in the last only the fallback gets the tag on. `Advertises` and
`IvRolls` hold in all of them.

`RunningSpec` asks weak fairness of the writer's steps, since a call that has begun
has the processor. It asks nothing of the reader: `NonBlockingReturns` is about the
tag without a probe. `CallsReturn` has the reader's fairness as its premise, a probe
that polls with some size above 0 and ends its reads.

## What is proved

`TagProofs` proves for every choice of the constants allowed by the assumptions in
`Clock`, `Timer`, `Random`, `Aes` and `Tag` (positive frequency, counter width,
intervals, IV length and number of tags; the Booleans free, so with and without a
crystal and `RngOverrun`). What the environment is trusted with is in the specification,
and named above: `BootIsOver`, `JobFits`, `HandlerFits`, `CollectTicks`.

* `TypeCorrect`: `Spec => []TypeOK`. Among the integers the `% CounterMod` in
  `timer_add` and `timer_reschedule` matters; among the pointers, that each holds
  only callbacks of its own event.
* `CallbackInvariant`: `Spec => []CallbackInv`, the inductive invariant. None of the
  properties below is inductive: `CallbackArmed` for instance needs that a
  DISABLED event arises only from a started radio, that the radio is started only
  with a callback, and that `ble_timerEventDoneCB` was stored when the round
  began. `CallbackInv` has four named parts. `BootInv` relates `mainpc`, the
  32 kHz clock, `onInitCB`, the counter and the slots: the timers exist exactly
  once the init callback has run. `RoundInv` relates the two pointers of a round
  to oscillator and radio: exactly one link of the chain is alive, or none.
  `PayloadInv` does it for RNG, ECB, `isr` and the heap. `CompareInv` says that a
  compare event comes after the boot and belongs to a slot whose job is not
  outstanding, which is what keeps a round from being started inside another.
* `CallbacksAreArmed`, `CallbacksAreAwaited`, `OscillatorOnlyInRounds`,
  `HeapStaysBalanced`: consequences of it.

`TagTimerProofs` builds on it, with the further assumption `IntervalsFit` that an interval
is shorter than a turn of the counter (240 ticks against 2^24) and longer than the RNG
needs for its bytes:

* `SlotsAreArmedAhead`: `Spec => []ArmedAhead`. Its invariant `ArmedInv` says of the time
  before the registration that nothing a round or a re-arming could come from is there
  (`IdleInv`), and afterwards whose slot is whose (`SlotsInv`) and that a slot is armed
  unless its chain is going to re-arm it: the BLE chain whenever the oscillator is on,
  the payload chain during an encryption but the first, which nobody waits for. Under it
  lie two lemmas about the counter, `SetAhead` and `TickNearer`: a compare value set k
  ticks past the counter is k ticks ahead also across the wrap, and a tick that does
  not reach it brings it one nearer.
* `BytesInBounds`: without `RngOverrun` the bytes stay inside `value`. `BytesInv`: the generator
  stops with the last byte and not before, and while it runs outside its handler there
  is room for one more.
* `IvsAreFresh`: without `RngOverrun` every IV is drawn from new bytes, although the slot that
  draws it is armed while they are still missing. `FreshInv` follows the race through its
  steps. `CollectsInTime`: while bytes are collected the slot has not fired, and unless
  the encryption is still to re-arm it, it lies further ahead than collecting may yet
  take. A tick takes one off both sides. `BootWaits` is the start: until the boot is over
  the slot has its whole interval before it, and the encryption of the boot re-arms none.

`TagRoundProofs` builds on both:

* `TagImplementsBeacon`: `Spec` implies `Abstract!BeaconInit` and
  `[][Abstract!BeaconNext]`, the safety part of `ImplementsBeacon`. `PhaseTable` reads off
  the invariants what the phase of the beacon is in every place a round can be in; then
  each action is a step of the beacon or none, the actions that touch neither clock,
  timer nor radio by one lemma (`PhaseFrame`). That no round precedes the registration
  of the slots, which `IdleInv` says, is what the step out of "boot" needs.
* `PacketsAreValid`: `Spec => []OnAirValid`. The inductive invariant is `onTime => AirInv`, and a
  tag that is late stays late (`LateForGood`). `AirInv` says what each part of being on time
  is good for: `BytesLate`, that main is done before the last byte of the first IV;
  `FiredLate`, that a slot fires only when main and both jobs are over; `EncryptionLate`,
  that an encryption is that of the IV drawn last and is over before the crystal runs;
  `PduValid`, that otherwise block and IV in `adv_pdu` belong together; `OnAir`, that no round
  begins before the boot is over.

`PayloadProofs` proves three things of the clock that must not go back, for every width of
counter and words and any number of ticks:

* about the flash, with power failures anywhere, `FlashDisciplineHolds` and
  `BootsAreCounted` (on the helpers `RebootTypeCorrect` and `DisciplineInvariant`): unless
  power failed between the start of an erase and the end of the write, the counter is
  the number of boots. `CountInv` says where in the init the number of boots is still in
  the flash and where only in RAM.
* `TimeLagsATickPerTurn`: how far the clock is from what `payload_time` asks of it. As long as
  a word can hold them, the seconds are those of `CountedTicks`, a tick less per turn, and
  nothing else is lost. `ClockInv`: COUNTER is the ticks modulo the turn, and
  `overflow_seconds` the turns but for one that is still pending. The word of the product
  does not overflow before the time itself does, since a turn has at least two ticks
  (`TurnsLeave`).
* `BlocksAreNewer`: `PayloadSpec => BlocksGetNewer`. `PayloadCountsBoots` first brings the
  theorems of the reboot counter here: a step of `PayloadSpec` is one of `RebootSpec` or
  leaves its variables alone. `PayloadInv` has four parts. `ChainInv` places the chain
  between boot, RTC and blocks. `SlotInv`: unless an encryption is to re-arm it, the slot
  fires at a definite tick less than a turn away, which lies in a later second than the
  published block. It needs arithmetic about rounding, that ticks an interval apart are
  seconds apart although a tick is lost with every turn (`SecondsApart`). `BlockInv`: what is
  encrypted is newer than what is published, and neither is ahead of the time.
  `KnownInv`: the server knows no later boot and of this one nothing newer than what is
  published. While it was proved `BlockInv` turned out to say too little: the first block
  is published before a slot exists, so that it is not ahead of the time has to be said
  of the block itself and not only by way of the slot.

`RttRingProofs` proves for every size of the buffer, of the messages and of the
reader's buffer, as long as every overwriting message is shorter than the buffer:

* `RingInvariant`: `RingSpec => []RingInv`. Neither offset says what the other side is
  about to do, so `RingInv` speaks of the locals: `WriterInv`, that the bytes of the
  writer's round fit into what is free now (the reader can only have freed more since
  the writer looked); `ReaderInv`, that the reader's offsets lie within what is
  visible and its own RdOff is ahead of the ring's by what it has copied, also when
  its buffer was full before the end of the ring; `CopiedInv`, that what it copied is
  still there.
* `RingTypeCorrect`, `ReadsArePrefixes`, `UnreadStaysUntouched`: consequences. They rest on
  lemmas about offsets: visible and free cells make up the buffer but for one, and a
  visible cell lies behind the free ones, seen from the writer.
* `RingImplementsFifo`: `RingSpec => ImplementsFifo`, and `MessagesAreWhole`. They need of
  the writer what `RingInv` does not say: that the bytes it has copied and not published
  carry the next numbers (`StoredInv`), and that outside blocking mode one copy is all of
  a call, in skip mode the message as it was passed (`CallInv`). The first form of
  `CallInv`, one copy in skip mode, was not inductive: the mode of the call before
  decides too, so it speaks of all modes that do not block. Then the store to WrOff is a
  put of the whole copy, the store to RdOff a take, an overwriting message a put that
  drops the oldest bytes, and every other step changes nothing of the queue.

`RttTerminalProofs` proves for every size of the ring, every set of terminals and texts of
every length:

* `TerminalTypeCorrect` and `NobodyWaits`: outside blocking mode what is in the ring
  and what a call has still to write fit together. The two need each other, since
  the mode can change only between calls, when nothing is left to write.
* `TextIsShownWhereMeant` and `HostEndsOnActive`: consequences of `ShownInv`, that the
  bytes on their way, read from where the host is now, lead it to `ActiveTerminal`.
  `ShownInv` adds what neither property says: that a number comes after each 0xFF and
  nowhere else, counting the 0xFF the host has read. So a host in the middle of a switch
  is still led right, and the bytes of one more call can be appended.

The steps are taken for texts of any length (`AnyNext`), so that they hold for `printf` as
a caller too.

`RttPrintfProofs` proves for words and buffers of any size and every argument, flag, width
and precision that `Conversions` admits, with `PointerAssumption`, that %p prints no more
digits than a word has (8 of 32 bits):

* `FormattedAsDocumented`: what `_PrintUnsigned` and `_PrintInt` store is what the notes say.
  `DigitsOfIs`: the first loop counts the digits. `DigitAfterIs` and `FirstDigitIs`: the
  second one ends, with the weight of the first digit, and `Digit` does not overflow on
  the way as long as a word holds that weight; this is where the precision must fit.
  `DigitsFromIs`: the third one prints the digits. `IntAsDocumented`: `_PrintInt` and
  `_PrintUnsigned` never both fill the field, and none of it twice.
* `TextIsDocumented`: `PrintfSpec => []StoredIsPrefix`. The invariant `TextInv` says that what was
  taken and what is left are the documented text, until a write is cut.
* `ResultCountsTwice`: what the result is in place of the number of bytes stored that
  `printf_result` asks for. A negative one means that text was lost; any other is the
  length of the text and once more that of the last, partial buffer, whether the ring
  has taken that or not.
* `TerminalsWithPrintf`: the theorems of `RttTerminalProofs` with printf as a caller, at any
  moment, also while a switch is on its way.

The loops are recursions over numbers. The library's induction takes an operator as a
parameter, which the provers cannot instantiate, so the module has its own, over sets:
`LeastNumber`, from the fact that < is well-founded, and from it `Induction`,
`StrongInduction`, and `RecursionUnique` and `Recursion`, that a recursion which descends
defines one function. `RttPrintf` writes its loops as functions of one argument inside an
operator for this reason, and `Power` in place of ^, of which the provers know nothing.

`RttLogProofs` proves for every size of the buffers and all lengths of lines:

* `LogTypes`: `LogSpec => []LogTypeOK`, with or without a lock that masks the handlers.
* `LinesStayWhole` and `UnreadStays`: if `LockMasks` then `LogSpec => []LinesUnmixed` and
  `StaysUntilRead`. `LinesUnmixed` speaks of the bytes in the ring; `LogInv` adds what a call
  under the lock knows (`OwnInv`: the space it saw is still there, WrOff is where it read
  it, the bytes it copied are its own) and where lines may meet: the newest byte ends a
  line or a full printf buffer (`MayEnd`). A handler's long line takes several writes
  with the lock given back in between; that nobody gets between them is `Alone`: who is
  under way without the lock is the handler, which nobody interrupts, or main with
  nothing written yet. Without `LockMasks` the run `rtt_lock` shows the opposite.

The proofs of preservation have a step per action of `Next` and, below it, a step
per part of the invariant.

Every safety property of the passing runs is proved, under the assumptions named above.
Only model-checked are the liveness properties, which are beyond the prover: `Advertises`,
`IvRolls` and the fairness part of `ImplementsBeacon` in `tag`, `NonBlockingReturns` and
`CallsReturn` in `rtt_ring`. TLC also evaluates ENABLED, which the prover does not: that the
system does not deadlock. `PrintfSpec` and `TerminalSpec` stand on the abstract queue, and
`RingImplementsFifo` is what connects them with the ring; the composition of the two is
not a theorem of its own.

## What is not modelled

* The CTTO branch of `POWER_CLOCK_IRQHandler`. EVENTS_CTTO rises only after
  TASKS_CTSTART, and the only TASKS_CTSTART is inside that branch, so the branch
  is never entered and the calibration it contains never happens.
* The bytes of IV, payload and packet; register settings that are written once.
* `pwr_mgmt.c`: constant register writes, no state.
* Of the RTT, which the release build leaves out: further buffers (`Alloc`, `Config`,
  `SetName`), which no code here asks for; `GetKey`, `WaitKey` and `HasKey`, one-byte
  reads through `SEGGER_RTT_Read`; the first call racing `_DoInit`, which cannot happen:
  main logs (main.c:55) before it enables an interrupt. The bytes of a copy are not
  ordered among each other: nobody may look at them before WrOff says so, and
  `UnreadUntouched` shows that nobody is harmed.
* Cores other than the two of the nRF51 and the nRF52 in SEGGER_RTT_Conf.h.

## Plan

The safety properties are theorems. What could follow, in this order:

* the pieces on which liveness rests, as action properties: that a chain which has
  lost its slot always has a handler to come, so that `tag` needs the fairness and
  nothing else; that a call which does not block needs no more than a number of its own
  steps to return;
* the composition of `RttTerminal` with `RttRing` in place of the queue.

Of the code only the further buffers of the RTT could still be modelled; a firmware
that used them would make `_DoInit` and `SEGGER_RTT_AllocUpBuffer` worth a module.
