-------------------------------- MODULE Clock --------------------------------
(* clock.c and the CLOCK peripheral: the 32 kHz clock LFCLK the RTC runs on   *)
(* and the 64 MHz crystal HFCLK the radio needs.                              *)
(*                                                                            *)
(* The CTTO branch of POWER_CLOCK_IRQHandler is not here: EVENTS_CTTO rises   *)
(* only once TASKS_CTSTART is triggered, and the only trigger is inside that  *)
(* branch, so no run of the tag enters it.                                    *)
EXTENDS Callbacks

CONSTANT XtalPresent      \* the 32 kHz crystal of the board oscillates

ASSUME XtalPresentAssumption == XtalPresent \in BOOLEAN

VARIABLES
  lfclk,                  \* "off", "starting" or "running"
  LFCLKSRC,               \* the selected source: "Xtal" or "RC"
  EVENTS_LFCLKSTARTED,
  started,                \* clock.c's flag, set by the interrupt handler
  onInitCB,
  hfclk,                  \* "off", "starting" or "running"
  EVENTS_HFCLKSTARTED,
  onHFCLKStartedCB

lfVars == <<lfclk, LFCLKSRC, EVENTS_LFCLKSTARTED, started, onInitCB>>
hfVars == <<hfclk, EVENTS_HFCLKSTARTED, onHFCLKStartedCB>>
clockVars == <<lfVars, hfVars>>

OscillatorStates == {"off", "starting", "running"}

ClockTypeOK ==
  /\ lfclk \in OscillatorStates
  /\ LFCLKSRC \in {"Xtal", "RC"}
  /\ EVENTS_LFCLKSTARTED \in BOOLEAN
  /\ started \in BOOLEAN
  /\ onInitCB \in InitCallbacks
  /\ hfclk \in OscillatorStates
  /\ EVENTS_HFCLKSTARTED \in BOOLEAN
  /\ onHFCLKStartedCB \in HFCLKStartedCallbacks

(* After reset: LFCLKSRC holds its reset value, RC. *)
ClockInit ==
  /\ lfclk = "off"
  /\ LFCLKSRC = "RC"
  /\ EVENTS_LFCLKSTARTED = FALSE
  /\ started = FALSE
  /\ onInitCB = NULL
  /\ hfclk = "off"
  /\ EVENTS_HFCLKSTARTED = FALSE
  /\ onHFCLKStartedCB = NULL

------------------------------------------------------------------------------
(* clock_init up to the polling loop: register the callback, select the       *)
(* crystal, clear the event and trigger the start.                            *)
clock_init(cb) ==
  /\ onInitCB' = cb
  /\ LFCLKSRC' = "Xtal"
  /\ EVENTS_LFCLKSTARTED' = FALSE
  /\ lfclk' = "starting"
  /\ UNCHANGED <<started, hfVars>>

(* Mutant: the event is cleared but the clock is not started again.           *)
MutantNoRestart ==
  /\ LFCLKSRC' = "RC"
  /\ EVENTS_LFCLKSTARTED' = FALSE
  /\ lfclk' = IF lfclk = "running" THEN lfclk ELSE "starting"
  /\ UNCHANGED <<started, onInitCB, hfVars>>

(* Mutant: the clock is started again, but with the source it had.            *)
MutantKeepXtal ==
  /\ EVENTS_LFCLKSTARTED' = FALSE
  /\ lfclk' = "starting"
  /\ UNCHANGED <<LFCLKSRC, started, onInitCB, hfVars>>

(* clock_init after the polling loop ran out: restart with the RC source.     *)
(* The event is cleared here although the interrupt may just have set it.     *)
clock_init_fallback ==
  /\ LFCLKSRC' = "RC"
  /\ EVENTS_LFCLKSTARTED' = FALSE
  /\ lfclk' = "starting"
  /\ UNCHANGED <<started, onInitCB, hfVars>>

(* clock_start_hf; the caller's other variables are unchanged by it.          *)
clock_start_hf(cb) ==
  /\ onHFCLKStartedCB' = cb
  /\ hfclk' = "starting"
  /\ UNCHANGED <<lfVars, EVENTS_HFCLKSTARTED>>

(* Mutant: the callback is run but the oscillator is left on.                 *)
MutantKeepHfclk == UNCHANGED clockVars

(* clock_stop_hf without the callback, which its caller composes.             *)
clock_stop_hf ==
  /\ hfclk' = "off"
  /\ UNCHANGED <<lfVars, EVENTS_HFCLKSTARTED, onHFCLKStartedCB>>

------------------------------------------------------------------------------
(* The oscillators.  A started LFCLK raises LFCLKSTARTED, from the crystal    *)
(* only when there is one; HFCLK raises HFCLKSTARTED when the crystal runs.   *)
LfclkStarts ==
  /\ lfclk = "starting"
  /\ LFCLKSRC = "Xtal" => XtalPresent
  /\ lfclk' = "running"
  /\ EVENTS_LFCLKSTARTED' = TRUE
  /\ UNCHANGED <<LFCLKSRC, started, onInitCB, hfVars>>

HfclkStarts ==
  /\ hfclk = "starting"
  /\ hfclk' = "running"
  /\ EVENTS_HFCLKSTARTED' = TRUE
  /\ UNCHANGED <<lfVars, onHFCLKStartedCB>>

==============================================================================
