------------------------------- MODULE Random --------------------------------
(* random.c and the RNG peripheral: the IV bytes are collected one interrupt  *)
(* at a time into value[0 .. IvBytes - 1], after which the RNG is stopped.    *)
(* The bytes themselves are not kept, only how many were written.             *)
EXTENDS Callbacks, Integers

CONSTANTS
  IvBytes,                \* 8 in random.c
  RngOverrun,             \* a byte may become ready inside the handler
  CollectTicks            \* ticks of RTC1 that may pass while bytes are collected

ASSUME RandomAssumption ==
  /\ IvBytes \in Nat \ {0}
  /\ RngOverrun \in BOOLEAN
  /\ CollectTicks \in Nat

VARIABLES
  rng,                    \* "stopped" or "running"
  EVENTS_VALRDY,
  index,
  onFirstDataCB,
  rngAge                  \* ticks since the RNG was started, 0 while it is not

randomVars == <<rng, EVENTS_VALRDY, index, onFirstDataCB, rngAge>>

RandomTypeOK ==
  /\ rng \in {"stopped", "running"}
  /\ EVENTS_VALRDY \in BOOLEAN
  /\ index \in Nat
  /\ onFirstDataCB \in FirstDataCallbacks
  /\ rngAge \in 0..CollectTicks

RandomInit ==
  /\ rng = "stopped"
  /\ EVENTS_VALRDY = FALSE
  /\ index = 0
  /\ onFirstDataCB = NULL
  /\ rngAge = 0

------------------------------------------------------------------------------
random_init(cb) ==
  /\ onFirstDataCB' = cb
  /\ rng' = "running"
  /\ rngAge' = 0
  /\ UNCHANGED <<EVENTS_VALRDY, index>>

(* Mutant: collecting goes on behind the last byte.                           *)
MutantKeepIndex == rng' = "running" /\ rngAge' = 0 /\ UNCHANGED index

(* random_get: the copy it returns is the caller's; collecting starts again.  *)
random_get ==
  /\ index' = 0
  /\ rng' = "running"
  /\ rngAge' = 0

(* RNG_IRQHandler up to the comparison of index: acknowledge and store.       *)
RNG_store ==
  /\ EVENTS_VALRDY
  /\ EVENTS_VALRDY' = FALSE
  /\ index' = index + 1
  /\ UNCHANGED <<rng, onFirstDataCB, rngAge>>

------------------------------------------------------------------------------
(* The RNG: a running generator has a byte ready.                             *)
ByteReady ==
  /\ rng = "running"
  /\ ~EVENTS_VALRDY
  /\ EVENTS_VALRDY' = TRUE
  /\ UNCHANGED <<rng, index, onFirstDataCB, rngAge>>

(* A tick passes: a running generator has had one more, and never more than   *)
(* it takes to collect the bytes.                                             *)
RngTicks ==
  /\ rng = "running" => rngAge < CollectTicks
  /\ rngAge' = IF rng = "running" THEN rngAge + 1 ELSE rngAge
  /\ UNCHANGED <<rng, EVENTS_VALRDY, index, onFirstDataCB>>

==============================================================================
