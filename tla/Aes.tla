--------------------------------- MODULE Aes ---------------------------------
(* aes.c and the ECB peripheral: one block is encrypted at a time, from and   *)
(* into a structure on the heap that the interrupt handler frees.             *)
EXTENDS Callbacks, Integers

CONSTANT IvTags           \* IVs are told apart by tags 1 .. IvTags; 0: none

ASSUME AesAssumption == IvTags \in Nat \ {0}

VARIABLES
  ecb,                    \* "idle" or "busy"
  EVENTS_ENDECB,
  ecbIrq,                 \* aes_init has enabled the interrupt
  onECBDoneCB,
  ecb_data,               \* the IV tag of the block ECBDATAPTR points to
  ecbBlocks               \* ecb_data structures allocated and not yet freed

aesVars == <<ecb, EVENTS_ENDECB, ecbIrq, onECBDoneCB, ecb_data, ecbBlocks>>

Tags == 0..IvTags

AesTypeOK ==
  /\ ecb \in {"idle", "busy"}
  /\ EVENTS_ENDECB \in BOOLEAN
  /\ ecbIrq \in BOOLEAN
  /\ onECBDoneCB \in ECBDoneCallbacks
  /\ ecb_data \in Tags
  /\ ecbBlocks \in Int

AesInit ==
  /\ ecb = "idle"
  /\ EVENTS_ENDECB = FALSE
  /\ ecbIrq = FALSE
  /\ onECBDoneCB = NULL
  /\ ecb_data = 0
  /\ ecbBlocks = 0

------------------------------------------------------------------------------
aes_init ==
  /\ ecbIrq' = TRUE
  /\ UNCHANGED <<ecb, EVENTS_ENDECB, onECBDoneCB, ecb_data, ecbBlocks>>

(* aes_encrypt of the payload whitened with the IV of the given tag.          *)
aes_encrypt(tag, cb) ==
  /\ onECBDoneCB' = cb
  /\ ecb_data' = tag
  /\ ecbBlocks' = ecbBlocks + 1
  /\ ecb' = "busy"
  /\ UNCHANGED <<EVENTS_ENDECB, ecbIrq>>

(* The ECB peripheral finishes the block.                                     *)
EncryptionEnds ==
  /\ ecb = "busy"
  /\ ecb' = "idle"
  /\ EVENTS_ENDECB' = TRUE
  /\ UNCHANGED <<ecbIrq, onECBDoneCB, ecb_data, ecbBlocks>>

==============================================================================
