---------------------------- MODULE RebootCounter ----------------------------
(* reboot_counter.c and the NVMC: at every boot the word UICR.CUSTOMER[0] is  *)
(* read, the UICR is erased, and the word is written back one higher.  Flash  *)
(* outlives a reset; erasing sets every bit of a word, writing only clears    *)
(* bits, and a power failure may leave either half done.                      *)
EXTENDS Integers

CONSTANTS
  WordBits,               \* 32 in the UICR
  Erased,                 \* the erased word, all ones: 0xFFFFFFFF
  PowerFailsInInit        \* power may fail while reboot_counter_init runs

ASSUME RebootAssumption ==
  /\ Erased \in Nat \ {0}
  /\ PowerFailsInInit \in BOOLEAN

ASSUME ErasedAssumption == WordBits \in Nat /\ Erased = 2^WordBits - 1

VARIABLES
  CUSTOMER0,              \* NRF_UICR->CUSTOMER[0]
  CONFIG,                 \* NRF_NVMC->CONFIG: "Ren", "Een" or "Wen"
  pc,                     \* what reboot_counter_init does next
  value,                  \* its local variable; any word after a reset
  boots,                  \* how often it wrote the new count, modulo Erased
  cut                     \* power has failed between the erase and this write

rebootVars == <<CUSTOMER0, CONFIG, pc, value, boots, cut>>

Words == 0..Erased
BitsOf(word) == {i \in 0..(WordBits - 1) : (word \div 2^i) % 2 = 1}

InitSteps == {"read", "enable_erase", "erase", "erasing", "enable_write",
              "write", "writing", "read_only"}

RebootTypeOK ==
  /\ CUSTOMER0 \in Words
  /\ CONFIG \in {"Ren", "Een", "Wen"}
  /\ pc \in InitSteps \union {"booted"}
  /\ value \in Words
  /\ boots \in 0..(Erased - 1)
  /\ cut \in BOOLEAN

(* A factory-fresh tag: an erased UICR.                                       *)
RebootInit ==
  /\ CUSTOMER0 = Erased
  /\ CONFIG = "Ren"
  /\ pc = "read"
  /\ value = 0
  /\ boots = 0
  /\ cut = FALSE

Step(from, to) == pc = from /\ pc' = to

------------------------------------------------------------------------------
(* Mutant: the erased word is taken for a count.                              *)
MutantRawGet == CUSTOMER0

(* An erased word counts as 0.                                                *)
reboot_counter_get == IF CUSTOMER0 = Erased THEN 0 ELSE CUSTOMER0

ReadOldValue ==
  /\ Step("read", "enable_erase")
  /\ value' = reboot_counter_get
  /\ UNCHANGED <<CUSTOMER0, CONFIG, boots, cut>>

(* Mutant: the erase is skipped.                                              *)
MutantSkipErase ==
  /\ Step("enable_erase", "enable_write")
  /\ UNCHANGED <<CUSTOMER0, CONFIG, value, boots, cut>>

EnableErase ==
  /\ Step("enable_erase", "erase")
  /\ CONFIG' = "Een"
  /\ UNCHANGED <<CUSTOMER0, value, boots, cut>>

StartErase ==
  /\ Step("erase", "erasing")
  /\ UNCHANGED <<CUSTOMER0, CONFIG, value, boots, cut>>

(* The NVMC erases and writes only with the access CONFIG asks for.           *)
EraseDone ==
  /\ Step("erasing", "enable_write")
  /\ CUSTOMER0' = IF CONFIG = "Een" THEN Erased ELSE CUSTOMER0
  /\ UNCHANGED <<CONFIG, value, boots, cut>>

(* Write access is enabled and value, a uint32_t, incremented.                *)
EnableWrite ==
  /\ Step("enable_write", "write")
  /\ CONFIG' = "Wen"
  /\ value' = (value + 1) % (Erased + 1)
  /\ UNCHANGED <<CUSTOMER0, boots, cut>>

StartWrite ==
  /\ Step("write", "writing")
  /\ UNCHANGED <<CUSTOMER0, CONFIG, value, boots, cut>>

(* An erased word takes the value; of another one the bits are cleared that   *)
(* the value has not.                                                         *)
WriteDone ==
  /\ Step("writing", "read_only")
  /\ CUSTOMER0' \in
       IF CONFIG # "Wen" THEN {CUSTOMER0}
       ELSE IF CUSTOMER0 = Erased THEN {value}
       ELSE {w \in Words : BitsOf(w) = BitsOf(CUSTOMER0) \cap BitsOf(value)}
  /\ boots' = (boots + 1) % Erased
  /\ UNCHANGED <<CONFIG, value, cut>>

MakeReadOnly ==
  /\ Step("read_only", "booted")
  /\ CONFIG' = "Ren"
  /\ UNCHANGED <<CUSTOMER0, value, boots, cut>>

------------------------------------------------------------------------------
(* A reset, of a running tag or, when power fails, anywhere in the init.      *)
Restart ==
  /\ pc' = "read"
  /\ CONFIG' = "Ren"
  /\ value' \in Words
  /\ UNCHANGED boots

Reset == pc = "booted" /\ Restart /\ UNCHANGED <<CUSTOMER0, cut>>

(* An erase that is cut has set some of the word's bits, a write has cleared  *)
(* some of those it was to clear.                                             *)
CutErase == {w \in Words : BitsOf(CUSTOMER0) \subseteq BitsOf(w)}

CutWrite ==
  {w \in Words : /\ BitsOf(w) \subseteq BitsOf(CUSTOMER0)
                 /\ BitsOf(CUSTOMER0) \cap BitsOf(value) \subseteq BitsOf(w)}

PowerFails ==
  /\ PowerFailsInInit
  /\ pc \in InitSteps
  /\ Restart
  /\ cut' = (cut \/ pc \in {"erasing", "enable_write", "write", "writing"})
  /\ \/ pc \notin {"erasing", "writing"} /\ UNCHANGED CUSTOMER0
     \/ pc = "erasing" /\ CUSTOMER0' \in CutErase
     \/ pc = "writing" /\ CUSTOMER0' \in CutWrite

RebootNext ==
  \/ ReadOldValue \/ EnableErase \/ StartErase \/ EraseDone
  \/ EnableWrite \/ StartWrite \/ WriteDone \/ MakeReadOnly
  \/ Reset \/ PowerFails

RebootSpec == RebootInit /\ [][RebootNext]_rebootVars

------------------------------------------------------------------------------
(* The counter a running tag reports is the number of its boots, modulo the   *)
(* one word the code cannot store: after Erased boots the word reads as 0 and *)
(* the next boot is number 1 again.  Power may fail anywhere but between the  *)
(* start of the erase and the end of the write (reboot_counter_init).         *)
CountsBoots == pc = "booted" /\ ~cut => reboot_counter_get = boots

(* A word is written only once it is erased and write access is on, also when *)
(* power failed anywhere before, and a running tag has read access only, so   *)
(* nothing it does can change its UICR (reboot_counter_init).                 *)
FlashDiscipline ==
  /\ pc = "writing" => CUSTOMER0 = Erased /\ CONFIG = "Wen"
  /\ pc = "erasing" => CONFIG = "Een"
  /\ pc = "booted" => CONFIG = "Ren"

(* "Counter for how often this tag has been reset" (README.md): the counter   *)
(* of a running tag is not below the number of its boots.                     *)
CounterKeepsUp == pc = "booted" => reboot_counter_get >= boots

==============================================================================
