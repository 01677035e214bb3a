-------------------------------- MODULE RttLog --------------------------------
(* The log of a debug build: main and the interrupt handlers print lines with *)
(* SEGGER_RTT_printf into up buffer 0, in the mode that skips what does not   *)
(* fit.  A line is formatted into a buffer of the call's own and handed on    *)
(* with SEGGER_RTT_Write whenever that is full, and once at the end.          *)
(*                                                                            *)
(* All interrupts have priority 0, so a handler is interrupted by none; main  *)
(* is interrupted by any, except where SEGGER_RTT_LOCK keeps interrupts out.  *)
(* On a Cortex-M0 (nRF51) the lock sets PRIMASK, which masks all of them.  On *)
(* a Cortex-M4 (nRF52) it sets BASEPRI to 0x20, which masks the priorities    *)
(* from 1 on and not priority 0.                                              *)
EXTENDS Integers

CONSTANTS
  SizeOfBuffer,
  PrintfBufferSize,       \* SEGGER_RTT_PRINTF_BUFFER_SIZE
  MainLengths,            \* the lengths of the lines of main
  HandlerLengths,         \* and of the handlers
  LockMasks               \* the lock keeps out the handlers

ASSUME LogAssumption ==
  /\ SizeOfBuffer \in Nat \ {0, 1}
  /\ PrintfBufferSize \in Nat \ {0}
  /\ MainLengths \subseteq 1..PrintfBufferSize /\ MainLengths # {}
  /\ HandlerLengths \subseteq Nat \ {0}
  /\ LockMasks \in BOOLEAN

VARIABLES
  RdOff, WrOff, pBuffer,  \* the ring
  call,                   \* the call of SEGGER_RTT_printf main, a handler is in
  parity,                 \* of the number of lines either has begun
  seen                    \* the byte the host has taken last

ringVars == <<RdOff, WrOff, pBuffer>>
vars == <<ringVars, call, parity, seen>>

Contexts == {"main", "handler"}
Cells == 0..(SizeOfBuffer - 1)

(* Byte k of a line, known by who printed it and the parity.                  *)
Positions == UNION {1..n : n \in MainLengths \union HandlerLengths}
Byte == [from : Contexts, line : {0, 1}, k : Positions, last : BOOLEAN]

Idle == [pc |-> "idle", of |-> 0, sent |-> 0, NumBytes |-> 0, off |-> 0]

LogTypeOK ==
  /\ RdOff \in Cells /\ WrOff \in Cells
  /\ pBuffer \in [Cells -> Byte]
  /\ \A c \in Contexts :
       /\ call[c].pc \in {"idle", "format", "locked", "place", "copy", "publish"}
       /\ call[c].sent \in 0..call[c].of
       /\ call[c].off \in Cells
  /\ parity \in [Contexts -> {0, 1}]
  /\ seen \in Byte

(* The buffer is empty and the host has seen the end of a line.               *)
LogInit ==
  LET end == [from |-> "main", line |-> 0, k |-> 1, last |-> TRUE] IN
  /\ RdOff = 0 /\ WrOff = 0
  /\ pBuffer = [i \in Cells |-> end]
  /\ call = [c \in Contexts |-> Idle]
  /\ parity = [c \in Contexts |-> 0]
  /\ seen = end

------------------------------------------------------------------------------
Shorter(m, n) == IF m < n THEN m ELSE n
Distance(from, to) == IF from <= to THEN to - from ELSE to - from + SizeOfBuffer
Used == Distance(RdOff, WrOff)
Avail == SizeOfBuffer - 1 - Used

(* Mutant: the lock is gone before the new offset is visible.                 *)
MutantUnlockEarly == call["main"].pc \in {"locked", "place", "copy"}

(* SEGGER_RTT_LOCK to SEGGER_RTT_UNLOCK.                                      *)
MainHoldsLock == call["main"].pc \in {"locked", "place", "copy", "publish"}

(* Who may take a step: a handler, once entered, runs to its end.             *)
Runs(c) ==
  \/ c = "handler" /\ (LockMasks => ~MainHoldsLock)
  \/ c = "main" /\ call["handler"].pc = "idle"

(* A call of SEGGER_RTT_printf with a line of length n.                       *)
SEGGER_RTT_printf(c, n) ==
  /\ Runs(c)
  /\ call[c].pc = "idle"
  /\ call' = [call EXCEPT ![c] = [Idle EXCEPT !.pc = "format", !.of = n]]
  /\ parity' = [parity EXCEPT ![c] = 1 - @]
  /\ UNCHANGED <<ringVars, seen>>

(* The call's buffer is full or the line at its end: SEGGER_RTT_Write.        *)
Lock(c) ==
  LET left == call[c].of - call[c].sent IN
  /\ Runs(c)
  /\ call[c].pc = "format"
  /\ call' = [call EXCEPT ![c].pc = "locked",
                          ![c].NumBytes = Shorter(left, PrintfBufferSize)]
  /\ UNCHANGED <<ringVars, parity, seen>>

(* Mutant: what does not fit is written all the same.                         *)
MutantNoCheck(c) ==
  /\ Runs(c)
  /\ call[c].pc = "locked"
  /\ call' = [call EXCEPT ![c].pc = "place"]
  /\ UNCHANGED <<ringVars, parity, seen>>

(* SEGGER_RTT_WriteNoLock: without space the write is refused, and as a part  *)
(* of the line is missing then, SEGGER_RTT_vprintf ends.                      *)
CheckSpace(c) ==
  /\ Runs(c)
  /\ call[c].pc = "locked"
  /\ call' = IF call[c].NumBytes <= Avail
             THEN [call EXCEPT ![c].pc = "place"]
             ELSE [call EXCEPT ![c] = Idle]
  /\ UNCHANGED <<ringVars, parity, seen>>

(* _WriteNoCheck reads WrOff ...                                              *)
Place(c) ==
  /\ Runs(c)
  /\ call[c].pc = "place"
  /\ call' = [call EXCEPT ![c].pc = "copy", ![c].off = WrOff]
  /\ UNCHANGED <<ringVars, parity, seen>>

(* ... copies the bytes from there on ...                                     *)
Copy(c) ==
  LET here(i) == Distance(call[c].off, i)
      byte(k) == [from |-> c, line |-> parity[c], k |-> k,
                  last |-> k = call[c].of]
  IN /\ Runs(c)
     /\ call[c].pc = "copy"
     /\ pBuffer' = [i \in Cells |-> IF here(i) < call[c].NumBytes
                                    THEN byte(call[c].sent + here(i) + 1)
                                    ELSE pBuffer[i]]
     /\ call' = [call EXCEPT ![c].pc = "publish"]
     /\ UNCHANGED <<RdOff, WrOff, parity, seen>>

(* Mutant: a write that ends with the buffer leaves the offset there.         *)
MutantNoWrap(c) ==
  LET sent == call[c].sent + call[c].NumBytes
      off == call[c].off + call[c].NumBytes
  IN /\ Runs(c)
     /\ call[c].pc = "publish"
     /\ WrOff' = IF off > SizeOfBuffer THEN off - SizeOfBuffer ELSE off
     /\ call' = [call EXCEPT ![c] =
                   IF sent = call[c].of THEN Idle
                   ELSE [@ EXCEPT !.pc = "format", !.sent = sent]]
     /\ UNCHANGED <<RdOff, pBuffer, parity, seen>>

(* ... and writes WrOff, from its own copy of it.  After SEGGER_RTT_UNLOCK    *)
(* the line goes on, if it is longer.                                         *)
Publish(c) ==
  LET sent == call[c].sent + call[c].NumBytes IN
  /\ Runs(c)
  /\ call[c].pc = "publish"
  /\ WrOff' = (call[c].off + call[c].NumBytes) % SizeOfBuffer
  /\ call' = [call EXCEPT ![c] =
                IF sent = call[c].of THEN Idle
                ELSE [@ EXCEPT !.pc = "format", !.sent = sent]]
  /\ UNCHANGED <<RdOff, pBuffer, parity, seen>>

HostReads ==
  /\ RdOff # WrOff
  /\ seen' = pBuffer[RdOff]
  /\ RdOff' = (RdOff + 1) % SizeOfBuffer
  /\ UNCHANGED <<WrOff, pBuffer, call, parity>>

LogNext ==
  \/ \E n \in MainLengths : SEGGER_RTT_printf("main", n)
  \/ \E n \in HandlerLengths : SEGGER_RTT_printf("handler", n)
  \/ \E c \in Contexts : Lock(c) \/ CheckSpace(c) \/ Place(c) \/ Copy(c) \/ Publish(c)
  \/ HostReads

LogSpec == LogInit /\ [][LogNext]_vars

------------------------------------------------------------------------------
(* What the host sees next: the byte it has taken last, then the ring's.      *)
Stream(k) == IF k = 0 THEN seen ELSE pBuffer[(RdOff + k - 1) % SizeOfBuffer]

(* After a the host may see b: the next byte of the line, or the beginning of *)
(* another one.  Then a ends its line, or what the last write of it stored.   *)
MayFollow(a, b) ==
  \/ b.k = a.k + 1 /\ b.from = a.from /\ b.line = a.line
  \/ b.k = 1 /\ (a.last \/ a.k % PrintfBufferSize = 0)

(* No line has a part of another one in it, although a handler may print      *)
(* while main does, and although a long line takes several writes; it may     *)
(* lose its end (SEGGER_RTT_WriteNoLock, _WriteNoCheck, _StoreChar).          *)
LinesUnmixed == \A k \in 1..Used : MayFollow(Stream(k - 1), Stream(k))

(* No call takes back or changes what is in the ring: the bytes stay in their *)
(* order until the host takes the first one (_WriteNoCheck).                  *)
StaysUntilRead ==
  [][/\ Used' >= Used \/ RdOff' # RdOff
     /\ \A k \in 1..Used : RdOff' = RdOff => Stream(k)' = Stream(k)]_vars

==============================================================================
