------------------------------- MODULE RttRing -------------------------------
(* SEGGER_RTT.c: a ring buffer in RAM through which the program and a debug   *)
(* probe talk.  In an up buffer the program writes and the probe reads, in a  *)
(* down buffer it is the other way round; the code for both is the same, and  *)
(* the probe does what the functions meant to stand in for it do.  Neither    *)
(* side can lock the other out: the writer owns WrOff, the reader RdOff.      *)
(*                                                                            *)
(* On each side calls exclude each other, by SEGGER_RTT_LOCK or, for the      *)
(* NoLock variants, by the caller; wpc and rpc say how far a call has come.   *)
(* A call that is refused changes nothing, so it is no action.                *)
EXTENDS Integers, Sequences

CONSTANTS
  SizeOfBuffer,
  MaxBytes,               \* bound on the bytes of a call that writes
  MaxOverwrite,           \* the same for SEGGER_RTT_WriteWithOverwriteNoLock
  ReadSizes,              \* the sizes of the reader's own buffer
  Numbers                 \* bytes are numbered modulo this

ASSUME RingAssumption ==
  /\ SizeOfBuffer \in Nat \ {0, 1}
  /\ MaxBytes \in Nat /\ MaxOverwrite \in Nat
  /\ ReadSizes \subseteq Nat
  /\ Numbers \in Nat \ {0}

VARIABLES
  RdOff, WrOff, Flags, pBuffer,       \* the ring
  wpc,
  asked,                  \* NumBytes as the caller passed it
  NumBytes,               \* what is left of it
  chunk,                  \* the bytes of this round of the loop
  next,                   \* the number of the next byte to become visible
  rpc,
  rRdOff, rWrOff,         \* the reader's local RdOff and WrOff
  BufferSize,             \* what is left of its buffer
  pData                   \* what it has copied there

ringVars == <<RdOff, WrOff, Flags, pBuffer>>
callVars == <<asked, NumBytes, chunk>>
readerVars == <<rpc, rRdOff, rWrOff, BufferSize, pData>>
vars == <<ringVars, wpc, callVars, next, readerVars>>

Cells == 0..(SizeOfBuffer - 1)
Bytes == 0..(Numbers - 1)
Modes == {"NO_BLOCK_SKIP", "NO_BLOCK_TRIM", "BLOCK_IF_FIFO_FULL"}

RingTypeOK ==
  /\ RdOff \in Cells /\ WrOff \in Cells
  /\ Flags \in Modes
  /\ pBuffer \in [Cells -> Bytes]
  /\ wpc \in {"idle", "blocking", "wait", "copy", "copied", "overwrite"}
  /\ asked \in Nat /\ NumBytes \in Nat /\ chunk \in Nat
  /\ next \in Bytes
  /\ rpc \in {"idle", "to_end", "rest", "publish"}
  /\ rRdOff \in Cells /\ rWrOff \in Cells
  /\ BufferSize \in Nat
  /\ pData \in Seq(Bytes)

(* The state _DoInit leaves: an empty buffer 0 in the default mode.           *)
RingInit ==
  /\ RdOff = 0 /\ WrOff = 0
  /\ Flags = "NO_BLOCK_SKIP"
  /\ pBuffer = [i \in Cells |-> 0]
  /\ wpc = "idle"
  /\ asked = 0 /\ NumBytes = 0 /\ chunk = 0
  /\ next = 0
  /\ rpc = "idle"
  /\ rRdOff = 0 /\ rWrOff = 0
  /\ BufferSize = 0
  /\ pData = <<>>

------------------------------------------------------------------------------
Min(a, b) == IF a < b THEN a ELSE b

(* From cell `from' on to cell `to', around the end of the buffer.            *)
Distance(from, to) == IF from <= to THEN to - from ELSE to - from + SizeOfBuffer

(* The offset n bytes on, n less than the size of the buffer or up to its end.*)
Advance(off, n) ==
  IF off + n < SizeOfBuffer THEN off + n ELSE off + n - SizeOfBuffer

(* Mutant: the byte that tells full from empty is given away.                 *)
MutantFullRing ==
  IF RdOff <= WrOff THEN SizeOfBuffer - WrOff + RdOff ELSE RdOff - WrOff

(* _GetAvailWriteSpace.                                                       *)
AvailWriteSpace ==
  IF RdOff <= WrOff THEN SizeOfBuffer - 1 - WrOff + RdOff
  ELSE RdOff - WrOff - 1

(* n new bytes are copied to the cells from WrOff on.                         *)
Filled(n) ==
  [i \in Cells |-> IF Distance(WrOff, i) < n
                   THEN (next + Distance(WrOff, i)) % Numbers
                   ELSE pBuffer[i]]

------------------------------------------------------------------------------
(* The writer.                                                                *)

BeginCopy(n, size) ==
  /\ wpc' = "copy"
  /\ asked' = n
  /\ NumBytes' = size
  /\ chunk' = size
  /\ UNCHANGED <<ringVars, next, readerVars>>

BeginLoop(n, label) ==
  /\ wpc' = label
  /\ asked' = n
  /\ NumBytes' = n
  /\ chunk' = 0
  /\ UNCHANGED <<ringVars, next, readerVars>>

(* Mutant: in skip mode, too, what does not fit is trimmed.                   *)
MutantTrim(n) ==
  /\ wpc = "idle"
  /\ \/ Flags # "BLOCK_IF_FIFO_FULL" /\ BeginCopy(n, Min(AvailWriteSpace, n))
     \/ Flags = "BLOCK_IF_FIFO_FULL" /\ BeginLoop(n, "blocking")

(* Mutant: in trim mode the call waits until all of it has been written.      *)
MutantNoTrim(n) ==
  /\ wpc = "idle"
  /\ \/ Flags = "NO_BLOCK_SKIP" /\ n <= AvailWriteSpace /\ BeginCopy(n, n)
     \/ Flags # "NO_BLOCK_SKIP" /\ BeginLoop(n, "blocking")

(* SEGGER_RTT_WriteNoLock, for an up buffer, and _WriteDownBufferNoLock.      *)
Write(n) ==
  /\ wpc = "idle"
  /\ \/ Flags = "NO_BLOCK_SKIP" /\ n <= AvailWriteSpace /\ BeginCopy(n, n)
     \/ Flags = "NO_BLOCK_TRIM" /\ BeginCopy(n, Min(AvailWriteSpace, n))
     \/ Flags = "BLOCK_IF_FIFO_FULL" /\ BeginLoop(n, "blocking")

(* SEGGER_RTT_WriteSkipNoLock: its cases 1, 2 and 4.                          *)
SpaceToEnd == SizeOfBuffer - WrOff - 1

WriteSkip(n) ==
  /\ wpc = "idle"
  /\ \/ RdOff <= WrOff /\ n <= SpaceToEnd
     \/ RdOff <= WrOff /\ n > SpaceToEnd /\ n <= SpaceToEnd + RdOff
     \/ RdOff > WrOff /\ n <= RdOff - WrOff - 1
  /\ BeginCopy(n, n)

(* SEGGER_RTT_PutChar, SEGGER_RTT_PutCharSkip and its NoLock variant: one     *)
(* byte, stored if there is space; in blocking mode the first waits for it.   *)
NextWrOff == IF WrOff + 1 = SizeOfBuffer THEN 0 ELSE WrOff + 1

PutCharSkip ==
  /\ wpc = "idle"
  /\ NextWrOff # RdOff
  /\ BeginCopy(1, 1)

PutCharWaits ==
  /\ wpc = "idle"
  /\ Flags = "BLOCK_IF_FIFO_FULL"
  /\ NextWrOff = RdOff
  /\ BeginLoop(1, "wait")

PutCharGoesOn ==
  /\ wpc = "wait"
  /\ NextWrOff # RdOff
  /\ BeginCopy(1, 1)

(* _WriteBlocking, the head of its loop: as much as fits before the reader    *)
(* and before the end of the buffer, which may be nothing.                    *)
BlockingSpace ==
  Min(IF RdOff > WrOff THEN RdOff - WrOff - 1
      ELSE SizeOfBuffer - (WrOff - RdOff + 1),
      SizeOfBuffer - WrOff)

BlockingRound ==
  /\ wpc = "blocking"
  /\ wpc' = "copy"
  /\ chunk' = Min(BlockingSpace, NumBytes)
  /\ UNCHANGED <<ringVars, asked, NumBytes, next, readerVars>>

(* Mutant: the new offset becomes visible before the bytes are there.         *)
MutantEarlyWrOff ==
  /\ wpc = "copy"
  /\ wpc' = IF NumBytes = chunk THEN "idle" ELSE "blocking"
  /\ WrOff' = Advance(WrOff, chunk)
  /\ next' = (next + chunk) % Numbers
  /\ NumBytes' = NumBytes - chunk
  /\ UNCHANGED <<RdOff, Flags, pBuffer, asked, chunk, readerVars>>

(* The copies of _WriteBlocking, _WriteNoCheck and the others into the buffer.*)
Copy ==
  /\ wpc = "copy"
  /\ wpc' = "copied"
  /\ pBuffer' = Filled(chunk)
  /\ UNCHANGED <<RdOff, WrOff, Flags, callVars, next, readerVars>>

(* Mutant: the new offset may be the end of the buffer.                       *)
MutantNoWrap ==
  /\ wpc = "copied"
  /\ WrOff' = IF WrOff + chunk <= SizeOfBuffer THEN WrOff + chunk
              ELSE WrOff + chunk - SizeOfBuffer
  /\ next' = (next + chunk) % Numbers
  /\ wpc' = "idle" /\ asked' = 0 /\ NumBytes' = 0 /\ chunk' = 0
  /\ UNCHANGED <<RdOff, Flags, pBuffer, readerVars>>

(* Their last statement makes the bytes visible; _WriteBlocking goes on until *)
(* nothing is left.  The call's variables are cleared with its frame.         *)
PublishWrOff ==
  /\ wpc = "copied"
  /\ WrOff' = Advance(WrOff, chunk)
  /\ next' = (next + chunk) % Numbers
  /\ chunk' = 0
  /\ NumBytes' = NumBytes - chunk
  /\ IF NumBytes = chunk THEN wpc' = "idle" /\ asked' = 0
     ELSE wpc' = "blocking" /\ UNCHANGED asked
  /\ UNCHANGED <<RdOff, Flags, pBuffer, readerVars>>

(* SEGGER_RTT_WriteWithOverwriteNoLock.  It moves the reader's offset, so its *)
(* note (3) forbids it while a probe reads.  The space is _GetAvailWriteSpace *)
(* written out; chunk stands for Avail in the loop that follows.              *)
WriteWithOverwrite(n) ==
  /\ wpc = "idle" /\ rpc = "idle"
  /\ RdOff' = IF n <= AvailWriteSpace THEN RdOff
              ELSE (RdOff + n - AvailWriteSpace) % SizeOfBuffer
  /\ wpc' = "overwrite"
  /\ asked' = n
  /\ NumBytes' = n
  /\ chunk' = SizeOfBuffer - WrOff
  /\ UNCHANGED <<WrOff, Flags, pBuffer, next, readerVars>>

OverwriteLastRound ==
  /\ wpc = "overwrite" /\ chunk > NumBytes
  /\ wpc' = "idle"
  /\ pBuffer' = Filled(NumBytes)
  /\ WrOff' = WrOff + NumBytes
  /\ next' = (next + NumBytes) % Numbers
  /\ asked' = 0 /\ NumBytes' = 0 /\ chunk' = 0
  /\ UNCHANGED <<RdOff, Flags, readerVars>>

OverwriteRound ==
  /\ wpc = "overwrite" /\ chunk <= NumBytes
  /\ pBuffer' = Filled(chunk)
  /\ WrOff' = 0
  /\ next' = (next + chunk) % Numbers
  /\ NumBytes' = NumBytes - chunk
  /\ IF NumBytes = chunk THEN wpc' = "idle" /\ asked' = 0 /\ chunk' = 0
     ELSE chunk' = SizeOfBuffer - 1 /\ UNCHANGED <<wpc, asked>>
  /\ UNCHANGED <<RdOff, Flags, readerVars>>

(* SEGGER_RTT_SetFlagsUpBuffer; SEGGER_RTT_ConfigUpBuffer of buffer 0.        *)
SetFlags(mode) ==
  /\ wpc = "idle"
  /\ Flags' = mode
  /\ UNCHANGED <<RdOff, WrOff, pBuffer, wpc, callVars, next, readerVars>>

------------------------------------------------------------------------------
(* The reader: SEGGER_RTT_ReadUpBufferNoLock and, for a down buffer,          *)
(* SEGGER_RTT_ReadNoLock.                                                     *)

Cut(off, n) == [k \in 1..n |-> pBuffer[off + k - 1]]

ReadBegin(size) ==
  /\ rpc = "idle" /\ wpc # "overwrite"
  /\ rpc' = IF RdOff > WrOff THEN "to_end" ELSE "rest"
  /\ rRdOff' = RdOff
  /\ rWrOff' = WrOff
  /\ BufferSize' = size
  /\ pData' = <<>>
  /\ UNCHANGED <<ringVars, wpc, callVars, next>>

(* What lies before the end of the buffer, if the bytes go around it.         *)
ReadToEnd ==
  LET n == Min(SizeOfBuffer - rRdOff, BufferSize) IN
  /\ rpc = "to_end"
  /\ rpc' = "rest"
  /\ pData' = Cut(rRdOff, n)
  /\ BufferSize' = BufferSize - n
  /\ rRdOff' = IF rRdOff + n = SizeOfBuffer THEN 0 ELSE rRdOff + n
  /\ UNCHANGED <<ringVars, wpc, callVars, next, rWrOff>>

(* Mutant: the bytes up to the writer's present offset are taken.             *)
MutantFreshWrOff ==
  LET n == IF rRdOff <= WrOff THEN Min(WrOff - rRdOff, BufferSize) ELSE 0 IN
  /\ rpc = "rest"
  /\ rpc' = "publish"
  /\ pData' = pData \o Cut(rRdOff, n)
  /\ BufferSize' = BufferSize - n
  /\ rRdOff' = rWrOff
  /\ UNCHANGED <<ringVars, wpc, callVars, next, rWrOff>>

(* The rest of them.  If the buffer was filled before, the unsigned           *)
(* difference of the offsets has wrapped to a huge one.                       *)
ReadRest ==
  LET n == IF rRdOff <= rWrOff THEN Min(rWrOff - rRdOff, BufferSize)
           ELSE BufferSize IN
  /\ rpc = "rest"
  /\ rpc' = "publish"
  /\ pData' = pData \o Cut(rRdOff, n)
  /\ BufferSize' = BufferSize - n
  /\ rRdOff' = rRdOff + n
  /\ UNCHANGED <<ringVars, wpc, callVars, next, rWrOff>>

(* Mutant: offset 0 is taken for none.                                        *)
MutantZeroIsNone ==
  /\ rpc = "publish"
  /\ rpc' = "idle"
  /\ RdOff' = IF rRdOff = 0 THEN RdOff ELSE rRdOff
  /\ rRdOff' = 0 /\ rWrOff' = 0 /\ BufferSize' = 0 /\ pData' = <<>>
  /\ UNCHANGED <<WrOff, Flags, pBuffer, wpc, callVars, next>>

(* The offset is moved if anything was read; then the frame is gone.          *)
ReadPublish ==
  /\ rpc = "publish"
  /\ rpc' = "idle"
  /\ RdOff' = IF pData = <<>> THEN RdOff ELSE rRdOff
  /\ rRdOff' = 0 /\ rWrOff' = 0 /\ BufferSize' = 0 /\ pData' = <<>>
  /\ UNCHANGED <<WrOff, Flags, pBuffer, wpc, callVars, next>>

------------------------------------------------------------------------------
WriterCall ==
  \/ \E n \in 0..MaxBytes : Write(n)
  \/ \E n \in 1..MaxBytes : WriteSkip(n)
  \/ PutCharSkip \/ PutCharWaits
  \/ \E n \in 0..MaxOverwrite : WriteWithOverwrite(n)
  \/ \E mode \in Modes : SetFlags(mode)

WriterStep ==
  \/ PutCharGoesOn \/ BlockingRound \/ Copy \/ PublishWrOff
  \/ OverwriteLastRound \/ OverwriteRound

Read ==
  \/ \E size \in ReadSizes : ReadBegin(size)
  \/ ReadToEnd \/ ReadRest \/ ReadPublish

RingNext == WriterCall \/ WriterStep \/ Read

RingSpec == RingInit /\ [][RingNext]_vars

(* A call goes on once it has begun; nobody has to call, and nobody to read.  *)
RunningSpec == RingSpec /\ WF_vars(WriterStep)

==============================================================================
