---------------------------- MODULE RttRingProofs ----------------------------
(* Reader and writer of a ring never get into each other's cells, for every   *)
(* size of the buffer, of the messages and of the reader's own buffer.        *)
EXTENDS RttRingProperties, SequenceTheorems, TLAPS

USE RingAssumption

(* The writer will only fill cells that were free when it looked; the reader  *)
(* can only have freed more since.                                            *)
WriterInv ==
  /\ wpc \in {"copy", "copied"} => chunk <= AvailWriteSpace /\ chunk <= NumBytes
  /\ wpc = "overwrite" =>
       /\ rpc = "idle"
       /\ chunk \in 1..(SizeOfBuffer - WrOff)
       /\ chunk = SizeOfBuffer - WrOff \/ WrOff = 0
       /\ NumBytes <= AvailWriteSpace

(* The reader's offsets lie within what is visible, and it has copied what    *)
(* lies between the ring's RdOff and its own.                                 *)
ReaderInv ==
  rpc # "idle" =>
    /\ Distance(RdOff, rWrOff) <= Used
    /\ Len(pData) <= Distance(RdOff, rWrOff)
    /\ rRdOff = Advance(RdOff, Len(pData))
    /\ rpc = "to_end" => pData = <<>> /\ rRdOff > rWrOff
    /\ rpc = "rest" /\ rRdOff > rWrOff => BufferSize = 0

CopiedInv ==
  rpc # "idle" => \A k \in 1..Len(pData) :
                    pData[k] = pBuffer[Advance(RdOff, k - 1)]

RingInv == RingTypeOK /\ WriterInv /\ ReaderInv /\ CopiedInv

------------------------------------------------------------------------------
(* Facts about offsets.                                                       *)

LEMMA ModIsAdvance ==
  ASSUME NEW off \in Cells, NEW n \in 0..SizeOfBuffer
  PROVE  (off + n) % SizeOfBuffer = Advance(off, n)
BY DEF Cells, Advance

LEMMA AdvanceIsCell ==
  ASSUME NEW off \in Cells, NEW n \in 0..SizeOfBuffer
  PROVE  Advance(off, n) \in Cells
BY DEF Cells, Advance

(* Visible and free cells make up the buffer but for one.                     *)
LEMMA UsedAndFree ==
  ASSUME RdOff \in Cells, WrOff \in Cells
  PROVE  /\ Used \in 0..(SizeOfBuffer - 1)
         /\ AvailWriteSpace = SizeOfBuffer - 1 - Used
BY DEF Cells, Used, Distance, AvailWriteSpace

(* A visible cell lies behind the free ones, seen from the writer.            *)
LEMMA VisibleIsBehindFree ==
  ASSUME RdOff \in Cells, WrOff \in Cells, NEW k \in 1..Used
  PROVE  /\ Advance(RdOff, k - 1) \in Cells
         /\ Distance(WrOff, Advance(RdOff, k - 1)) > AvailWriteSpace
BY DEF Cells, Used, Distance, Advance, AvailWriteSpace

(* Filling free cells leaves the visible ones alone.                          *)
LEMMA FillingKeepsVisible ==
  ASSUME RdOff \in Cells, WrOff \in Cells,
         NEW n \in Nat, n <= AvailWriteSpace, NEW k \in 1..Used
  PROVE  Filled(n)[Advance(RdOff, k - 1)] = pBuffer[Advance(RdOff, k - 1)]
<1>1. /\ Advance(RdOff, k - 1) \in Cells
      /\ Distance(WrOff, Advance(RdOff, k - 1)) > AvailWriteSpace
  BY VisibleIsBehindFree
<1>2. ~(Distance(WrOff, Advance(RdOff, k - 1)) < n)
  BY <1>1 DEF Cells, Distance, AvailWriteSpace
<1> QED
  BY <1>1, <1>2 DEF Filled

LEMMA FilledType ==
  ASSUME WrOff \in Cells, next \in Bytes, pBuffer \in [Cells -> Bytes], NEW n \in Nat
  PROVE  Filled(n) \in [Cells -> Bytes]
<1>1. ASSUME NEW i \in Cells
      PROVE  (next + Distance(WrOff, i)) % Numbers \in Bytes
  BY DEF Cells, Bytes, Distance
<1> QED
  BY <1>1 DEF Filled

------------------------------------------------------------------------------
(* The invariant is inductive.                                                *)

LEMMA InitRing == RingInit => RingInv
BY DEF RingInit, RingInv, RingTypeOK, WriterInv, ReaderInv, CopiedInv, Cells,
       Bytes, Modes

LEMMA ReaderNumbers ==
  ASSUME RingTypeOK
  PROVE  Used \in Nat /\ Distance(RdOff, rWrOff) \in Nat /\ Len(pData) \in Nat
BY DEF RingTypeOK, Used, Distance, Cells

(* A step that leaves the ring and the reader alone.                          *)
LEMMA KeepsReader ==
  ASSUME RingInv, UNCHANGED <<RdOff, WrOff, pBuffer, readerVars>>
  PROVE  ReaderInv' /\ CopiedInv' /\ AvailWriteSpace' = AvailWriteSpace
BY DEF RingInv, ReaderInv, CopiedInv, readerVars, Used, Distance, Advance,
       AvailWriteSpace

(* A call begins to copy no more than there is space for.                     *)
LEMMA StepBeginCopy ==
  ASSUME RingInv, NEW n \in Nat, NEW size \in Nat, size <= AvailWriteSpace,
         BeginCopy(n, size)
  PROVE  RingInv'
<1>1. RingTypeOK'
  BY DEF RingInv, RingTypeOK, BeginCopy, ringVars, readerVars
<1>2. WriterInv'
  BY KeepsReader DEF WriterInv, BeginCopy, ringVars, readerVars
<1> QED
  BY <1>1, <1>2, KeepsReader DEF RingInv, BeginCopy, ringVars, readerVars

LEMMA StepBeginLoop ==
  ASSUME RingInv, NEW n \in Nat, NEW label \in {"blocking", "wait"},
         BeginLoop(n, label)
  PROVE  RingInv'
<1>1. RingTypeOK'
  BY DEF RingInv, RingTypeOK, BeginLoop, ringVars, readerVars
<1>2. WriterInv'
  BY DEF WriterInv, BeginLoop
<1> QED
  BY <1>1, <1>2, KeepsReader DEF RingInv, BeginLoop, ringVars, readerVars

LEMMA StepWrite ==
  ASSUME RingInv, NEW n \in Nat, Write(n)
  PROVE  RingInv'
<1>1. AvailWriteSpace \in Nat
  BY UsedAndFree DEF RingInv, RingTypeOK
<1>2. Min(AvailWriteSpace, n) \in Nat /\ Min(AvailWriteSpace, n) <= AvailWriteSpace
  BY <1>1 DEF Min
<1> QED
  BY <1>2, StepBeginCopy, StepBeginLoop DEF Write

LEMMA StepWriteSkip ==
  ASSUME RingInv, NEW n \in Nat, WriteSkip(n)
  PROVE  RingInv'
<1>1. n <= AvailWriteSpace
  BY DEF WriteSkip, SpaceToEnd, AvailWriteSpace, RingInv, RingTypeOK, Cells
<1> QED
  BY <1>1, StepBeginCopy DEF WriteSkip

LEMMA SpaceForAChar ==
  ASSUME RingInv, NextWrOff # RdOff
  PROVE  1 <= AvailWriteSpace
BY DEF NextWrOff, AvailWriteSpace, RingInv, RingTypeOK, Cells

LEMMA StepBlockingRound ==
  ASSUME RingInv, BlockingRound
  PROVE  RingInv'
<1>1. chunk' \in Nat /\ chunk' <= AvailWriteSpace /\ chunk' <= NumBytes
  BY DEF BlockingRound, BlockingSpace, Min, AvailWriteSpace, RingInv, RingTypeOK,
         Cells
<1>2. RingTypeOK'
  BY <1>1 DEF RingInv, RingTypeOK, BlockingRound, ringVars, readerVars
<1>3. WriterInv'
  BY <1>1, KeepsReader DEF WriterInv, BlockingRound, ringVars, readerVars
<1> QED
  BY <1>2, <1>3, KeepsReader DEF RingInv, BlockingRound, ringVars, readerVars

LEMMA StepCopy ==
  ASSUME RingInv, Copy
  PROVE  RingInv'
<1> USE DEF RingInv
<1>1. RingTypeOK'
  BY FilledType DEF RingTypeOK, Copy, callVars, readerVars
<1>2. WriterInv'
  BY DEF WriterInv, Copy, callVars, AvailWriteSpace
<1>3. ReaderInv'
  BY DEF ReaderInv, Copy, readerVars, Used, Distance, Advance
<1>4. CopiedInv'
  <2> SUFFICES ASSUME rpc # "idle", NEW k \in 1..Len(pData)
               PROVE  pData[k] = Filled(chunk)[Advance(RdOff, k - 1)]
    BY DEF CopiedInv, Copy, readerVars, Advance
  <2>1. k \in 1..Used
    BY ReaderNumbers DEF ReaderInv
  <2>2. Filled(chunk)[Advance(RdOff, k - 1)] = pBuffer[Advance(RdOff, k - 1)]
    BY <2>1, FillingKeepsVisible DEF WriterInv, Copy, RingTypeOK
  <2> QED
    BY <2>2 DEF CopiedInv
<1> QED
  BY <1>1, <1>2, <1>3, <1>4

(* Publishing n free bytes makes so many more visible.                        *)
LEMMA Published ==
  ASSUME RdOff \in Cells, WrOff \in Cells, NEW n \in Nat, n <= AvailWriteSpace,
         WrOff' = Advance(WrOff, n), RdOff' = RdOff
  PROVE  /\ WrOff' \in Cells
         /\ Used' = Used + n
         /\ AvailWriteSpace' = AvailWriteSpace - n
BY DEF Cells, Advance, Used, Distance, AvailWriteSpace

(* What the reader holds is still right when more becomes visible.            *)
LEMMA ReaderSeesMore ==
  ASSUME RingInv, NEW n \in Nat, Used' = Used + n,
         UNCHANGED <<RdOff, pBuffer, readerVars>>
  PROVE  ReaderInv' /\ CopiedInv'
<1>1. CopiedInv'
  BY DEF RingInv, CopiedInv, readerVars, Advance
<1>2. rpc # "idle" => Distance(RdOff, rWrOff) <= Used + n
  BY ReaderNumbers DEF RingInv, ReaderInv
<1> QED
  BY <1>1, <1>2 DEF RingInv, ReaderInv, readerVars, Distance, Advance

LEMMA StepPublishWrOff ==
  ASSUME RingInv, PublishWrOff
  PROVE  RingInv'
<1> USE DEF RingInv
<1>1. /\ WrOff' \in Cells
      /\ Used' = Used + chunk
  BY Published DEF RingTypeOK, WriterInv, PublishWrOff
<1>2. next' \in Bytes
  BY DEF PublishWrOff, RingTypeOK, Bytes
<1>3. RingTypeOK'
  BY <1>1, <1>2 DEF RingTypeOK, WriterInv, PublishWrOff, readerVars
<1>4. WriterInv'
  BY DEF WriterInv, PublishWrOff
<1>5. ReaderInv' /\ CopiedInv'
  BY <1>1, ReaderSeesMore DEF PublishWrOff, RingTypeOK
<1> QED
  BY <1>3, <1>4, <1>5

(* WriteWithOverwrite frees what is missing, by dropping the oldest bytes.    *)
LEMMA StepWriteWithOverwrite ==
  ASSUME RingInv, MaxOverwrite < SizeOfBuffer, NEW n \in 0..MaxOverwrite,
         WriteWithOverwrite(n)
  PROVE  RingInv'
<1> USE DEF RingInv
<1>1. RdOff' \in Cells /\ WrOff' \in Cells /\ n <= AvailWriteSpace'
  <2>1. CASE n <= AvailWriteSpace
    BY <2>1 DEF WriteWithOverwrite, AvailWriteSpace, RingTypeOK
  <2>2. CASE ~(n <= AvailWriteSpace)
    <3>1. n - AvailWriteSpace \in 0..SizeOfBuffer /\ AvailWriteSpace \in Int
      BY <2>2, UsedAndFree DEF RingTypeOK
    <3>2. RdOff' = Advance(RdOff, n - AvailWriteSpace)
      BY <2>2, <3>1, ModIsAdvance DEF WriteWithOverwrite, RingTypeOK, Cells
    <3> QED
      BY <2>2, <3>1, <3>2
      DEF Advance, AvailWriteSpace, Cells, RingTypeOK, WriteWithOverwrite
  <2> QED
    BY <2>1, <2>2
<1>2. chunk' \in Nat
  BY DEF WriteWithOverwrite, RingTypeOK, Cells
<1>3. RingTypeOK'
  BY <1>1, <1>2 DEF RingTypeOK, WriteWithOverwrite, readerVars
<1>4. WriterInv'
  BY <1>1, <1>2 DEF WriterInv, WriteWithOverwrite, RingTypeOK, readerVars, Cells
<1> QED
  BY <1>3, <1>4
  DEF ReaderInv, CopiedInv, WriteWithOverwrite, readerVars

LEMMA StepOverwriteLastRound ==
  ASSUME RingInv, OverwriteLastRound
  PROVE  RingInv'
<1> USE DEF RingInv
<1>1. pBuffer' \in [Cells -> Bytes]
  BY FilledType DEF RingTypeOK, WriterInv, OverwriteLastRound
<1>0. next' \in Bytes
  BY DEF RingTypeOK, OverwriteLastRound, Bytes
<1>2. WrOff' \in Cells
  BY DEF RingTypeOK, WriterInv, OverwriteLastRound, Cells
<1>3. RingTypeOK'
  BY <1>0, <1>1, <1>2 DEF RingTypeOK, OverwriteLastRound, readerVars
<1> QED
  BY <1>3 DEF WriterInv, ReaderInv, CopiedInv, OverwriteLastRound, readerVars

LEMMA StepOverwriteRound ==
  ASSUME RingInv, OverwriteRound
  PROVE  RingInv'
<1> USE DEF RingInv
<1>1. pBuffer' \in [Cells -> Bytes]
  BY FilledType DEF RingTypeOK, WriterInv, OverwriteRound
<1>0. next' \in Bytes
  BY DEF RingTypeOK, OverwriteRound, Bytes
<1>2. WrOff' \in Cells /\ NumBytes' \in Nat /\ chunk' \in Nat
  BY DEF RingTypeOK, WriterInv, OverwriteRound, Cells
<1>3. RingTypeOK'
  BY <1>0, <1>1, <1>2 DEF RingTypeOK, OverwriteRound, readerVars
<1>4. NumBytes' <= AvailWriteSpace'
  BY DEF RingTypeOK, WriterInv, OverwriteRound, AvailWriteSpace, Cells
<1>5. WriterInv'
  BY <1>2, <1>4 DEF WriterInv, OverwriteRound, readerVars, RingTypeOK
<1> QED
  BY <1>3, <1>5 DEF WriterInv, ReaderInv, CopiedInv, OverwriteRound, readerVars

LEMMA StepSetFlags ==
  ASSUME RingInv, NEW mode \in Modes, SetFlags(mode)
  PROVE  RingInv'
<1>1. RingTypeOK'
  BY DEF RingInv, RingTypeOK, SetFlags, callVars, readerVars
<1>2. WriterInv'
  BY DEF WriterInv, SetFlags
<1> QED
  BY <1>1, <1>2, KeepsReader DEF RingInv, SetFlags

(* The reader.                                                                *)
LEMMA CutType ==
  ASSUME pBuffer \in [Cells -> Bytes], NEW off \in Cells,
         NEW n \in Nat, off + n <= SizeOfBuffer
  PROVE  /\ Cut(off, n) \in Seq(Bytes)
         /\ Len(Cut(off, n)) = n
         /\ \A k \in 1..n : Cut(off, n)[k] = pBuffer[off + k - 1]
BY DEF Cut, Cells

LEMMA StepReadBegin ==
  ASSUME RingInv, NEW size \in Nat, ReadBegin(size)
  PROVE  RingInv'
<1> USE DEF RingInv
<1>1. RingTypeOK'
  BY DEF RingTypeOK, ReadBegin, ringVars, callVars
<1>2. WriterInv'
  BY DEF WriterInv, ReadBegin, ringVars, callVars, AvailWriteSpace
<1>3. ReaderInv'
  BY DEF ReaderInv, ReadBegin, ringVars, RingTypeOK, Used, Distance, Advance, Cells
<1>4. CopiedInv'
  BY DEF CopiedInv, ReadBegin
<1> QED
  BY <1>1, <1>2, <1>3, <1>4

LEMMA StepReadToEnd ==
  ASSUME RingInv, ReadToEnd
  PROVE  RingInv'
<1> USE DEF RingInv
<1> DEFINE n == Min(SizeOfBuffer - rRdOff, BufferSize)
<1>1. n \in Nat /\ n <= BufferSize /\ rRdOff + n <= SizeOfBuffer /\ rRdOff = RdOff
  BY DEF Min, ReadToEnd, ReaderInv, RingTypeOK, Cells, Advance
<1>2. /\ pData' \in Seq(Bytes)
      /\ Len(pData') = n
      /\ \A k \in 1..n : pData'[k] = pBuffer[RdOff + k - 1]
  BY <1>1, CutType DEF ReadToEnd, RingTypeOK
<1>3. rRdOff' = Advance(RdOff, n) /\ rRdOff' \in Cells
  BY <1>1 DEF ReadToEnd, Advance, RingTypeOK, Cells
<1>4. BufferSize' \in Nat
  BY <1>1 DEF ReadToEnd, RingTypeOK
<1>5. RingTypeOK'
  BY <1>2, <1>3, <1>4 DEF RingTypeOK, ReadToEnd, ringVars, callVars
<1>6. WriterInv'
  BY DEF WriterInv, ReadToEnd, ringVars, callVars, AvailWriteSpace
<1>7. n <= Distance(RdOff, rWrOff)
  BY <1>1 DEF ReadToEnd, ReaderInv, RingTypeOK, Distance, Cells
<1>8. rRdOff' > rWrOff => BufferSize' = 0
  BY <1>1 DEF ReadToEnd, RingTypeOK, Cells, Min
<1>9. ReaderInv'
  BY <1>2, <1>3, <1>7, <1>8
  DEF ReaderInv, ReadToEnd, ringVars, Used, Distance, Advance
<1>10. CopiedInv'
  <2> SUFFICES ASSUME NEW k \in 1..n
               PROVE  pData'[k] = pBuffer[Advance(RdOff, k - 1)]
    BY <1>2 DEF CopiedInv, ReadToEnd, ringVars, Advance
  <2>1. Advance(RdOff, k - 1) = RdOff + k - 1
    BY <1>1 DEF Advance, RingTypeOK, Cells
  <2> QED
    BY <1>2, <2>1
<1> QED
  BY <1>5, <1>6, <1>9, <1>10

(* A reader that has come len bytes from `from' comes n further.               *)
LEMMA ReadFurther ==
  ASSUME NEW from \in Cells, NEW to \in Cells, NEW len \in Nat, NEW n \in Nat,
         len <= Distance(from, to),
         n = 0 \/ Advance(from, len) + n <= to
  PROVE  /\ Advance(from, len) \in Cells
         /\ len + n <= Distance(from, to)
         /\ Advance(from, len) + n = Advance(from, len + n)
<1>1. CASE from <= to
  BY <1>1 DEF Cells, Distance, Advance
<1>2. CASE ~(from <= to)
  BY <1>2 DEF Cells, Distance, Advance
<1> QED
  BY <1>1, <1>2

LEMMA Joined ==
  ASSUME NEW s \in Seq(Bytes), NEW t \in Seq(Bytes)
  PROVE  /\ s \o t \in Seq(Bytes)
         /\ Len(s \o t) = Len(s) + Len(t)
         /\ \A k \in 1..Len(s) : (s \o t)[k] = s[k]
         /\ \A k \in (Len(s) + 1)..(Len(s) + Len(t)) :
              (s \o t)[k] = t[k - Len(s)]
OBVIOUS

LEMMA StepReadRest ==
  ASSUME RingInv, ReadRest
  PROVE  RingInv'
<1> USE DEF RingInv
<1> DEFINE n == IF rRdOff <= rWrOff THEN Min(rWrOff - rRdOff, BufferSize)
                ELSE BufferSize
<1> DEFINE len == Len(pData)
<1>0. len \in Nat /\ len <= Distance(RdOff, rWrOff) /\ rRdOff = Advance(RdOff, len)
  BY DEF ReaderInv, ReadRest, RingTypeOK
<1>1. /\ n \in Nat /\ n <= BufferSize /\ rRdOff + n < SizeOfBuffer
      /\ n = 0 \/ rRdOff + n <= rWrOff
      /\ rRdOff \in Cells /\ rRdOff + n <= SizeOfBuffer
  BY DEF Min, ReadRest, ReaderInv, RingTypeOK, Cells
<1>2. /\ len + n <= Distance(RdOff, rWrOff)
      /\ rRdOff + n = Advance(RdOff, len + n)
  <2>1. RdOff \in Cells /\ rWrOff \in Cells
    BY DEF RingTypeOK
  <2> HIDE DEF n, len
  <2> QED
    BY <1>0, <1>1, <2>1, ReadFurther
<1>3. /\ Cut(rRdOff, n) \in Seq(Bytes)
      /\ Len(Cut(rRdOff, n)) = n
      /\ \A k \in 1..n : Cut(rRdOff, n)[k] = pBuffer[rRdOff + k - 1]
  <2>1. pBuffer \in [Cells -> Bytes]
    BY DEF RingTypeOK
  <2> HIDE DEF n
  <2> QED
    BY <1>1, <2>1, CutType
<1>4. pData' = pData \o Cut(rRdOff, n)
  BY DEF ReadRest
<1>5. /\ pData' \in Seq(Bytes)
      /\ Len(pData') = len + n
      /\ \A k \in 1..len : pData'[k] = pData[k]
      /\ \A k \in (len + 1)..(len + n) : pData'[k] = Cut(rRdOff, n)[k - len]
  <2>1. pData \in Seq(Bytes)
    BY DEF RingTypeOK
  <2> HIDE DEF n
  <2> QED
    BY <1>3, <1>4, <2>1, Joined
<1>6. BufferSize' \in Nat /\ rRdOff' \in Cells /\ rRdOff' = rRdOff + n
  BY <1>1 DEF ReadRest, RingTypeOK, Cells
<1>7. RingTypeOK'
  BY <1>5, <1>6 DEF RingTypeOK, ReadRest, ringVars, callVars
<1>8. WriterInv'
  BY DEF WriterInv, ReadRest, ringVars, callVars, AvailWriteSpace
<1>9. ReaderInv'
  BY <1>2, <1>5, <1>6
  DEF ReaderInv, ReadRest, ringVars, Used, Distance, Advance
<1>10. CopiedInv'
  <2> SUFFICES ASSUME NEW k \in 1..(len + n)
               PROVE  pData'[k] = pBuffer[Advance(RdOff, k - 1)]
    BY <1>5 DEF CopiedInv, ReadRest, ringVars, Advance
  <2>1. CASE k <= len
    BY <1>0, <1>5, <2>1 DEF CopiedInv, ReadRest
  <2>2. CASE k > len
    <3>1. k - len \in 1..n /\ k \in (len + 1)..(len + n)
      BY <1>0, <1>1, <2>2
    <3>2. pData'[k] = pBuffer[rRdOff + (k - len) - 1]
      BY <1>3, <1>5, <3>1
    <3>3. rRdOff + (k - len) - 1 = Advance(RdOff, k - 1)
      <4> DEFINE j == (k - len) - 1
      <4>1. /\ j \in Nat /\ rRdOff + j <= rWrOff /\ len + j = k - 1
            /\ rRdOff + (k - len) - 1 = rRdOff + j
        BY <1>0, <1>1, <3>1 DEF RingTypeOK, Cells
      <4>2. RdOff \in Cells /\ rWrOff \in Cells
        BY DEF RingTypeOK
      <4> HIDE DEF n, len, j
      <4> QED
        BY <1>0, <4>1, <4>2, ReadFurther
    <3> QED
      BY <3>2, <3>3
  <2> QED
    BY <1>0, <1>1, <2>1, <2>2
<1> QED
  BY <1>7, <1>8, <1>9, <1>10

LEMMA StepReadPublish ==
  ASSUME RingInv, ReadPublish
  PROVE  RingInv'
<1> USE DEF RingInv
<1>1. RdOff' \in Cells /\ AvailWriteSpace' >= AvailWriteSpace
  <2>1. CASE pData = <<>>
    BY <2>1 DEF ReadPublish, RingTypeOK, AvailWriteSpace, Cells
  <2>2. CASE pData # <<>>
    <3>1. /\ Len(pData) \in Nat /\ Len(pData) <= Used
          /\ RdOff' = Advance(RdOff, Len(pData))
      BY <2>2, ReaderNumbers DEF ReadPublish, ReaderInv
    <3> QED
      BY <3>1 DEF Advance, AvailWriteSpace, Used, Distance, RingTypeOK, Cells,
                  ReadPublish
  <2> QED
    BY <2>1, <2>2
<1>2. RingTypeOK'
  BY <1>1 DEF RingTypeOK, ReadPublish, callVars, Cells
<1>3. AvailWriteSpace \in Int /\ AvailWriteSpace' \in Int
  BY <1>2 DEF RingTypeOK, AvailWriteSpace, Cells
<1>4. WriterInv'
  BY <1>1, <1>3 DEF WriterInv, ReadPublish, callVars, RingTypeOK
<1> QED
  BY <1>2, <1>4 DEF ReaderInv, CopiedInv, ReadPublish

------------------------------------------------------------------------------
LEMMA StutterRing ==
  ASSUME RingInv, UNCHANGED vars
  PROVE  RingInv'
BY DEF RingInv, RingTypeOK, WriterInv, ReaderInv, CopiedInv, vars, ringVars,
       callVars, readerVars, AvailWriteSpace, Used, Distance, Advance

LEMMA StepRing ==
  ASSUME RingInv, MaxOverwrite < SizeOfBuffer, [RingNext]_vars
  PROVE  RingInv'
<1>1. CASE \E n \in 0..MaxBytes : Write(n)
  BY <1>1, StepWrite
<1>2. CASE \E n \in 1..MaxBytes : WriteSkip(n)
  BY <1>2, StepWriteSkip
<1>3. CASE PutCharSkip
  BY <1>3, SpaceForAChar, StepBeginCopy DEF PutCharSkip
<1>4. CASE PutCharWaits
  BY <1>4, StepBeginLoop DEF PutCharWaits
<1>5. CASE \E n \in 0..MaxOverwrite : WriteWithOverwrite(n)
  BY <1>5, StepWriteWithOverwrite
<1>6. CASE \E mode \in Modes : SetFlags(mode)
  BY <1>6, StepSetFlags
<1>7. CASE PutCharGoesOn
  BY <1>7, SpaceForAChar, StepBeginCopy DEF PutCharGoesOn
<1>8. CASE WriterStep /\ ~PutCharGoesOn
  BY <1>8, StepBlockingRound, StepCopy, StepPublishWrOff,
     StepOverwriteLastRound, StepOverwriteRound DEF WriterStep
<1>9. CASE \E size \in ReadSizes : ReadBegin(size)
  BY <1>9, StepReadBegin
<1>10. CASE ReadToEnd \/ ReadRest \/ ReadPublish
  BY <1>10, StepReadToEnd, StepReadRest, StepReadPublish
<1>11. CASE UNCHANGED vars
  BY <1>11, StutterRing
<1> QED
  BY <1>1, <1>2, <1>3, <1>4, <1>5, <1>6, <1>7, <1>8, <1>9, <1>10, <1>11
  DEF RingNext, WriterCall, WriterStep, Read

(* The invariant: neither side's offsets ever lead it into cells of the other *)
(* one's (_WriteNoCheck, _WriteBlocking and the others against                *)
(* SEGGER_RTT_ReadUpBufferNoLock).                                            *)
THEOREM RingInvariant ==
  ASSUME MaxOverwrite < SizeOfBuffer
  PROVE  RingSpec => []RingInv
<1>1. RingInit => RingInv
  BY InitRing
<1>2. RingInv /\ [RingNext]_vars => RingInv'
  BY StepRing
<1> QED
  BY <1>1, <1>2, PTL DEF RingSpec

(* Every variable keeps its type; in particular both offsets stay inside the  *)
(* buffer, though no code checks them.                                        *)
THEOREM RingTypeCorrect ==
  ASSUME MaxOverwrite < SizeOfBuffer
  PROVE  RingSpec => []RingTypeOK
<1>1. RingInv => RingTypeOK
  BY DEF RingInv
<1> QED
  BY <1>1, RingInvariant, PTL

(* A reader always holds the beginning of what is in the ring                 *)
(* (SEGGER_RTT_ReadUpBufferNoLock, SEGGER_RTT_ReadNoLock).                    *)
THEOREM ReadsArePrefixes ==
  ASSUME MaxOverwrite < SizeOfBuffer
  PROVE  RingSpec => []ReadIsPrefix
<1>1. ASSUME RingInv PROVE ReadIsPrefix
  <2> SUFFICES ASSUME rpc # "idle" PROVE ReadIsPrefix!2
    BY DEF ReadIsPrefix
  <2>1. Len(pData) \in Nat /\ Used \in Nat /\ Len(pData) <= Used
    BY <1>1, ReaderNumbers DEF RingInv, ReaderInv
  <2>2. \A k \in 1..Len(pData) : pData[k] = Contents[k]
    BY <1>1, <2>1 DEF RingInv, CopiedInv, Contents
  <2> QED
    BY <1>1, <2>1, <2>2 DEF RingInv, ReaderInv
<1> QED
  BY <1>1, RingInvariant, PTL

------------------------------------------------------------------------------
(* No step changes a visible cell: one that stores bytes fills free cells     *)
(* only, the others leave the buffer alone.                                   *)
LEMMA StepKeepsVisible ==
  ASSUME RingInv, [RingNext]_vars, NEW k \in 1..Used
  PROVE  pBuffer'[Advance(RdOff, k - 1)] = pBuffer[Advance(RdOff, k - 1)]
<1> USE DEF RingInv
<1>1. RdOff \in Cells /\ WrOff \in Cells /\ chunk \in Nat /\ NumBytes \in Nat
  BY DEF RingTypeOK
<1>2. CASE Copy
  BY <1>1, <1>2, FillingKeepsVisible DEF Copy, WriterInv
<1>3. CASE OverwriteLastRound
  BY <1>1, <1>3, FillingKeepsVisible DEF OverwriteLastRound, WriterInv
<1>4. CASE OverwriteRound
  <2>1. AvailWriteSpace \in Nat
    BY <1>1, UsedAndFree
  <2>2. chunk <= AvailWriteSpace
    BY <1>1, <1>4, <2>1 DEF OverwriteRound, WriterInv
  <2> QED
    BY <1>1, <1>4, <2>2, FillingKeepsVisible DEF OverwriteRound
<1>5. CASE UNCHANGED pBuffer
  BY <1>5
<1> QED
  BY <1>2, <1>3, <1>4, <1>5
  DEF RingNext, WriterCall, WriterStep, Read, Write, WriteSkip, PutCharSkip,
      PutCharWaits, PutCharGoesOn, BeginCopy, BeginLoop, BlockingRound,
      PublishWrOff, WriteWithOverwrite, SetFlags, ReadBegin, ReadToEnd, ReadRest,
      ReadPublish, vars, ringVars

(* A byte stays as it was written until it has been read (_WriteNoCheck and   *)
(* the copies of the other functions that write).                             *)
THEOREM UnreadStaysUntouched ==
  ASSUME MaxOverwrite < SizeOfBuffer
  PROVE  RingSpec => UnreadUntouched
<1>1. ASSUME RingInv, [RingNext]_vars
      PROVE  [\A k \in 1..Used : pBuffer'[Advance(RdOff, k - 1)] = Contents[k]]_vars
  BY <1>1, StepKeepsVisible DEF Contents
<1> QED
  BY <1>1, RingInvariant, PTL DEF RingSpec, UnreadUntouched

------------------------------------------------------------------------------
(* The ring as a queue.                                                       *)

(* What a call has begun: outside blocking mode nobody waits and one copy is  *)
(* all there is, which in skip mode is the message as it was passed.          *)
CallInv ==
  /\ wpc \in {"blocking", "wait"} => Flags = "BLOCK_IF_FIFO_FULL"
  /\ wpc \in {"copy", "copied"} =>
       /\ NumBytes = chunk \/ Flags = "BLOCK_IF_FIFO_FULL"
       /\ chunk = asked \/ Flags # "NO_BLOCK_SKIP"

(* The bytes that are copied and not yet visible carry the next numbers, and  *)
(* a write that overwrites ends in the round that begins at offset 0.         *)
StoredInv ==
  /\ wpc = "copied" => \A k \in 0..(chunk - 1) :
                         pBuffer[Advance(WrOff, k)] = (next + k) % Numbers
  /\ wpc = "overwrite" /\ WrOff = 0 => NumBytes < chunk

QueueInv == RingInv /\ CallInv /\ StoredInv

LEMMA InitQueue == RingInit => QueueInv
BY InitRing DEF RingInit, QueueInv, CallInv, StoredInv

(* How calls begin and go on in their mode.                                   *)
LEMMA StepCall ==
  ASSUME RingInv, CallInv, [RingNext]_vars
  PROVE  CallInv'
<1>1. CASE \E n \in 0..MaxBytes : Write(n)
  BY <1>1 DEF CallInv, Write, BeginCopy, BeginLoop, ringVars
<1>2. CASE \E n \in 1..MaxBytes : WriteSkip(n)
  BY <1>2 DEF CallInv, WriteSkip, BeginCopy, ringVars
<1>3. CASE PutCharSkip \/ PutCharWaits \/ PutCharGoesOn
  BY <1>3 DEF CallInv, PutCharSkip, PutCharWaits, PutCharGoesOn, BeginCopy,
              BeginLoop, ringVars
<1>4. CASE \E n \in 0..MaxOverwrite : WriteWithOverwrite(n)
  BY <1>4 DEF CallInv, WriteWithOverwrite
<1>5. CASE \E mode \in Modes : SetFlags(mode)
  BY <1>5 DEF CallInv, SetFlags
<1>6. CASE BlockingRound
  BY <1>6 DEF CallInv, BlockingRound, ringVars
<1>7. CASE Copy
  BY <1>7 DEF CallInv, Copy, callVars
<1>8. CASE PublishWrOff
  BY <1>8 DEF CallInv, PublishWrOff
<1>9. CASE OverwriteLastRound \/ OverwriteRound
  BY <1>9 DEF CallInv, OverwriteLastRound, OverwriteRound
<1>10. CASE UNCHANGED <<wpc, Flags, callVars>>
  BY <1>10 DEF CallInv, callVars
<1> QED
  BY <1>1, <1>2, <1>3, <1>4, <1>5, <1>6, <1>7, <1>8, <1>9, <1>10
  DEF RingNext, WriterCall, WriterStep, Read, ReadBegin, ReadToEnd, ReadRest,
      ReadPublish, vars, ringVars

(* Cell k of those a copy fills holds number k of those to come.              *)
LEMMA FilledCell ==
  ASSUME RingTypeOK, NEW n \in Nat, n <= AvailWriteSpace, NEW k \in 0..(n - 1)
  PROVE  Filled(n)[Advance(WrOff, k)] = (next + k) % Numbers
<1>1. Advance(WrOff, k) \in Cells /\ Distance(WrOff, Advance(WrOff, k)) = k
  BY DEF RingTypeOK, Cells, Advance, Distance, AvailWriteSpace
<1> QED
  BY <1>1 DEF Filled

LEMMA StepStored ==
  ASSUME RingInv, StoredInv, MaxOverwrite < SizeOfBuffer, [RingNext]_vars
  PROVE  StoredInv'
<1> USE DEF RingInv
<1>1. CASE WriterCall \/ PutCharGoesOn
  <2>1. CASE \E n \in 0..MaxOverwrite : WriteWithOverwrite(n)
    BY <2>1 DEF StoredInv, WriteWithOverwrite, RingTypeOK, Cells
  <2>2. CASE wpc' \notin {"copied", "overwrite"}
    BY <2>2 DEF StoredInv
  <2> QED
    BY <1>1, <2>1, <2>2
    DEF WriterCall, Write, WriteSkip, PutCharSkip, PutCharWaits, PutCharGoesOn,
        SetFlags, BeginCopy, BeginLoop
<1>2. CASE BlockingRound \/ PublishWrOff \/ OverwriteLastRound
  BY <1>2 DEF StoredInv, BlockingRound, PublishWrOff, OverwriteLastRound
<1>3. CASE Copy
  <2>1. chunk \in Nat /\ chunk <= AvailWriteSpace
    BY <1>3 DEF Copy, WriterInv, RingTypeOK
  <2>2. pBuffer' = Filled(chunk) /\ UNCHANGED <<WrOff, chunk, next>>
    BY <1>3 DEF Copy, callVars
  <2>3. wpc' = "copied"
    BY <1>3 DEF Copy
  <2> QED
    BY <2>1, <2>2, <2>3, FilledCell DEF StoredInv, Advance
<1>4. CASE OverwriteRound
  <2>1. chunk \in 1..NumBytes /\ NumBytes \in Nat /\ NumBytes <= AvailWriteSpace
    BY <1>4 DEF OverwriteRound, WriterInv, RingTypeOK, Cells
  <2>2. AvailWriteSpace <= SizeOfBuffer - 1 /\ AvailWriteSpace \in Nat
    BY UsedAndFree DEF RingTypeOK
  <2>3. NumBytes - chunk < SizeOfBuffer - 1
    BY <2>1, <2>2
  <2>4. \/ wpc' = "idle"
        \/ wpc' = "overwrite" /\ NumBytes' < chunk'
    BY <1>4, <2>3 DEF OverwriteRound
  <2> QED
    BY <2>4 DEF StoredInv
<1>5. CASE UNCHANGED <<wpc, WrOff, pBuffer, next, chunk, NumBytes>>
  BY <1>5 DEF StoredInv, Advance
<1> QED
  BY <1>1, <1>2, <1>3, <1>4, <1>5
  DEF RingNext, WriterStep, Read, ReadBegin, ReadToEnd, ReadRest, ReadPublish,
      vars, ringVars, callVars

LEMMA StepQueue ==
  ASSUME QueueInv, MaxOverwrite < SizeOfBuffer, [RingNext]_vars
  PROVE  QueueInv'
BY StepRing, StepCall, StepStored DEF QueueInv

(* In skip mode nobody sees part of a message, for messages of every length,  *)
(* whatever the mode was before (SEGGER_RTT_WriteNoLock).                     *)
THEOREM MessagesAreWhole ==
  ASSUME MaxOverwrite < SizeOfBuffer
  PROVE  RingSpec => MessagesWhole
<1>1. QueueInv /\ [RingNext]_vars => QueueInv'
  BY StepQueue
<1>2. ASSUME QueueInv, RingNext
      PROVE  Flags = "NO_BLOCK_SKIP" /\ wpc = "copied" /\ wpc' # wpc
               => chunk = asked /\ wpc' = "idle"
  <2> SUFFICES ASSUME Flags = "NO_BLOCK_SKIP", wpc = "copied", wpc' # wpc
               PROVE  chunk = asked /\ wpc' = "idle"
    OBVIOUS
  <2>1. PublishWrOff
    BY <1>2 DEF RingNext, WriterCall, WriterStep, Read, Write, WriteSkip,
      PutCharSkip, PutCharWaits, PutCharGoesOn, BlockingRound, Copy,
      WriteWithOverwrite, OverwriteLastRound, OverwriteRound, SetFlags,
      ReadBegin, ReadToEnd, ReadRest, ReadPublish
  <2> QED
    BY <1>2, <2>1 DEF PublishWrOff, QueueInv, CallInv
<1>3. QueueInv /\ [RingNext]_vars =>
        [Flags = "NO_BLOCK_SKIP" /\ wpc = "copied" /\ wpc' # wpc
           => chunk = asked /\ wpc' = "idle"]_vars
  BY <1>2
<1> QED
  BY <1>1, <1>3, InitQueue, PTL DEF RingSpec, MessagesWhole

(* Distances and numbers stay in their ranges.                                *)
LEMMA DistanceType ==
  ASSUME NEW from \in Cells, NEW to \in Cells
  PROVE  Distance(from, to) \in 0..(SizeOfBuffer - 1)
BY DEF Cells, Distance

LEMMA NumberType ==
  ASSUME NEW n \in Nat
  PROVE  n % Numbers \in Bytes /\ (n < Numbers => n % Numbers = n)
<1>1. n % Numbers \in 0..(Numbers - 1)
  OBVIOUS
<1>2. n < Numbers => n % Numbers = n
  OBVIOUS
<1> QED
  BY <1>1, <1>2 DEF Bytes

(* What is visible is a sequence of bytes, as long as the distance between    *)
(* the offsets; before a step and after it.                                   *)
LEMMA ContentsType ==
  ASSUME RingTypeOK
  PROVE  /\ Contents \in Seq(Bytes) /\ Len(Contents) = Used
         /\ Used \in 0..(SizeOfBuffer - 1)
         /\ \A k \in 1..Used : Contents[k] = pBuffer[Advance(RdOff, k - 1)]
<1>1. Used \in 0..(SizeOfBuffer - 1)
  BY UsedAndFree DEF RingTypeOK
<1>2. ASSUME NEW k \in 1..Used
      PROVE  pBuffer[Advance(RdOff, k - 1)] \in Bytes
  <2>1. Advance(RdOff, k - 1) \in Cells
    BY <1>1, VisibleIsBehindFree DEF RingTypeOK
  <2> QED
    BY <2>1 DEF RingTypeOK
<1> QED
  BY <1>1, <1>2 DEF Contents

LEMMA NextContentsType ==
  ASSUME RingTypeOK, RingTypeOK'
  PROVE  /\ Contents' \in Seq(Bytes) /\ Len(Contents') = Used'
         /\ Used' \in 0..(SizeOfBuffer - 1)
         /\ \A k \in 1..Used' : Contents'[k] = pBuffer'[Advance(RdOff', k - 1)]
<1>1. RdOff' \in Cells /\ WrOff' \in Cells /\ pBuffer' \in [Cells -> Bytes]
  BY DEF RingTypeOK
<1>2. Used' = Distance(RdOff', WrOff')
  BY DEF Used, Distance
<1>3. Used' \in 0..(SizeOfBuffer - 1)
  BY <1>1, <1>2, DistanceType
<1>4. ASSUME NEW k \in 1..Used'
      PROVE  pBuffer'[Advance(RdOff', k - 1)] \in Bytes
  <2>1. k - 1 \in 0..SizeOfBuffer
    BY <1>3
  <2> QED
    BY <1>1, <2>1, AdvanceIsCell
<1>5. Contents' = [k \in 1..Used' |-> pBuffer'[Advance(RdOff', k - 1)]]
  BY DEF Contents, Advance
<1> QED
  BY <1>3, <1>4, <1>5

(* The queue sees nothing of a step that leaves the offsets and the bytes     *)
(* between them.                                                              *)
LEMMA QueueStutters ==
  ASSUME RingTypeOK, RingTypeOK', UNCHANGED <<RdOff, WrOff, next>>,
         \A k \in 1..Used : pBuffer'[Advance(RdOff, k - 1)]
                              = pBuffer[Advance(RdOff, k - 1)]
  PROVE  UNCHANGED Queue!fifoVars
<1>1. Used' = Used
  BY DEF Used, Distance
<1>2. \A k \in 1..Used : Contents'[k] = Contents[k]
  BY <1>1, ContentsType, NextContentsType
<1>3. Contents' = Contents
  BY <1>1, <1>2, ContentsType, NextContentsType, SeqEqual
<1> QED
  BY <1>3 DEF Queue!fifoVars

(* A writer that makes n free bytes visible, with the next numbers in them,   *)
(* puts them into the queue.                                                  *)
LEMMA QueuePuts ==
  ASSUME RingTypeOK, RingTypeOK', NEW n \in Nat, n <= AvailWriteSpace,
         RdOff' = RdOff, WrOff' = Advance(WrOff, n),
         next' = (next + n) % Numbers,
         \A k \in 1..Used : pBuffer'[Advance(RdOff, k - 1)]
                              = pBuffer[Advance(RdOff, k - 1)],
         \A k \in 0..(n - 1) : pBuffer'[Advance(WrOff, k)] = (next + k) % Numbers
  PROVE  (n \in 1..(SizeOfBuffer - 1) /\ Queue!Put(n)) \/ UNCHANGED Queue!fifoVars
<1> DEFINE new == [k \in 1..n |-> (next + k - 1) % Numbers]
<1>1. /\ Used' = Used + n /\ Used \in Nat /\ Used + n <= SizeOfBuffer - 1
      /\ RdOff \in Cells /\ WrOff \in Cells
  BY Published, UsedAndFree DEF RingTypeOK
<1>2. new \in Seq(Bytes) /\ Len(new) = n
  <2>1. ASSUME NEW k \in 1..n
        PROVE  (next + k - 1) % Numbers \in Bytes
    <3>1. next + k - 1 \in Nat
      BY DEF RingTypeOK, Bytes
    <3> QED
      BY <3>1, NumberType
  <2> QED
    BY <2>1
<1>3. ASSUME NEW k \in 1..n
      PROVE  /\ Advance(RdOff, Used + k - 1) = Advance(WrOff, k - 1)
             /\ pBuffer'[Advance(WrOff, k - 1)] = new[k]
  <2>1. Advance(RdOff, Used + k - 1) = Advance(WrOff, k - 1)
    BY <1>1 DEF Cells, Advance, Used, Distance
  <2>2. k - 1 \in 0..(n - 1) /\ next + (k - 1) = next + k - 1
    BY DEF RingTypeOK, Bytes
  <2> QED
    BY <2>1, <2>2
<1> HIDE DEF new
<1>4. /\ Contents \o new \in Seq(Bytes)
      /\ Len(Contents \o new) = Used + n
      /\ \A k \in 1..(Used + n) :
           (Contents \o new)[k] = IF k <= Used THEN Contents[k] ELSE new[k - Used]
  BY <1>2, ContentsType, ConcatProperties
<1>5. ASSUME NEW k \in 1..(Used + n)
      PROVE  Contents'[k] = (Contents \o new)[k]
  <2>1. Contents'[k] = pBuffer'[Advance(RdOff, k - 1)]
    BY <1>1, NextContentsType
  <2>2. CASE k <= Used
    <3>1. k \in 1..Used
      BY <2>2
    <3> QED
      BY <1>4, <2>1, <2>2, <3>1, ContentsType
  <2>3. CASE ~(k <= Used)
    <3>1. k - Used \in 1..n /\ Used + (k - Used) - 1 = k - 1
      BY <1>1, <2>3
    <3>2. pBuffer'[Advance(RdOff, k - 1)] = new[k - Used]
      BY <1>3, <3>1
    <3> QED
      BY <1>4, <2>1, <2>3, <3>2
  <2> QED
    BY <2>2, <2>3
<1>6. Contents' = Contents \o new
  <2>1. Contents' \in Seq(Bytes) /\ Len(Contents') = Used + n
    BY <1>1, NextContentsType
  <2> QED
    BY <1>4, <1>5, <2>1, SeqEqual
<1>7. CASE n = 0
  <2>1. next' = next
    <3>1. next \in Nat /\ next < Numbers /\ next + n = next
      BY <1>7 DEF RingTypeOK, Bytes
    <3> QED
      BY <3>1, NumberType
  <2>2. UNCHANGED <<RdOff, WrOff, next>>
    BY <1>7, <2>1 DEF Advance, RingTypeOK, Cells
  <2> QED
    BY <2>2, QueueStutters
<1>8. CASE n # 0
  <2>1. n \in 1..(SizeOfBuffer - 1)
    BY <1>1, <1>8
  <2>2. Len(Contents) + n <= SizeOfBuffer - 1
    BY <1>1, ContentsType
  <2> QED
    BY <1>6, <2>1, <2>2 DEF Queue!Put, new
<1> QED
  BY <1>7, <1>8

(* A step that moves RdOff n visible bytes on takes them from the queue.      *)
LEMMA QueueTakes ==
  ASSUME RingTypeOK, RingTypeOK', NEW n \in Nat, n <= Used,
         RdOff' = Advance(RdOff, n), UNCHANGED <<WrOff, pBuffer, next>>
  PROVE  (n \in 1..(SizeOfBuffer - 1) /\ Queue!Take(n)) \/ UNCHANGED Queue!fifoVars
<1>1. /\ Used \in 0..(SizeOfBuffer - 1) /\ RdOff \in Cells /\ WrOff \in Cells
  BY UsedAndFree DEF RingTypeOK
<1>2. Used' = Used - n
  BY <1>1 DEF Used, Distance, Advance, Cells
<1>3. ASSUME NEW k \in 1..(Used - n)
      PROVE  Advance(RdOff', k - 1) = Advance(RdOff, (n + k) - 1)
  BY <1>1 DEF Advance, Cells
<1>4. ASSUME NEW k \in (n + 1)..Used
      PROVE  Contents[k] \in Bytes
  BY ContentsType
<1> DEFINE rest == SubSeq(Contents, n + 1, Used)
<1>5. /\ rest \in Seq(Bytes)
      /\ Len(rest) = Used - n
      /\ \A k \in 1..(Used - n) : rest[k] = Contents[n + k]
  <2>1. n + 1 \in Int /\ Used \in Int
    BY <1>1
  <2>2. /\ rest \in Seq(Bytes)
        /\ Len(rest) = IF n + 1 <= Used THEN Used - (n + 1) + 1 ELSE 0
        /\ \A k \in 1..(Used - (n + 1) + 1) : rest[k] = Contents[(n + 1) + k - 1]
    BY <1>4, <2>1, SubSeqProperties
  <2> HIDE DEF rest
  <2>3. /\ Used - (n + 1) + 1 = Used - n
        /\ \A k \in 1..(Used - n) : (n + 1) + k - 1 = n + k
        /\ ~(n + 1 <= Used) => Used - n = 0
    BY <1>1
  <2> QED
    BY <2>2, <2>3
<1> HIDE DEF rest
<1>6. ASSUME NEW k \in 1..(Used - n)
      PROVE  Contents'[k] = rest[k]
  <2>1. Contents'[k] = pBuffer[Advance(RdOff', k - 1)]
    BY <1>2, NextContentsType
  <2>2. n + k \in 1..Used
    BY <1>1
  <2> QED
    BY <1>3, <1>5, <2>1, <2>2, ContentsType
<1>7. Contents' = rest
  <2>1. Contents' \in Seq(Bytes) /\ Len(Contents') = Used - n
    BY <1>2, NextContentsType
  <2> QED
    BY <1>5, <1>6, <2>1, SeqEqual
<1>8. CASE n = 0
  <2>1. UNCHANGED <<RdOff, WrOff, next>>
    BY <1>1, <1>8 DEF Advance, Cells
  <2> QED
    BY <2>1, QueueStutters
<1>9. CASE n # 0
  <2>1. n \in 1..(SizeOfBuffer - 1)
    BY <1>1, <1>9
  <2> QED
    BY <1>7, <2>1, ContentsType DEF Queue!Take, rest
<1> QED
  BY <1>8, <1>9

FifoStep ==
  \E n \in 1..(SizeOfBuffer - 1) : Queue!Put(n) \/ Queue!Take(n)

(* Every step of the ring is one of the queue.                                *)
LEMMA StepImplements ==
  ASSUME QueueInv, QueueInv', MaxOverwrite < SizeOfBuffer, [RingNext]_vars
  PROVE  FifoStep \/ UNCHANGED Queue!fifoVars
<1> USE DEF QueueInv, RingInv
<1>0. RingTypeOK /\ RingTypeOK'
  OBVIOUS
<1>1. CASE UNCHANGED <<RdOff, WrOff, next>>
  <2>1. \A k \in 1..Used : pBuffer'[Advance(RdOff, k - 1)]
                             = pBuffer[Advance(RdOff, k - 1)]
    BY StepKeepsVisible
  <2> QED
    BY <1>0, <1>1, <2>1, QueueStutters
<1>2. CASE PublishWrOff
  <2>1. /\ chunk \in Nat /\ chunk <= AvailWriteSpace
        /\ RdOff' = RdOff /\ WrOff' = Advance(WrOff, chunk)
        /\ next' = (next + chunk) % Numbers /\ pBuffer' = pBuffer
    BY <1>2 DEF PublishWrOff, RingTypeOK, WriterInv
  <2>2. \A k \in 0..(chunk - 1) :
          pBuffer'[Advance(WrOff, k)] = (next + k) % Numbers
    BY <1>2, <2>1 DEF StoredInv, PublishWrOff
  <2> QED
    BY <1>0, <2>1, <2>2, QueuePuts DEF FifoStep
<1>3. CASE OverwriteLastRound \/ OverwriteRound
  <2> DEFINE n == IF chunk > NumBytes THEN NumBytes ELSE chunk
  <2>1. /\ wpc = "overwrite" /\ n \in Nat /\ n <= AvailWriteSpace
        /\ pBuffer' = Filled(n) /\ next' = (next + n) % Numbers
        /\ RdOff' = RdOff
    <3>1. chunk \in Nat /\ NumBytes \in Nat /\ NumBytes <= AvailWriteSpace
      BY <1>3
      DEF OverwriteLastRound, OverwriteRound, RingTypeOK, WriterInv
    <3>2. AvailWriteSpace \in Nat
      BY UsedAndFree DEF RingTypeOK
    <3>3. CASE OverwriteLastRound
      BY <3>1, <3>3 DEF OverwriteLastRound
    <3>4. CASE OverwriteRound
      BY <3>1, <3>2, <3>4 DEF OverwriteRound
    <3> QED
      BY <1>3, <3>3, <3>4
  <2>2. WrOff' = Advance(WrOff, n)
    <3>1. CASE OverwriteLastRound
      <4>1. chunk <= SizeOfBuffer - WrOff /\ chunk > NumBytes /\ NumBytes \in Nat
        BY <3>1 DEF OverwriteLastRound, WriterInv, RingTypeOK, Cells
      <4>2. WrOff' = WrOff + NumBytes
        BY <3>1 DEF OverwriteLastRound
      <4> QED
        BY <4>1, <4>2 DEF Advance, RingTypeOK, Cells
    <3>2. CASE OverwriteRound
      <4>1. chunk = SizeOfBuffer - WrOff /\ chunk <= NumBytes /\ WrOff' = 0
        BY <3>2 DEF OverwriteRound, WriterInv, StoredInv, RingTypeOK
      <4> QED
        BY <4>1 DEF Advance, RingTypeOK, Cells
    <3> QED
      BY <1>3, <3>1, <3>2
  <2> HIDE DEF n
  <2>3. \A k \in 0..(n - 1) : pBuffer'[Advance(WrOff, k)] = (next + k) % Numbers
    BY <1>0, <2>1, FilledCell
  <2>4. \A k \in 1..Used : pBuffer'[Advance(RdOff, k - 1)]
                             = pBuffer[Advance(RdOff, k - 1)]
    BY StepKeepsVisible
  <2> QED
    BY <1>0, <2>1, <2>2, <2>3, <2>4, QueuePuts DEF FifoStep
<1>4. CASE \E n \in 0..MaxOverwrite : WriteWithOverwrite(n)
  <2>1. PICK n \in 0..MaxOverwrite : WriteWithOverwrite(n)
    BY <1>4
  <2> DEFINE lost == n - AvailWriteSpace
  <2>2. UNCHANGED <<WrOff, pBuffer, next>>
    BY <2>1 DEF WriteWithOverwrite
  <2>3. CASE n <= AvailWriteSpace
    BY <1>1, <2>1, <2>2, <2>3 DEF WriteWithOverwrite
  <2>4. CASE ~(n <= AvailWriteSpace)
    <3>1. /\ lost \in Nat /\ lost <= Used /\ lost \in 0..SizeOfBuffer
          /\ AvailWriteSpace \in Nat
      BY <2>4, UsedAndFree DEF RingTypeOK
    <3>2. RdOff + n - AvailWriteSpace = RdOff + lost
      BY <3>1 DEF RingTypeOK, Cells
    <3>3. RdOff' = Advance(RdOff, lost)
      BY <2>1, <2>4, <3>1, <3>2, ModIsAdvance DEF WriteWithOverwrite, RingTypeOK
    <3> HIDE DEF lost
    <3> QED
      BY <1>0, <2>2, <3>1, <3>3, QueueTakes DEF FifoStep
  <2> QED
    BY <2>3, <2>4
<1>5. CASE ReadPublish
  <2>1. CASE pData = <<>>
    BY <1>1, <1>5, <2>1 DEF ReadPublish
  <2>2. CASE pData # <<>>
    <3>1. /\ Len(pData) \in Nat /\ Len(pData) <= Used
          /\ RdOff' = Advance(RdOff, Len(pData))
          /\ UNCHANGED <<WrOff, pBuffer, next>>
      BY <1>5, <2>2, ReaderNumbers DEF ReadPublish, ReaderInv
    <3> QED
      BY <1>0, <3>1, QueueTakes DEF FifoStep
  <2> QED
    BY <2>1, <2>2
<1> QED
  BY <1>1, <1>2, <1>3, <1>4, <1>5
  DEF RingNext, WriterCall, WriterStep, Read, Write, WriteSkip, PutCharSkip,
      PutCharWaits, PutCharGoesOn, BeginCopy, BeginLoop, BlockingRound, Copy,
      SetFlags, ReadBegin, ReadToEnd, ReadRest, vars, ringVars

(* The ring of SEGGER_RTT.c is a queue of SizeOfBuffer - 1 bytes: writer and  *)
(* reader may stop after any of their statements, a write may drop the oldest *)
(* bytes as a whole, and nobody ever sees anything else.                      *)
THEOREM RingImplementsFifo ==
  ASSUME MaxOverwrite < SizeOfBuffer
  PROVE  RingSpec => ImplementsFifo
<1>1. QueueInv /\ [RingNext]_vars => QueueInv'
  BY StepQueue
<1>2. RingInit => Queue!FifoInit
  <2>1. RingInit => Used = 0 /\ next = 0
    BY DEF RingInit, Used, Distance
  <2>2. RingInit => Len(Contents) = 0 /\ Contents \in Seq(Bytes)
    BY <2>1, InitRing, ContentsType DEF RingInv
  <2> QED
    BY <2>1, <2>2 DEF Queue!FifoInit
<1>3. QueueInv /\ QueueInv' /\ [RingNext]_vars => [FifoStep]_(Queue!fifoVars)
  BY StepImplements
<1>4. RingSpec => []QueueInv
  BY <1>1, InitQueue, PTL DEF RingSpec
<1>5. RingSpec => [][FifoStep]_(Queue!fifoVars)
  BY <1>3, <1>4, PTL DEF RingSpec
<1> QED
  BY <1>2, <1>5, PTL DEF RingSpec, ImplementsFifo, Queue!FifoSpec, FifoStep

==============================================================================
