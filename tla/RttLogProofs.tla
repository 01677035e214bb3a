---------------------------- MODULE RttLogProofs -----------------------------
(* The lines of the log stay whole, for every size of the ring and of the     *)
(* calls' own buffers and for lines of every length.                          *)
EXTENDS RttLog, TLAPS

USE LogAssumption

Labels == {"idle", "format", "locked", "place", "copy", "publish"}
Lengths(c) == IF c = "main" THEN MainLengths ELSE HandlerLengths

Call == [pc : Labels, of : Nat, sent : Nat, NumBytes : Nat, off : Cells]

(* A call has handed on whole buffers of its line before the present one.     *)
CallOf(c, r) ==
  /\ r.pc = "idle" => r.sent = 0
  /\ r.pc # "idle" => /\ r.of \in Lengths(c)
                     /\ r.sent < r.of
                     /\ r.sent % PrintfBufferSize = 0
  /\ r.pc \in {"locked", "place", "copy", "publish"} =>
       r.NumBytes = Shorter(r.of - r.sent, PrintfBufferSize)

CallType ==
  /\ call \in [Contexts -> Call]
  /\ \A c \in Contexts : CallOf(c, call[c])

LogType ==
  /\ RdOff \in Cells /\ WrOff \in Cells
  /\ pBuffer \in [Cells -> Byte]
  /\ parity \in [Contexts -> {0, 1}]
  /\ seen \in Byte

TypeInv == LogType /\ CallType

LineByte(c, k) ==
  [from |-> c, line |-> parity[c], k |-> k, last |-> k = call[c].of]

(* What a call under the lock has found out about the ring stays true until   *)
(* it has published its bytes; and where its line goes on, the newest byte in *)
(* the ring is the one before.                                                *)
OwnInv(c) ==
  /\ call[c].pc \in {"place", "copy", "publish"} => call[c].NumBytes <= Avail
  /\ call[c].pc \in {"copy", "publish"} => call[c].off = WrOff
  /\ call[c].pc = "publish" =>
       \A i \in Cells : Distance(WrOff, i) < call[c].NumBytes =>
         pBuffer[i] = LineByte(c, call[c].sent + Distance(WrOff, i) + 1)
  /\ call[c].sent # 0 =>
       /\ Stream(Used).from = c /\ Stream(Used).line = parity[c]
       /\ Stream(Used).k = call[c].sent

(* Another line may begin after the newest byte.                              *)
MayEnd(a) == a.last \/ a.k % PrintfBufferSize = 0

LogInv ==
  /\ TypeInv
  /\ \A c \in Contexts : OwnInv(c)
  /\ MayEnd(Stream(Used))
  /\ LinesUnmixed

------------------------------------------------------------------------------
(* Offsets.                                                                   *)

(* The offset n bytes on.                                                     *)
Advance(off, n) ==
  IF off + n < SizeOfBuffer THEN off + n ELSE off + n - SizeOfBuffer

(* The remainder of the code is one subtraction at most.                      *)
LEMMA ModIsAdvance ==
  ASSUME NEW off \in Cells, NEW n \in 0..SizeOfBuffer
  PROVE  (off + n) % SizeOfBuffer = Advance(off, n)
BY DEF Cells, Advance

(* An offset moved on is one.                                                 *)
LEMMA AdvanceIsCell ==
  ASSUME NEW off \in Cells, NEW n \in 0..SizeOfBuffer
  PROVE  Advance(off, n) \in Cells
BY DEF Cells, Advance

(* One byte is lost to tell a full ring from an empty one.                    *)
LEMMA UsedType ==
  ASSUME RdOff \in Cells, WrOff \in Cells
  PROVE  Used \in 0..(SizeOfBuffer - 1) /\ Avail = SizeOfBuffer - 1 - Used
                                        /\ Avail \in Nat
BY DEF Cells, Used, Distance, Avail

(* A multiple of m has its next one m further on.                             *)
LEMMA NextMultiple ==
  ASSUME NEW m \in Nat \ {0}, NEW n \in Nat, n % m = 0
  PROVE  (n + m) % m = 0
<1> DEFINE q == n \div m
<1>1. q \in Nat
  OBVIOUS
<1>2. n = q * m + (n % m)
  OBVIOUS
<1>3. n + m = (q + 1) * m
  BY <1>1, <1>2
<1> HIDE DEF q
<1>4. ((q + 1) * m + 0) % m = 0
  BY <1>1
<1> QED
  BY <1>1, <1>3, <1>4

(* What a call hands on is a full buffer or the rest of its line.             *)
LEMMA HandedOn ==
  ASSUME NEW of \in Nat, NEW sent \in Nat, sent < of,
         sent % PrintfBufferSize = 0,
         NEW n, n = Shorter(of - sent, PrintfBufferSize)
  PROVE  /\ n \in 1..PrintfBufferSize /\ sent + n <= of
         /\ sent + n = of \/ (sent + n) % PrintfBufferSize = 0
<1>1. n \in 1..PrintfBufferSize /\ sent + n <= of
  BY DEF Shorter
<1>2. sent + n = of \/ n = PrintfBufferSize
  BY DEF Shorter
<1>3. (sent + PrintfBufferSize) % PrintfBufferSize = 0
  BY NextMultiple
<1> QED
  BY <1>1, <1>2, <1>3

------------------------------------------------------------------------------
(* Types.                                                                     *)

(* No call is under way.                                                      *)
LEMMA IdleCall ==
  ASSUME NEW c \in Contexts
  PROVE  Idle \in Call /\ CallOf(c, Idle)
BY DEF Idle, Call, CallOf, Labels, Cells

(* A step of one call leaves the other alone.                                 *)
LEMMA CallStep ==
  ASSUME CallType, NEW c \in Contexts, NEW r \in Call, CallOf(c, r),
         call' = [call EXCEPT ![c] = r]
  PROVE  CallType'
BY DEF CallType, CallOf

(* What is known of a call under way.                                         *)
LEMMA UnderWay ==
  ASSUME TypeInv, NEW c \in Contexts, call[c].pc # "idle"
  PROVE  /\ call[c] \in Call
         /\ call[c].of \in Nat /\ call[c].sent \in Nat
         /\ call[c].NumBytes \in Nat /\ call[c].off \in Cells
         /\ call[c].of \in Lengths(c) /\ call[c].sent < call[c].of
         /\ call[c].sent % PrintfBufferSize = 0
BY DEF TypeInv, CallType, CallOf, Call

(* The byte before the first line ends one.                                   *)
LEMMA InitType == LogInit => TypeInv
<1> SUFFICES ASSUME LogInit PROVE TypeInv
  OBVIOUS
<1> DEFINE end == [from |-> "main", line |-> 0, k |-> 1, last |-> TRUE]
<1>1. end \in Byte
  <2>0. PICK n \in MainLengths : TRUE
    OBVIOUS
  <2>1. 1 \in 1..n
    BY <2>0
  <2>2. 1 \in Positions
    BY <2>1 DEF Positions
  <2> QED
    BY <2>2 DEF Byte, Contexts
<1>2. LogType
  BY <1>1 DEF LogInit, LogType, Cells
<1>3. CallType
  BY IdleCall DEF LogInit, CallType
<1> QED
  BY <1>2, <1>3 DEF TypeInv

(* Who prints, and what the calls do to their own variables.                  *)
LEMMA StepPrintfType ==
  ASSUME TypeInv, NEW c \in Contexts, NEW n \in Lengths(c),
         SEGGER_RTT_printf(c, n)
  PROVE  TypeInv'
<1> DEFINE r == [Idle EXCEPT !.pc = "format", !.of = n]
<1>1. n \in Nat /\ 0 < n /\ 0 % PrintfBufferSize = 0
  BY DEF Lengths
<1>2. LogType'
  BY DEF TypeInv, LogType, SEGGER_RTT_printf, ringVars
<1>3. r \in Call /\ r.pc = "format" /\ r.of = n /\ r.sent = 0
  BY <1>1, IdleCall DEF Idle, Call, Labels
<1>4. call' = [call EXCEPT ![c] = r]
  BY DEF SEGGER_RTT_printf
<1> HIDE DEF r
<1>5. CallOf(c, r)
  BY <1>1, <1>3 DEF CallOf
<1> QED
  BY <1>2, <1>3, <1>4, <1>5, CallStep DEF TypeInv

LEMMA StepLockType ==
  ASSUME TypeInv, NEW c \in Contexts, Lock(c)
  PROVE  TypeInv'
<1> DEFINE n == Shorter(call[c].of - call[c].sent, PrintfBufferSize)
           r == [call[c] EXCEPT !.pc = "locked", !.NumBytes = n]
<1>1. call[c].pc # "idle"
  BY DEF Lock
<1>2. n \in Nat
  BY <1>1, UnderWay DEF Shorter
<1>3. /\ r \in Call /\ r.pc = "locked" /\ r.NumBytes = n
      /\ r.of = call[c].of /\ r.sent = call[c].sent
  BY <1>1, <1>2, UnderWay DEF Call, Labels
<1>4. CallOf(c, r)
  BY <1>1, <1>3, UnderWay DEF CallOf
<1>5. call' = [call EXCEPT ![c] = r]
  BY DEF Lock, TypeInv, CallType
<1>6. LogType'
  BY DEF TypeInv, LogType, Lock, ringVars
<1> HIDE DEF r
<1> QED
  BY <1>3, <1>4, <1>5, <1>6, CallStep DEF TypeInv

(* A step of a call that is its label only, or ends it.                       *)
LEMMA LabelStep ==
  ASSUME TypeInv, NEW c \in Contexts,
         call[c].pc \in {"locked", "place", "copy"},
         NEW r \in Call, r.pc \in {"place", "copy", "publish"},
         r.of = call[c].of, r.sent = call[c].sent,
         r.NumBytes = call[c].NumBytes,
         call' = [call EXCEPT ![c] = r]
  PROVE  CallType'
<1>1. CallOf(c, r)
  BY DEF TypeInv, CallType, CallOf
<1> QED
  BY <1>1, CallStep DEF TypeInv

LEMMA StepCheckSpaceType ==
  ASSUME TypeInv, NEW c \in Contexts, CheckSpace(c)
  PROVE  TypeInv'
<1> DEFINE r == [call[c] EXCEPT !.pc = "place"]
<1>1. LogType'
  BY DEF TypeInv, LogType, CheckSpace, ringVars
<1>2. CASE call' = [call EXCEPT ![c] = r]
  <2>1. /\ r \in Call /\ r.pc = "place" /\ r.NumBytes = call[c].NumBytes
        /\ r.of = call[c].of /\ r.sent = call[c].sent
    BY DEF TypeInv, CallType, Call, Labels
  <2> HIDE DEF r
  <2> QED
    BY <1>1, <1>2, <2>1, LabelStep DEF TypeInv, CheckSpace
<1>3. CASE call' = [call EXCEPT ![c] = Idle]
  BY <1>1, <1>3, IdleCall, CallStep DEF TypeInv
<1> QED
  BY <1>2, <1>3 DEF CheckSpace

LEMMA StepPlaceType ==
  ASSUME TypeInv, NEW c \in Contexts, Place(c)
  PROVE  TypeInv'
<1> DEFINE r == [call[c] EXCEPT !.pc = "copy", !.off = WrOff]
<1>1. LogType'
  BY DEF TypeInv, LogType, Place, ringVars
<1>2. /\ r \in Call /\ r.pc = "copy" /\ r.NumBytes = call[c].NumBytes
      /\ r.of = call[c].of /\ r.sent = call[c].sent
  BY DEF TypeInv, LogType, CallType, Call, Labels
<1>3. call' = [call EXCEPT ![c] = r]
  BY DEF Place, TypeInv, CallType
<1> HIDE DEF r
<1> QED
  BY <1>1, <1>2, <1>3, LabelStep DEF TypeInv, Place

(* The bytes a call copies are bytes of its line.                             *)
LEMMA CopiedByte ==
  ASSUME TypeInv, NEW c \in Contexts, call[c].pc \in {"copy", "publish"},
         NEW d \in Nat, d < call[c].NumBytes
  PROVE  LineByte(c, call[c].sent + d + 1) \in Byte
<1> DEFINE k == call[c].sent + d + 1
<1>1. call[c].NumBytes \in 1..PrintfBufferSize
        /\ call[c].sent + call[c].NumBytes <= call[c].of
  BY HandedOn DEF TypeInv, CallType, CallOf, Call
<1>2. call[c].of \in MainLengths \union HandlerLengths /\ call[c].of \in Nat
        /\ call[c].sent \in Nat
  BY UnderWay DEF Lengths
<1>3. k \in 1..call[c].of
  BY <1>1, <1>2
<1>4. k \in Positions
  BY <1>2, <1>3 DEF Positions
<1>5. parity[c] \in {0, 1}
  BY DEF TypeInv, LogType
<1> HIDE DEF k
<1> QED
  BY <1>4, <1>5 DEF LineByte, Byte, k

(* What Copy leaves in a cell.                                                *)
LEMMA CopyCell ==
  ASSUME NEW c \in Contexts, Copy(c), NEW i \in Cells
  PROVE  pBuffer'[i] =
           IF Distance(call[c].off, i) < call[c].NumBytes
           THEN LineByte(c, call[c].sent + Distance(call[c].off, i) + 1)
           ELSE pBuffer[i]
BY DEF Copy, LineByte

LEMMA StepCopyType ==
  ASSUME TypeInv, NEW c \in Contexts, Copy(c)
  PROVE  TypeInv'
<1>1. ASSUME NEW i \in Cells
      PROVE  pBuffer'[i] \in Byte
  <2>1. Distance(call[c].off, i) \in Nat
    BY DEF TypeInv, CallType, Call, Distance, Cells
  <2>2. Distance(call[c].off, i) < call[c].NumBytes
          => LineByte(c, call[c].sent + Distance(call[c].off, i) + 1) \in Byte
    BY <2>1, CopiedByte DEF Copy
  <2>3. pBuffer[i] \in Byte
    BY DEF TypeInv, LogType
  <2> QED
    BY <2>2, <2>3, CopyCell
<1>2. pBuffer' = [i \in Cells |-> pBuffer'[i]]
  BY DEF Copy
<1>3. pBuffer' \in [Cells -> Byte]
  BY <1>1, <1>2
<1>4. LogType'
  BY <1>3 DEF TypeInv, LogType, Copy
<1>5. CallType'
  <2> DEFINE r == [call[c] EXCEPT !.pc = "publish"]
  <2>1. /\ r \in Call /\ r.pc = "publish" /\ r.NumBytes = call[c].NumBytes
        /\ r.of = call[c].of /\ r.sent = call[c].sent
    BY DEF TypeInv, CallType, Call, Labels
  <2>2. call' = [call EXCEPT ![c] = r]
    BY DEF Copy
  <2> HIDE DEF r
  <2> QED
    BY <2>1, <2>2, LabelStep DEF Copy
<1> QED
  BY <1>4, <1>5 DEF TypeInv

LEMMA StepPublishType ==
  ASSUME TypeInv, NEW c \in Contexts, Publish(c)
  PROVE  TypeInv'
<1> DEFINE sent == call[c].sent + call[c].NumBytes
<1>1. /\ call[c].of \in Lengths(c) /\ call[c].of \in Nat
      /\ call[c].off \in Cells
      /\ sent \in Nat /\ sent <= call[c].of
      /\ sent = call[c].of \/ sent % PrintfBufferSize = 0
  BY HandedOn, UnderWay DEF TypeInv, CallType, CallOf, Publish
<1>2. WrOff' \in Cells
  <2>1. call[c].NumBytes \in Nat
    BY UnderWay DEF Publish
  <2> QED
    BY <1>1, <2>1 DEF Publish, Cells
<1>3. LogType'
  BY <1>2 DEF TypeInv, LogType, Publish
<1>4. CASE sent = call[c].of
  <2>1. call' = [call EXCEPT ![c] = Idle]
    BY <1>4 DEF Publish
  <2>2. CallType'
    BY <2>1, IdleCall, CallStep DEF TypeInv
  <2> QED
    BY <1>3, <2>2 DEF TypeInv
<1>5. CASE sent # call[c].of
  <2> DEFINE r == [call[c] EXCEPT !.pc = "format", !.sent = sent]
  <2>1. call' = [call EXCEPT ![c] = r]
    BY <1>5 DEF Publish
  <2>2. r \in Call /\ r.pc = "format" /\ r.of = call[c].of /\ r.sent = sent
    BY <1>1 DEF TypeInv, CallType, Call, Labels
  <2> HIDE DEF sent, r
  <2>3. CallOf(c, r)
    BY <1>1, <1>5, <2>2 DEF CallOf
  <2> QED
    BY <1>3, <2>1, <2>2, <2>3, CallStep DEF TypeInv
<1> QED
  BY <1>4, <1>5

LEMMA StepHostReadsType ==
  ASSUME TypeInv, HostReads
  PROVE  TypeInv'
<1>1. RdOff' \in Cells
  BY DEF HostReads, TypeInv, LogType, Cells
<1>2. LogType'
  BY <1>1 DEF TypeInv, LogType, HostReads
<1>3. CallType'
  BY DEF TypeInv, CallType, CallOf, HostReads
<1> QED
  BY <1>2, <1>3 DEF TypeInv

LEMMA StepStutterType ==
  ASSUME TypeInv, UNCHANGED vars
  PROVE  TypeInv'
BY DEF TypeInv, LogType, CallType, CallOf, vars, ringVars

LEMMA StepType == TypeInv /\ [LogNext]_vars => TypeInv'
<1> SUFFICES ASSUME TypeInv, [LogNext]_vars PROVE TypeInv'
  OBVIOUS
<1>1. ASSUME NEW n \in MainLengths, SEGGER_RTT_printf("main", n)
      PROVE  TypeInv'
  <2>1. n \in Lengths("main") /\ "main" \in Contexts
    BY DEF Lengths, Contexts
  <2> QED
    BY <1>1, <2>1, StepPrintfType
<1>2. ASSUME NEW n \in HandlerLengths, SEGGER_RTT_printf("handler", n)
      PROVE  TypeInv'
  <2>1. n \in Lengths("handler") /\ "handler" \in Contexts
    BY DEF Lengths, Contexts
  <2> QED
    BY <1>2, <2>1, StepPrintfType
<1> QED
  BY <1>1, <1>2, StepLockType, StepCheckSpaceType, StepPlaceType, StepCopyType,
     StepPublishType, StepHostReadsType, StepStutterType DEF LogNext

(* Offsets stay within the ring and lines within their lengths, for every     *)
(* interleaving, whether or not the lock keeps out the handlers.              *)
THEOREM LogTypes == LogSpec => []LogTypeOK
<1>1. TypeInv => LogTypeOK
  BY DEF TypeInv, LogType, CallType, CallOf, Call, LogTypeOK, Labels
<1> QED
  BY <1>1, InitType, StepType, PTL DEF LogSpec

------------------------------------------------------------------------------
(* The lock at work.                                                          *)

LEMMA OwnRest ==
  ASSUME NEW m \in Nat \ {0}, NEW n \in Nat, n < m
  PROVE  n % m = n
OBVIOUS

(* While one context runs the other is outside the lock and at the beginning  *)
(* of a line: a line of main fits the call's buffer, and a handler that has   *)
(* begun one ends it before main goes on.                                     *)
LEMMA Alone ==
  ASSUME LockMasks, TypeInv, NEW c \in Contexts, Runs(c),
         NEW d \in Contexts, d # c
  PROVE  /\ call[d].pc \notin {"locked", "place", "copy", "publish"}
         /\ call[d].sent = 0
<1>1. CASE c = "main"
  <2>1. d = "handler" /\ call[d].pc = "idle"
    BY <1>1 DEF Contexts, Runs
  <2> QED
    BY <2>1 DEF TypeInv, CallType, CallOf
<1>2. CASE c = "handler"
  <2>1. d = "main" /\ call[d].pc \notin {"locked", "place", "copy", "publish"}
    BY <1>2 DEF Contexts, Runs, MainHoldsLock
  <2>2. CASE call[d].pc = "idle"
    BY <2>1, <2>2 DEF TypeInv, CallType, CallOf
  <2>3. CASE call[d].pc # "idle"
    <3>1. /\ call[d].of \in Nat /\ call[d].sent \in Nat
          /\ call[d].of \in MainLengths /\ call[d].sent < call[d].of
          /\ call[d].sent % PrintfBufferSize = 0
      BY <2>1, <2>3, UnderWay DEF Lengths
    <3>2. call[d].sent < PrintfBufferSize
      BY <3>1
    <3> QED
      BY <2>1, <3>1, <3>2, OwnRest
  <2> QED
    BY <2>1, <2>2, <2>3
<1> QED
  BY <1>1, <1>2 DEF Contexts

(* So a step of one has only its own part of the invariant to keep.           *)
LEMMA OthersKeep ==
  ASSUME LockMasks, TypeInv, NEW c \in Contexts, Runs(c),
         NEW d \in Contexts, d # c, call'[d] = call[d]
  PROVE  OwnInv(d)'
BY Alone DEF OwnInv

(* The bytes in the ring, by their cells.                                     *)
LEMMA StreamAt ==
  ASSUME RdOff \in Cells, NEW k \in 1..SizeOfBuffer
  PROVE  Stream(k) = pBuffer[Advance(RdOff, k - 1)]
<1>1. (RdOff + (k - 1)) % SizeOfBuffer = Advance(RdOff, k - 1)
  BY ModIsAdvance
<1>2. RdOff + (k - 1) = RdOff + k - 1
  BY DEF Cells
<1> QED
  BY <1>1, <1>2 DEF Stream

LEMMA StreamAtNext ==
  ASSUME RdOff' \in Cells, NEW k \in 1..SizeOfBuffer
  PROVE  Stream(k)' = pBuffer'[Advance(RdOff', k - 1)]
<1>1. (RdOff' + (k - 1)) % SizeOfBuffer = Advance(RdOff', k - 1)
  BY ModIsAdvance
<1>2. RdOff' + (k - 1) = RdOff' + k - 1
  BY DEF Cells
<1> QED
  BY <1>1, <1>2 DEF Stream

(* A step that leaves what the host will see, and where it begins.            *)
LEMMA SameStream ==
  ASSUME LogInv, Used' = Used, Used \in Nat,
         \A k \in 0..Used : Stream(k)' = Stream(k)
  PROVE  MayEnd(Stream(Used))' /\ LinesUnmixed' /\ Stream(Used)' = Stream(Used)
<1>1. Stream(Used)' = Stream(Used)
  OBVIOUS
<1>2. MayEnd(Stream(Used))'
  BY <1>1 DEF LogInv, MayEnd
<1>3. ASSUME NEW k \in 1..Used
      PROVE  MayFollow(Stream(k - 1), Stream(k))'
  <2>1. Stream(k)' = Stream(k) /\ Stream(k - 1)' = Stream(k - 1)
    OBVIOUS
  <2> QED
    BY <2>1 DEF LogInv, LinesUnmixed, MayFollow
<1> QED
  BY <1>1, <1>2, <1>3 DEF LinesUnmixed

(* A step of a call's own variables that leaves the ring alone.               *)
LEMMA QuietStep ==
  ASSUME LockMasks, LogInv, TypeInv', NEW c \in Contexts, Runs(c),
         UNCHANGED <<ringVars, seen>>, call' = [call EXCEPT ![c] = call'[c]],
         OwnInv(c)'
  PROVE  LogInv'
<1>1. Used' = Used /\ Used \in Nat
  BY UsedType DEF Used, Distance, ringVars, LogInv, TypeInv, LogType
<1>2. \A k \in 0..Used : Stream(k)' = Stream(k)
  BY DEF Stream, ringVars
<1>3. MayEnd(Stream(Used))' /\ LinesUnmixed'
  BY <1>1, <1>2, SameStream
<1>4. ASSUME NEW d \in Contexts, d # c
      PROVE  OwnInv(d)'
  <2>1. call'[d] = call[d]
    BY <1>4 DEF LogInv, TypeInv, CallType
  <2> QED
    BY <1>4, <2>1, OthersKeep DEF LogInv
<1> QED
  BY <1>3, <1>4 DEF LogInv

LEMMA StepPrintf ==
  ASSUME LockMasks, LogInv, NEW c \in Contexts, NEW n \in Lengths(c),
         SEGGER_RTT_printf(c, n)
  PROVE  LogInv'
<1>1. TypeInv'
  BY StepPrintfType DEF LogInv
<1>2. call'[c].pc = "format" /\ call'[c].sent = 0
  BY DEF SEGGER_RTT_printf, Idle, LogInv, TypeInv, CallType
<1>3. OwnInv(c)'
  BY <1>2 DEF OwnInv
<1>4. call' = [call EXCEPT ![c] = call'[c]]
  BY DEF SEGGER_RTT_printf, LogInv, TypeInv, CallType
<1> QED
  BY <1>1, <1>3, <1>4, QuietStep DEF SEGGER_RTT_printf

LEMMA StepLock ==
  ASSUME LockMasks, LogInv, NEW c \in Contexts, Lock(c)
  PROVE  LogInv'
<1>1. TypeInv'
  BY StepLockType DEF LogInv
<1>2. call'[c].pc = "locked" /\ call'[c].sent = call[c].sent
  BY DEF Lock, LogInv, TypeInv, CallType, Call
<1>3. UNCHANGED <<ringVars, seen, parity>> /\ Stream(Used)' = Stream(Used)
  BY DEF Lock, ringVars, Stream, Used, Distance
<1>4. OwnInv(c)'
  BY <1>2, <1>3 DEF OwnInv, LogInv
<1>5. call' = [call EXCEPT ![c] = call'[c]]
  BY DEF Lock, LogInv, TypeInv, CallType
<1> QED
  BY <1>1, <1>3, <1>4, <1>5, QuietStep DEF Lock

LEMMA StepCheckSpace ==
  ASSUME LockMasks, LogInv, NEW c \in Contexts, CheckSpace(c)
  PROVE  LogInv'
<1>1. TypeInv'
  BY StepCheckSpaceType DEF LogInv
<1>2. \/ /\ call'[c].pc = "place" /\ call'[c].sent = call[c].sent
         /\ call'[c].NumBytes = call[c].NumBytes /\ call[c].NumBytes <= Avail
      \/ call'[c].pc = "idle" /\ call'[c].sent = 0
  BY DEF CheckSpace, LogInv, TypeInv, CallType, Call, Idle
<1>3. /\ UNCHANGED <<ringVars, seen, parity>> /\ Stream(Used)' = Stream(Used)
      /\ Avail' = Avail
  BY DEF CheckSpace, ringVars, Stream, Avail, Used, Distance
<1>4. OwnInv(c)'
  BY <1>2, <1>3 DEF OwnInv, LogInv
<1>5. call' = [call EXCEPT ![c] = call'[c]]
  BY DEF CheckSpace, LogInv, TypeInv, CallType
<1> QED
  BY <1>1, <1>3, <1>4, <1>5, QuietStep DEF CheckSpace

LEMMA StepPlace ==
  ASSUME LockMasks, LogInv, NEW c \in Contexts, Place(c)
  PROVE  LogInv'
<1>1. TypeInv'
  BY StepPlaceType DEF LogInv
<1>2. /\ call'[c].pc = "copy" /\ call'[c].sent = call[c].sent
      /\ call'[c].NumBytes = call[c].NumBytes /\ call'[c].off = WrOff
  BY DEF Place, LogInv, TypeInv, CallType, Call
<1>3. /\ UNCHANGED <<ringVars, seen, parity>> /\ Stream(Used)' = Stream(Used)
      /\ Avail' = Avail /\ WrOff' = WrOff
  BY DEF Place, ringVars, Stream, Avail, Used, Distance
<1>4. OwnInv(c)'
  BY <1>2, <1>3 DEF OwnInv, LogInv, Place
<1>5. call' = [call EXCEPT ![c] = call'[c]]
  BY DEF Place, LogInv, TypeInv, CallType
<1> QED
  BY <1>1, <1>3, <1>4, <1>5, QuietStep DEF Place

(* Nothing that the host has yet to take lies in the cells a call copies to.  *)
LEMMA VisibleIsBehindFree ==
  ASSUME RdOff \in Cells, WrOff \in Cells, NEW k \in 1..Used
  PROVE  /\ Advance(RdOff, k - 1) \in Cells
         /\ Distance(WrOff, Advance(RdOff, k - 1)) > Avail
BY DEF Cells, Used, Distance, Advance, Avail

LEMMA CopyKeepsStream ==
  ASSUME LogInv, NEW c \in Contexts, Copy(c), NEW k \in 0..Used
  PROVE  Stream(k)' = Stream(k)
<1> DEFINE i == Advance(RdOff, k - 1)
<1>1. RdOff \in Cells /\ WrOff \in Cells
  BY DEF LogInv, TypeInv, LogType
<1>2. Used \in 0..(SizeOfBuffer - 1) /\ Avail \in Nat
  BY <1>1, UsedType
<1>3. CASE k = 0
  BY <1>3 DEF Stream, Copy
<1>4. CASE k # 0
  <2>1. k \in 1..Used /\ k \in 1..SizeOfBuffer
    BY <1>2, <1>4
  <2>2. i \in Cells /\ Distance(WrOff, i) > Avail
    BY <1>1, <2>1, VisibleIsBehindFree
  <2>3. call[c].off = WrOff /\ call[c].NumBytes <= Avail
    BY DEF LogInv, OwnInv, Copy
  <2>4. call[c].NumBytes \in Nat
    BY UnderWay DEF LogInv, Copy
  <2>5. Distance(WrOff, i) \in Int
    BY <1>1, <2>2 DEF Distance, Cells
  <2>6. ~(Distance(WrOff, i) < call[c].NumBytes)
    BY <1>2, <2>2, <2>3, <2>4, <2>5
  <2>7. pBuffer'[i] = pBuffer[i]
    BY <2>2, <2>3, <2>6, CopyCell
  <2>8. Stream(k) = pBuffer[i]
    BY <1>1, <2>1, StreamAt
  <2>9. RdOff' = RdOff
    BY DEF Copy
  <2>10. Stream(k)' = pBuffer'[i]
    BY <1>1, <2>1, <2>9, StreamAtNext
  <2> QED
    BY <2>7, <2>8, <2>10
<1> QED
  BY <1>3, <1>4

LEMMA StepCopy ==
  ASSUME LockMasks, LogInv, NEW c \in Contexts, Copy(c)
  PROVE  LogInv'
<1>1. TypeInv'
  BY StepCopyType DEF LogInv
<1>2. /\ call'[c].pc = "publish" /\ call'[c].sent = call[c].sent
      /\ call'[c].NumBytes = call[c].NumBytes /\ call'[c].off = call[c].off
      /\ call'[c].of = call[c].of
      /\ call' = [call EXCEPT ![c] = call'[c]]
  BY DEF Copy, LogInv, TypeInv, CallType, Call
<1>3. /\ Used' = Used /\ Avail' = Avail /\ WrOff' = WrOff /\ parity' = parity
  BY DEF Copy, Avail, Used, Distance
<1>4. Used \in Nat
  BY UsedType DEF LogInv, TypeInv, LogType
<1>5. MayEnd(Stream(Used))' /\ LinesUnmixed' /\ Stream(Used)' = Stream(Used)
  BY <1>3, <1>4, CopyKeepsStream, SameStream
<1>6. OwnInv(c)'
  <2>1. call[c].NumBytes <= Avail /\ call[c].off = WrOff
    BY DEF LogInv, OwnInv, Copy
  <2>2. ASSUME NEW i \in Cells, Distance(WrOff, i) < call[c].NumBytes
        PROVE  pBuffer'[i] = LineByte(c, call[c].sent + Distance(WrOff, i) + 1)'
    BY <1>2, <1>3, <2>1, <2>2, CopyCell DEF LineByte, Distance
  <2>3. \A i \in Cells : Distance(WrOff, i)' = Distance(WrOff, i)
    BY <1>3 DEF Distance
  <2>4. call[c].sent # 0 =>
          /\ Stream(Used).from = c /\ Stream(Used).line = parity[c]
          /\ Stream(Used).k = call[c].sent
    BY DEF LogInv, OwnInv
  <2> QED
    BY <1>2, <1>3, <1>5, <2>1, <2>2, <2>3, <2>4 DEF OwnInv
<1>7. ASSUME NEW d \in Contexts, d # c
      PROVE  OwnInv(d)'
  <2>1. call'[d] = call[d]
    BY <1>2, <1>7 DEF LogInv, TypeInv, CallType
  <2> QED
    BY <1>7, <2>1, OthersKeep DEF LogInv, Copy
<1> QED
  BY <1>1, <1>5, <1>6, <1>7 DEF LogInv

(* Publishing n free bytes makes so many more visible.                        *)
LEMMA Published ==
  ASSUME RdOff \in Cells, WrOff \in Cells, NEW n \in Nat, n <= Avail,
         WrOff' = Advance(WrOff, n), RdOff' = RdOff
  PROVE  Used' = Used + n
BY DEF Cells, Advance, Used, Distance, Avail

(* Byte j of them lies j - 1 cells behind the old offset.                     *)
LEMMA NewCell ==
  ASSUME RdOff \in Cells, WrOff \in Cells, NEW j \in 1..Avail
  PROVE  /\ Advance(RdOff, Used + j - 1) = Advance(WrOff, j - 1)
         /\ Advance(WrOff, j - 1) \in Cells
         /\ Distance(WrOff, Advance(WrOff, j - 1)) = j - 1
BY DEF Cells, Advance, Used, Distance, Avail

(* What is known of a call that publishes.                                    *)
LEMMA Publishing ==
  ASSUME LogInv, NEW c \in Contexts, Publish(c)
  PROVE  /\ call[c].NumBytes \in 1..Avail /\ Avail = SizeOfBuffer - 1 - Used
         /\ call[c].sent \in Nat /\ call[c].of \in Nat
         /\ Used \in Nat /\ Used' = Used + call[c].NumBytes
         /\ call[c].sent + call[c].NumBytes <= call[c].of
         /\ \/ call[c].sent + call[c].NumBytes = call[c].of
            \/ (call[c].sent + call[c].NumBytes) % PrintfBufferSize = 0
         /\ RdOff \in Cells /\ WrOff \in Cells
<1>1. RdOff \in Cells /\ WrOff \in Cells
  BY DEF LogInv, TypeInv, LogType
<1>2. Used \in 0..(SizeOfBuffer - 1) /\ Avail = SizeOfBuffer - 1 - Used
  BY <1>1, UsedType
<1>3. call[c].NumBytes <= Avail /\ call[c].off = WrOff
  BY DEF LogInv, OwnInv, Publish
<1>4. /\ call[c].sent \in Nat /\ call[c].of \in Nat
      /\ call[c].NumBytes \in 1..PrintfBufferSize
      /\ call[c].sent + call[c].NumBytes <= call[c].of
      /\ \/ call[c].sent + call[c].NumBytes = call[c].of
         \/ (call[c].sent + call[c].NumBytes) % PrintfBufferSize = 0
  BY HandedOn, UnderWay DEF LogInv, TypeInv, CallType, CallOf, Publish
<1>5. call[c].NumBytes \in 1..Avail
  BY <1>2, <1>3, <1>4
<1>6. WrOff' = Advance(WrOff, call[c].NumBytes) /\ RdOff' = RdOff
  <2>1. call[c].NumBytes \in 0..SizeOfBuffer
    BY <1>2, <1>5
  <2> QED
    BY <1>1, <1>3, <2>1, ModIsAdvance DEF Publish
<1>7. Used' = Used + call[c].NumBytes
  BY <1>1, <1>4, <1>3, <1>6, Published
<1> QED
  BY <1>1, <1>2, <1>4, <1>5, <1>7

(* The bytes that become visible are the next ones of the line.               *)
LEMMA PublishedBytes ==
  ASSUME LogInv, NEW c \in Contexts, Publish(c),
         NEW k \in (Used + 1)..(Used + call[c].NumBytes)
  PROVE  Stream(k)' = LineByte(c, call[c].sent + (k - Used))
<1> DEFINE j == k - Used
           i == Advance(WrOff, j - 1)
<1>1. /\ j \in 1..Avail /\ k \in 1..SizeOfBuffer /\ k = Used + j
      /\ j - 1 < call[c].NumBytes
      /\ call[c].sent + (j - 1) + 1 = call[c].sent + j
  BY Publishing
<1> HIDE DEF j
<1>2. Advance(RdOff, k - 1) = i /\ i \in Cells /\ Distance(WrOff, i) = j - 1
  BY <1>1, NewCell, Publishing
<1>3. pBuffer[i] = LineByte(c, call[c].sent + (j - 1) + 1)
  BY <1>1, <1>2 DEF LogInv, OwnInv, Publish
<1>4. RdOff' = RdOff /\ pBuffer' = pBuffer
  BY DEF Publish
<1>5. Stream(k)' = pBuffer[Advance(RdOff, k - 1)]
  BY <1>1, <1>4, Publishing, StreamAtNext
<1> QED
  BY <1>1, <1>2, <1>3, <1>5 DEF j

(* The newest byte was the one before them.                                   *)
LEMMA FirstFollows ==
  ASSUME LogInv, NEW c \in Contexts, Publish(c)
  PROVE  MayFollow(Stream(Used), LineByte(c, call[c].sent + 1))
<1>1. call[c].sent \in Nat
  BY Publishing
<1>2. CASE call[c].sent = 0
  BY <1>2 DEF MayFollow, LineByte, LogInv, MayEnd
<1>3. CASE call[c].sent # 0
  BY <1>3 DEF MayFollow, LineByte, LogInv, OwnInv
<1> QED
  BY <1>2, <1>3

LEMMA PublishKeepsOrder ==
  ASSUME LogInv, NEW c \in Contexts, Publish(c)
  PROVE  LinesUnmixed'
<1> DEFINE n == call[c].NumBytes
           first == call[c].sent
<1>0. /\ n \in Nat /\ first \in Nat /\ Used \in Nat /\ Used' = Used + n
      /\ n \in 1..Avail
  BY Publishing
<1>1. \A k \in Nat : Stream(k)' = Stream(k)
  BY DEF Publish, Stream
<1>2. ASSUME NEW k \in (Used + 1)..(Used + n)
      PROVE  Stream(k)' = LineByte(c, first + (k - Used))
  BY PublishedBytes
<1> SUFFICES ASSUME NEW k \in 1..(Used + n)
             PROVE  MayFollow(Stream(k - 1)', Stream(k)')
  BY <1>0 DEF LinesUnmixed, MayFollow
<1> HIDE DEF n, first
<1>3. CASE k <= Used
  <2>1. k \in 1..Used /\ k \in Nat /\ k - 1 \in Nat
    BY <1>0, <1>3
  <2>2. MayFollow(Stream(k - 1), Stream(k))
    BY <2>1 DEF LogInv, LinesUnmixed
  <2> QED
    BY <1>1, <2>1, <2>2
<1>4. CASE k = Used + 1
  <2>1. Stream(k)' = LineByte(c, first + 1)
    BY <1>0, <1>2, <1>4
  <2>2. Stream(k - 1)' = Stream(Used)
    BY <1>0, <1>1, <1>4
  <2> QED
    BY <2>1, <2>2, FirstFollows DEF first
<1>5. CASE k > Used + 1
  <2> DEFINE j == k - Used
  <2>1. /\ k \in (Used + 1)..(Used + n) /\ k - 1 \in (Used + 1)..(Used + n)
        /\ (k - 1) - Used = j - 1 /\ first + j = (first + (j - 1)) + 1
    BY <1>0, <1>5
  <2>2. /\ Stream(k)' = LineByte(c, first + j)
        /\ Stream(k - 1)' = LineByte(c, first + (j - 1))
    BY <1>2, <2>1
  <2> HIDE DEF j
  <2> QED
    BY <2>1, <2>2 DEF MayFollow, LineByte
<1> QED
  BY <1>0, <1>3, <1>4, <1>5

LEMMA StepPublish ==
  ASSUME LockMasks, LogInv, NEW c \in Contexts, Publish(c)
  PROVE  LogInv'
<1> DEFINE n == call[c].NumBytes
           sent == call[c].sent + n
<1>1. TypeInv'
  BY StepPublishType DEF LogInv
<1>2. LinesUnmixed'
  BY PublishKeepsOrder
<1>3. /\ n \in Nat /\ n \in 1..Avail /\ Used \in Nat /\ Used' = Used + n
      /\ sent = call[c].of \/ sent % PrintfBufferSize = 0
  BY Publishing
<1>4. ASSUME NEW k, k = Used + n
      PROVE  Stream(k)' = LineByte(c, sent)
  <2>1. k \in (Used + 1)..(Used + n) /\ call[c].sent + (k - Used) = sent
    BY <1>3, <1>4, Publishing
  <2> QED
    BY <2>1, PublishedBytes
<1>5. Stream(Used)' = LineByte(c, sent)
  BY <1>3, <1>4
<1> HIDE DEF n
<1>6. MayEnd(Stream(Used))'
  <2>1. /\ LineByte(c, sent).last = (sent = call[c].of)
        /\ LineByte(c, sent).k = sent
    BY DEF LineByte
  <2>2. MayEnd(LineByte(c, sent))
    BY <1>3, <2>1 DEF MayEnd
  <2> QED
    BY <1>5, <2>2 DEF MayEnd
<1>7. \/ call'[c].pc = "idle" /\ call'[c].sent = 0
      \/ call'[c].pc = "format" /\ call'[c].sent = sent
  BY DEF Publish, LogInv, TypeInv, CallType, Call, Idle, n
<1>8. parity' = parity
  BY DEF Publish
<1>9. OwnInv(c)'
  BY <1>5, <1>7, <1>8 DEF OwnInv, LineByte
<1>10. ASSUME NEW d \in Contexts, d # c
       PROVE  OwnInv(d)'
  <2>1. call'[d] = call[d]
    BY <1>10 DEF Publish, LogInv, TypeInv, CallType
  <2> QED
    BY <1>10, <2>1, OthersKeep DEF LogInv, Publish
<1> QED
  BY <1>1, <1>2, <1>6, <1>9, <1>10 DEF LogInv

------------------------------------------------------------------------------
(* The host takes a byte: what it will see moves up by one.                   *)
LEMMA Taken ==
  ASSUME RdOff \in Cells, WrOff \in Cells, RdOff # WrOff,
         RdOff' = Advance(RdOff, 1), WrOff' = WrOff
  PROVE  /\ Used' = Used - 1 /\ Used \in 1..(SizeOfBuffer - 1)
         /\ Avail' = Avail + 1 /\ Avail \in Nat
         /\ \A k \in 1..(Used - 1) :
              Advance(RdOff', k - 1) = Advance(RdOff, k)
BY DEF Cells, Used, Distance, Avail, Advance

LEMMA HostSeesNext ==
  ASSUME LogInv, HostReads
  PROVE  /\ Used \in 1..(SizeOfBuffer - 1) /\ Used' = Used - 1
         /\ Avail' = Avail + 1 /\ Avail \in Nat
         /\ \A k \in 0..(Used - 1) : Stream(k)' = Stream(k + 1)
<1>1. RdOff \in Cells /\ WrOff \in Cells /\ 1 \in 0..SizeOfBuffer
  BY DEF LogInv, TypeInv, LogType
<1>2. RdOff' = Advance(RdOff, 1) /\ RdOff' \in Cells
  BY <1>1, ModIsAdvance, AdvanceIsCell DEF HostReads
<1>3. /\ Used' = Used - 1 /\ Used \in 1..(SizeOfBuffer - 1)
      /\ Avail' = Avail + 1 /\ Avail \in Nat
      /\ \A k \in 1..(Used - 1) : Advance(RdOff', k - 1) = Advance(RdOff, k)
  BY <1>1, <1>2, Taken DEF HostReads
<1>4. ASSUME NEW k \in 0..(Used - 1)
      PROVE  Stream(k)' = Stream(k + 1)
  <2>1. CASE k = 0
    <3>1. Stream(k + 1) = pBuffer[Advance(RdOff, 0)]
      BY <1>1, <2>1, StreamAt
    <3>2. Advance(RdOff, 0) = RdOff
      BY <1>1 DEF Advance, Cells
    <3> QED
      BY <2>1, <3>1, <3>2 DEF Stream, HostReads
  <2>2. CASE k # 0
    <3>1. /\ k \in 1..(Used - 1) /\ k \in 1..SizeOfBuffer
          /\ k + 1 \in 1..SizeOfBuffer /\ (k + 1) - 1 = k
      BY <1>3, <2>2
    <3>2. Stream(k + 1) = pBuffer[Advance(RdOff, k)]
      BY <1>1, <3>1, StreamAt
    <3>3. Stream(k)' = pBuffer'[Advance(RdOff', k - 1)]
      BY <1>2, <3>1, StreamAtNext
    <3>4. pBuffer' = pBuffer
      BY DEF HostReads
    <3> QED
      BY <1>3, <3>1, <3>2, <3>3, <3>4
  <2> QED
    BY <2>1, <2>2
<1> QED
  BY <1>3, <1>4

LEMMA StepHostReads ==
  ASSUME LogInv, HostReads
  PROVE  LogInv'
<1>1. TypeInv'
  BY StepHostReadsType DEF LogInv
<1>2. /\ Used \in Nat /\ Used >= 1 /\ Used' = Used - 1 /\ Avail' = Avail + 1
      /\ Avail \in Nat
      /\ \A k \in 0..(Used - 1) : Stream(k)' = Stream(k + 1)
  BY HostSeesNext
<1>3. Stream(Used)' = Stream(Used)
  <2>1. ASSUME NEW k, k = Used - 1
        PROVE  Stream(k)' = Stream(Used)
    <3>1. k \in 0..(Used - 1) /\ k + 1 = Used
      BY <1>2, <2>1
    <3> QED
      BY <1>2, <3>1
  <2> QED
    BY <1>2, <2>1
<1>4. MayEnd(Stream(Used))'
  BY <1>3 DEF LogInv, MayEnd
<1>5. ASSUME NEW k \in 1..(Used - 1)
      PROVE  MayFollow(Stream(k - 1), Stream(k))'
  <2>1. /\ k \in 0..(Used - 1) /\ k - 1 \in 0..(Used - 1)
        /\ (k - 1) + 1 = (k + 1) - 1 /\ k + 1 \in 1..Used
    BY <1>2
  <2>2. Stream(k)' = Stream(k + 1) /\ Stream(k - 1)' = Stream((k + 1) - 1)
    BY <1>2, <2>1
  <2>3. MayFollow(Stream((k + 1) - 1), Stream(k + 1))
    BY <2>1 DEF LogInv, LinesUnmixed
  <2> QED
    BY <2>2, <2>3 DEF MayFollow
<1>6. LinesUnmixed'
  BY <1>2, <1>5 DEF LinesUnmixed
<1>7. UNCHANGED <<call, parity, pBuffer, WrOff>>
  BY DEF HostReads
<1>8. ASSUME NEW c \in Contexts
      PROVE  OwnInv(c)'
  <2>1. call[c].NumBytes \in Nat
    BY DEF LogInv, TypeInv, CallType, Call
  <2>2. OwnInv(c)
    BY DEF LogInv
  <2>3. call[c].NumBytes <= Avail => call[c].NumBytes <= Avail + 1
    BY <1>2, <2>1
  <2> QED
    BY <1>2, <1>3, <1>7, <2>2, <2>3 DEF OwnInv, LineByte, Distance
<1> QED
  BY <1>1, <1>4, <1>6, <1>8 DEF LogInv

------------------------------------------------------------------------------
(* The theorems.                                                              *)

LEMMA InitLog == LogInit => LogInv
<1> SUFFICES ASSUME LogInit PROVE LogInv
  OBVIOUS
<1>1. Used = 0
  BY DEF LogInit, Used, Distance
<1>2. MayEnd(Stream(Used))
  BY <1>1 DEF MayEnd, Stream, LogInit
<1>3. LinesUnmixed
  BY <1>1 DEF LinesUnmixed
<1>4. ASSUME NEW c \in Contexts
      PROVE  OwnInv(c)
  <2>1. call[c].pc = "idle" /\ call[c].sent = 0
    BY DEF LogInit, Idle
  <2> QED
    BY <2>1 DEF OwnInv
<1> QED
  BY <1>2, <1>3, <1>4, InitType DEF LogInv

LEMMA StepStutter ==
  ASSUME LogInv, UNCHANGED vars
  PROVE  LogInv'
<1>1. TypeInv'
  BY StepStutterType DEF LogInv
<1>2. /\ UNCHANGED <<RdOff, WrOff, pBuffer, call, parity, seen>>
      /\ Used' = Used /\ Avail' = Avail
  BY DEF vars, ringVars, Used, Distance, Avail
<1>3. \A k : Stream(k)' = Stream(k)
  BY <1>2 DEF Stream
<1>4. Used \in Nat
  BY UsedType DEF LogInv, TypeInv, LogType
<1>5. MayEnd(Stream(Used))' /\ LinesUnmixed' /\ Stream(Used)' = Stream(Used)
  BY <1>2, <1>3, <1>4, SameStream
<1>6. ASSUME NEW c \in Contexts
      PROVE  OwnInv(c)'
  <2>1. OwnInv(c)
    BY DEF LogInv
  <2> QED
    BY <1>2, <1>5, <2>1 DEF OwnInv, LineByte, Distance
<1> QED
  BY <1>1, <1>5, <1>6 DEF LogInv

LEMMA StepLog ==
  ASSUME LockMasks, LogInv, [LogNext]_vars
  PROVE  LogInv'
<1>1. ASSUME NEW n \in MainLengths, SEGGER_RTT_printf("main", n)
      PROVE  LogInv'
  <2>1. n \in Lengths("main") /\ "main" \in Contexts
    BY DEF Lengths, Contexts
  <2> QED
    BY <1>1, <2>1, StepPrintf
<1>2. ASSUME NEW n \in HandlerLengths, SEGGER_RTT_printf("handler", n)
      PROVE  LogInv'
  <2>1. n \in Lengths("handler") /\ "handler" \in Contexts
    BY DEF Lengths, Contexts
  <2> QED
    BY <1>2, <2>1, StepPrintf
<1> QED
  BY <1>1, <1>2, StepLock, StepCheckSpace, StepPlace, StepCopy, StepPublish,
     StepHostReads, StepStutter DEF LogNext

(* Where the lock keeps out the handlers, as on the nRF51, no line has a part *)
(* of another one in it, whatever the sizes and however main, the handlers    *)
(* and the host take turns.                                                   *)
THEOREM LinesStayWhole ==
  ASSUME LockMasks
  PROVE  LogSpec => []LinesUnmixed
<1>1. LogInv /\ [LogNext]_vars => LogInv'
  BY StepLog
<1>2. LogInv => LinesUnmixed
  BY DEF LogInv
<1> QED
  BY <1>1, <1>2, InitLog, PTL DEF LogSpec

(* What is in the ring stays there until the host takes it: no step but the   *)
(* host's moves its end back or changes a byte it will see.                   *)
LEMMA KeepsUnread ==
  ASSUME LogInv, [LogNext]_vars
  PROVE  /\ Used' >= Used \/ RdOff' # RdOff
         /\ \A k \in 1..Used : RdOff' = RdOff => Stream(k)' = Stream(k)
<1>0. Used \in Nat
  BY UsedType DEF LogInv, TypeInv, LogType
<1>1. ASSUME UNCHANGED <<ringVars, seen>>
      PROVE  Used' = Used /\ \A k \in 1..Used : Stream(k)' = Stream(k)
  <2>1. RdOff' = RdOff /\ WrOff' = WrOff /\ pBuffer' = pBuffer /\ seen' = seen
    BY <1>1 DEF ringVars
  <2>2. Used' = Used
    BY <2>1 DEF Used, Distance
  <2>3. \A k \in 1..Used : Stream(k)' = Stream(k)
    BY <2>1 DEF Stream
  <2> QED
    BY <2>2, <2>3
<1>2. ASSUME NEW c \in Contexts,
             Lock(c) \/ CheckSpace(c) \/ Place(c)
      PROVE  UNCHANGED <<ringVars, seen>>
  BY <1>2 DEF Lock, CheckSpace, Place
<1>3. ASSUME NEW c, NEW n, SEGGER_RTT_printf(c, n)
      PROVE  UNCHANGED <<ringVars, seen>>
  BY <1>3 DEF SEGGER_RTT_printf
<1>4. UNCHANGED vars => UNCHANGED <<ringVars, seen>>
  BY DEF vars, ringVars
<1>5. ASSUME NEW c \in Contexts, Copy(c)
      PROVE  Used' = Used /\ \A k \in 1..Used : Stream(k)' = Stream(k)
  <2>1. Used' = Used
    BY <1>5 DEF Copy, Used, Distance
  <2>2. \A k \in 1..Used : Stream(k)' = Stream(k)
    BY <1>0, <1>5, CopyKeepsStream
  <2> QED
    BY <2>1, <2>2
<1>6. ASSUME NEW c \in Contexts, Publish(c)
      PROVE  Used' >= Used /\ \A k \in 1..Used : Stream(k)' = Stream(k)
  <2>1. Used' >= Used
    BY <1>0, <1>6, Publishing
  <2>2. \A k \in 1..Used : Stream(k)' = Stream(k)
    BY <1>6 DEF Publish, Stream
  <2> QED
    BY <2>1, <2>2
<1>7. ASSUME HostReads
      PROVE  RdOff' # RdOff
  <2>1. RdOff \in Cells /\ 1 \in 0..SizeOfBuffer
    BY DEF LogInv, TypeInv, LogType
  <2>2. RdOff' = Advance(RdOff, 1)
    BY <1>7, <2>1, ModIsAdvance DEF HostReads
  <2> QED
    BY <2>1, <2>2 DEF Advance, Cells
<1>8. CASE UNCHANGED <<ringVars, seen>>
  BY <1>0, <1>1, <1>8
<1>9. CASE \E c \in Contexts : Copy(c)
  BY <1>0, <1>5, <1>9
<1>10. CASE \E c \in Contexts : Publish(c)
  BY <1>6, <1>10
<1>11. CASE HostReads
  BY <1>7, <1>11
<1> QED
  BY <1>2, <1>3, <1>4, <1>8, <1>9, <1>10, <1>11 DEF LogNext

(* So a call neither takes back nor overwrites what another one has printed.  *)
THEOREM UnreadStays ==
  ASSUME LockMasks
  PROVE  LogSpec => StaysUntilRead
<1>1. LogInv /\ [LogNext]_vars => LogInv'
  BY StepLog
<1>2. LogInv /\ [LogNext]_vars =>
        [/\ Used' >= Used \/ RdOff' # RdOff
         /\ \A k \in 1..Used : RdOff' = RdOff => Stream(k)' = Stream(k)]_vars
  BY KeepsUnread
<1> QED
  BY <1>1, <1>2, InitLog, PTL DEF LogSpec, StaysUntilRead

==============================================================================
