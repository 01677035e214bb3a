-------------------------- MODULE RttTerminalProofs --------------------------
(* Proofs about the terminals, for every size of the ring, every set of       *)
(* terminals and texts of every length.                                       *)
EXTENDS RttTerminal, SequenceTheorems, TLAPS

------------------------------------------------------------------------------
(* Types.                                                                     *)

(* The library's facts about concatenation, for bytes.                        *)
LEMMA ConcatBytes ==
  ASSUME NEW s \in Seq(Byte), NEW o \in Seq(Byte)
  PROVE  /\ s \o o \in Seq(Byte)
         /\ Len(s \o o) = Len(s) + Len(o)
         /\ \A i \in 1..(Len(s) + Len(o)) :
              (s \o o)[i] = IF i <= Len(s) THEN s[i] ELSE o[i - Len(s)]
  BY ConcatProperties

(* A switch of the terminal is a sequence of two bytes.                       *)
LEMMA SwitchType ==
  ASSUME NEW t \in Terminals
  PROVE  Switch(t) \in Seq(Byte) /\ Len(Switch(t)) = 2
<1>1. Escape \in Byte /\ Number(t) \in Byte
  BY TerminalAssumption DEF Escape, Number, Byte
<1> QED BY <1>1 DEF Switch

(* So is a text ...                                                           *)
LEMMA TextType ==
  ASSUME NEW t \in Terminals, NEW n \in Nat
  PROVE  Text(t, n) \in Seq(Byte) /\ Len(Text(t, n)) = n
<1>1. TextByte(t) \in Byte
  BY DEF TextByte, Byte
<1>2. Text(t, n) = [k \in 1..n |-> TextByte(t)]
  BY DEF Text
<1> QED BY <1>1, <1>2

(* ... and what SEGGER_RTT_TerminalOut writes, four bytes longer.             *)
LEMMA OutputType ==
  ASSUME NEW t \in Terminals, NEW a \in Terminals, NEW n \in Nat
  PROVE  /\ Switch(t) \o Text(t, n) \o Switch(a) \in Seq(Byte)
         /\ Len(Switch(t) \o Text(t, n) \o Switch(a)) = n + 4
<1>1. /\ Switch(t) \in Seq(Byte) /\ Len(Switch(t)) = 2
      /\ Switch(a) \in Seq(Byte) /\ Len(Switch(a)) = 2
      /\ Text(t, n) \in Seq(Byte) /\ Len(Text(t, n)) = n
  BY SwitchType, TextType
<1>2. /\ Switch(t) \o Text(t, n) \in Seq(Byte)
      /\ Len(Switch(t) \o Text(t, n)) = n + 2
  <2>1. Len(Switch(t) \o Text(t, n)) = Len(Switch(t)) + Len(Text(t, n))
    BY <1>1, ConcatBytes
  <2> QED BY <1>1, <2>1, ConcatBytes
<1>3. Len(Switch(t) \o Text(t, n) \o Switch(a))
        = Len(Switch(t) \o Text(t, n)) + Len(Switch(a))
  BY <1>1, <1>2, ConcatBytes
<1> QED BY <1>1, <1>2, <1>3, ConcatBytes

(* TerminalTypeOK, and that what must not wait fits.                          *)
FitsInv == TerminalTypeOK /\ NeverWaits

(* The bytes on their way are those of the ring and those still to come.      *)
LEMMA ComingLen ==
  ASSUME TerminalTypeOK
  PROVE  Coming \in Seq(Byte) /\ Len(Coming) = Len(queue) + Len(todo)
  BY DEF TerminalTypeOK, Coming

(* It holds of the empty ring.                                                *)
LEMMA FitsInit == TerminalInit => FitsInv
<1> SUFFICES ASSUME TerminalInit PROVE FitsInv
  OBVIOUS
<1>1. TerminalTypeOK
  <2>1. queue \in Seq(Byte) /\ todo \in Seq(Byte)
    BY EmptySeq DEF TerminalInit
  <2>2. Len(queue) = 0
    BY DEF TerminalInit
  <2>3. Len(queue) <= Capacity
    BY <2>2, TerminalAssumption
  <2>4. ActiveTerminal \in Terminals /\ shown \in Terminals
    BY TerminalAssumption DEF TerminalInit
  <2>5. /\ Flags \in {"NO_BLOCK_SKIP", "NO_BLOCK_TRIM", "BLOCK_IF_FIFO_FULL"}
        /\ escape \in BOOLEAN
    BY DEF TerminalInit
  <2> QED BY <2>1, <2>3, <2>4, <2>5 DEF TerminalTypeOK
<1>2. NeverWaits
  BY <1>1, ComingLen, TerminalAssumption DEF NeverWaits, TerminalInit
<1> QED BY <1>1, <1>2 DEF FitsInv

(* A write that does not wait.                                                *)
LEMMA FitsNoCheck ==
  ASSUME FitsInv, todo = <<>>, NEW bytes \in Seq(Byte), Len(bytes) <= Avail,
         WriteNoCheck(bytes), ActiveTerminal' \in Terminals
  PROVE  FitsInv'
<1>1. Len(queue') = Len(queue) + Len(bytes) /\ queue' \in Seq(Byte)
  BY DEF FitsInv, TerminalTypeOK, WriteNoCheck
<1>2. TerminalTypeOK'
  BY <1>1, TerminalAssumption
     DEF FitsInv, TerminalTypeOK, WriteNoCheck, Avail, hostVars
<1>3. Len(Coming)' = Len(queue') + Len(todo')
  BY <1>2 DEF TerminalTypeOK, Coming
<1>4. NeverWaits'
  BY <1>1, <1>3, TerminalAssumption DEF NeverWaits, FitsInv, TerminalTypeOK,
     WriteNoCheck, Avail
<1> QED BY <1>2, <1>4 DEF FitsInv

(* A write that waits, if the mode says so or if there is room.               *)
LEMMA FitsBlocking ==
  ASSUME FitsInv, todo = <<>>, NEW bytes \in Seq(Byte),
         Blocking \/ Len(bytes) <= Avail,
         WriteBlocking(bytes), ActiveTerminal' \in Terminals
  PROVE  FitsInv'
<1>2. TerminalTypeOK'
  BY DEF FitsInv, TerminalTypeOK, WriteBlocking, hostVars
<1>3. Len(Coming)' = Len(queue') + Len(todo')
  BY <1>2 DEF TerminalTypeOK, Coming
<1>4. NeverWaits'
  BY <1>3, TerminalAssumption DEF NeverWaits, FitsInv, TerminalTypeOK,
     WriteBlocking, Avail, Blocking
<1> QED BY <1>2, <1>4 DEF FitsInv

(* The steps that printf makes too: its texts are as long as its buffer.      *)
AnyNext == TerminalNext \/ \E n \in Nat : WriteText(n)

(* Every step keeps it.                                                       *)
LEMMA FitsStep == FitsInv /\ [AnyNext]_terminalVars => FitsInv'
<1> SUFFICES ASSUME FitsInv, [AnyNext]_terminalVars PROVE FitsInv'
  OBVIOUS
<1>t. ActiveTerminal \in Terminals /\ Avail \in Nat
  BY TerminalAssumption DEF FitsInv, TerminalTypeOK, Avail
<1>1. ASSUME NEW t \in Terminals, SetTerminal(t) PROVE FitsInv'
  BY <1>1, SwitchType, FitsNoCheck, FitsBlocking DEF SetTerminal
<1>2. ASSUME NEW t \in Terminals, NEW n \in 0..MaxText, TerminalOut(t, n)
      PROVE FitsInv'
  <2> DEFINE Output(k) == Switch(t) \o Text(t, k) \o Switch(ActiveTerminal)
  <2>1. CASE /\ Flags = "NO_BLOCK_SKIP" /\ Avail >= n + 4
             /\ WriteBlocking(Output(n))
    <3>1. n \in Nat
      BY TerminalAssumption
    <3>2. Output(n) \in Seq(Byte) /\ Len(Output(n)) = n + 4
      BY <1>t, <3>1, OutputType
    <3> QED BY <1>2, <1>t, <2>1, <3>2, FitsBlocking DEF TerminalOut
  <2>2. CASE /\ Flags = "NO_BLOCK_TRIM" /\ Avail >= 4
             /\ WriteBlocking(Output(Shorter(n, Avail - 4)))
    <3> DEFINE m == Shorter(n, Avail - 4)
    <3>1. m \in Nat /\ m + 4 <= Avail
      BY <1>t, <2>2, TerminalAssumption DEF Shorter
    <3>2. Output(m) \in Seq(Byte) /\ Len(Output(m)) = m + 4
      BY <1>t, <3>1, OutputType
    <3>3. Len(Output(m)) <= Avail /\ WriteBlocking(Output(m))
      BY <2>2, <3>1, <3>2
    <3> HIDE DEF Output, m
    <3> QED BY <1>2, <1>t, <3>2, <3>3, FitsBlocking DEF TerminalOut
  <2>3. CASE Blocking /\ WriteBlocking(Output(n))
    <3>1. n \in Nat
      BY TerminalAssumption
    <3>2. Output(n) \in Seq(Byte)
      BY <1>t, <3>1, OutputType
    <3> HIDE DEF Output
    <3> QED BY <1>2, <1>t, <2>3, <3>2, FitsBlocking DEF TerminalOut
  <2> QED BY <1>2, <2>1, <2>2, <2>3 DEF TerminalOut
<1>3. ASSUME NEW n \in Nat, WriteText(n) PROVE FitsInv'
  <2>1. n \in Nat /\ Shorter(n, Avail) \in Nat /\ Shorter(n, Avail) <= Avail
    BY <1>t, TerminalAssumption DEF Shorter
  <2>2. \A m \in Nat : /\ Text(ActiveTerminal, m) \in Seq(Byte)
                       /\ Len(Text(ActiveTerminal, m)) = m
    BY <1>t, TextType
  <2>3. CASE /\ Flags = "NO_BLOCK_SKIP" /\ n <= Avail
             /\ WriteNoCheck(Text(ActiveTerminal, n))
    BY <1>3, <1>t, <2>1, <2>2, <2>3, FitsNoCheck DEF WriteText
  <2>4. CASE /\ Flags = "NO_BLOCK_TRIM"
             /\ WriteNoCheck(Text(ActiveTerminal, Shorter(n, Avail)))
    BY <1>3, <1>t, <2>1, <2>2, <2>4, FitsNoCheck DEF WriteText
  <2>5. CASE Blocking /\ WriteBlocking(Text(ActiveTerminal, n))
    BY <1>3, <1>t, <2>1, <2>2, <2>5, FitsBlocking DEF WriteText
  <2> QED BY <1>3, <2>3, <2>4, <2>5 DEF WriteText
<1>4. ASSUME NEW mode \in {"NO_BLOCK_SKIP", "NO_BLOCK_TRIM", "BLOCK_IF_FIFO_FULL"},
             SetFlagsUpBuffer(mode)
      PROVE FitsInv'
  <2>1. TerminalTypeOK'
    BY <1>4 DEF FitsInv, TerminalTypeOK, SetFlagsUpBuffer, hostVars
  <2>2. Len(Coming)' = Len(queue') + Len(todo')
    BY <2>1 DEF TerminalTypeOK, Coming
  <2>3. NeverWaits'
    BY <1>4, <2>2, TerminalAssumption
       DEF NeverWaits, FitsInv, TerminalTypeOK, SetFlagsUpBuffer
  <2> QED BY <2>1, <2>3 DEF FitsInv
<1>5. CASE WriteByte
  <2>1. /\ queue' \in Seq(Byte) /\ Len(queue') = Len(queue) + 1
        /\ todo' \in Seq(Byte) /\ Len(todo') = Len(todo) - 1
    BY <1>5 DEF FitsInv, TerminalTypeOK, WriteByte
  <2>2. TerminalTypeOK'
    BY <1>5, <2>1, TerminalAssumption
       DEF FitsInv, TerminalTypeOK, WriteByte, Avail, hostVars
  <2>3. Len(Coming)' = Len(queue') + Len(todo')
    BY <2>2 DEF TerminalTypeOK, Coming
  <2>4. Len(Coming) = Len(queue) + Len(todo)
    BY ComingLen DEF FitsInv
  <2>5. Len(Coming)' = Len(Coming)
    BY <2>1, <2>3, <2>4 DEF FitsInv, TerminalTypeOK
  <2>6. NeverWaits'
    BY <1>5, <2>5 DEF NeverWaits, FitsInv, WriteByte, Blocking
  <2> QED BY <2>2, <2>6 DEF FitsInv
<1>6. CASE HostReads
  <2>1. /\ queue' \in Seq(Byte) /\ Len(queue') = Len(queue) - 1
        /\ Head(queue) \in Byte
    BY <1>6 DEF FitsInv, TerminalTypeOK, HostReads
  <2>2. TerminalTypeOK'
    BY <1>6, <2>1, TerminalAssumption
       DEF FitsInv, TerminalTypeOK, HostReads, programVars, Byte
  <2>3. Len(Coming)' = Len(queue') + Len(todo')
    BY <2>2 DEF TerminalTypeOK, Coming
  <2>4. NeverWaits'
    BY <1>6, <2>1, <2>3, ComingLen, TerminalAssumption
       DEF NeverWaits, FitsInv, TerminalTypeOK, HostReads, programVars, Blocking
  <2> QED BY <2>2, <2>4 DEF FitsInv
<1>7. CASE UNCHANGED terminalVars
  BY <1>7 DEF FitsInv, TerminalTypeOK, NeverWaits, Coming, Blocking,
     terminalVars, programVars, hostVars
<1>8. 1..MaxText \subseteq Nat
  OBVIOUS
<1> QED BY <1>1, <1>2, <1>3, <1>4, <1>5, <1>6, <1>7, <1>8
        DEF AnyNext, TerminalNext, TerminalCall

(* So it always holds.                                                        *)
LEMMA FitsAlways == TerminalSpec => []FitsInv
<1>1. [TerminalNext]_terminalVars => [AnyNext]_terminalVars
  BY DEF AnyNext
<1> QED BY <1>1, FitsInit, FitsStep, PTL DEF TerminalSpec

(* The ring never holds more than it has room for, whatever is written to it  *)
(* (TerminalTypeOK).                                                          *)
THEOREM TerminalTypeCorrect == TerminalSpec => []TerminalTypeOK
<1>1. FitsInv => TerminalTypeOK
  BY DEF FitsInv
<1> QED BY <1>1, FitsAlways, PTL

(* No call waits for the host with interrupts locked, unless blocking mode    *)
(* was asked for (NeverWaits; SEGGER_RTT_TerminalOut).                        *)
THEOREM NobodyWaits == TerminalSpec => []NeverWaits
<1>1. FitsInv => NeverWaits
  BY DEF FitsInv
<1> QED BY <1>1, FitsAlways, PTL

------------------------------------------------------------------------------
(* Terminals.                                                                 *)

(* A host that is on terminal w is on t when it has read k bytes of s.        *)
At(s, w, k, t) ==
  \/ \E m \in 1..k : /\ s[m].kind = "number" /\ s[m].terminal = t
                     /\ \A j \in (m + 1)..k : s[j].kind # "number"
  \/ w = t /\ \A j \in 1..k : s[j].kind # "number"

(* Numbers come after 0xFF and only there; e: one has just been read.         *)
Paired(s, e) ==
  /\ \A k \in 1..Len(s) :
       s[k].kind = "number" <=> IF k = 1 THEN e ELSE s[k - 1].kind = "0xFF"
  /\ IF Len(s) = 0 THEN ~e ELSE s[Len(s)].kind # "0xFF"

(* A host on terminal w shows the text in s where it is meant for and is on   *)
(* terminal a in the end.                                                     *)
Leads(s, e, w, a) ==
  /\ s \in Seq(Byte)
  /\ Paired(s, e)
  /\ \A k \in 1..Len(s) : s[k].kind = "text" => At(s, w, k, s[k].terminal)
  /\ At(s, w, Len(s), a)

(* A switch leads from anywhere to its terminal.                              *)
LEMMA LeadsSwitch ==
  ASSUME NEW t \in Terminals, NEW w
  PROVE  Leads(Switch(t), FALSE, w, t)
<1> DEFINE s == Switch(t)
<1>1. s \in Seq(Byte) /\ Len(s) = 2
  BY SwitchType
<1>2. s[1] = [kind |-> "0xFF", terminal |-> 0] /\ s[2] = [kind |-> "number", terminal |-> t]
  BY DEF Switch, Escape, Number
<1>3. s[1].kind = "0xFF" /\ s[2].kind = "number" /\ s[2].terminal = t
  BY <1>2
<1> HIDE DEF s
<1>4. Paired(s, FALSE)
  <2> SUFFICES ASSUME NEW k \in 1..2
               PROVE  s[k].kind = "number"
                        <=> IF k = 1 THEN FALSE ELSE s[k - 1].kind = "0xFF"
    BY <1>1, <1>3 DEF Paired
  <2>1. CASE k = 1
    BY <1>3, <2>1
  <2>2. CASE k = 2
    BY <1>3, <2>2
  <2> QED BY <2>1, <2>2
<1>5. \A k \in 1..Len(s) : s[k].kind # "text"
  <2> SUFFICES ASSUME NEW k \in 1..2 PROVE s[k].kind # "text"
    BY <1>1
  <2> QED BY <1>3, k = 1 \/ k = 2
<1>6. At(s, w, 2, t)
  BY <1>3 DEF At
<1> QED BY <1>1, <1>4, <1>5, <1>6 DEF Leads, s

(* A text leads from its terminal to its terminal.                            *)
LEMMA LeadsText ==
  ASSUME NEW t \in Terminals, NEW n \in Nat
  PROVE  Leads(Text(t, n), FALSE, t, t)
<1> DEFINE s == Text(t, n)
<1>1. s \in Seq(Byte) /\ Len(s) = n
  BY TextType
<1>2. \A k \in 1..n : s[k].kind = "text" /\ s[k].terminal = t
  BY DEF Text, TextByte
<1> HIDE DEF s
<1>3. Paired(s, FALSE)
  BY <1>1, <1>2 DEF Paired
<1>4. \A k \in 0..n : At(s, t, k, t)
  BY <1>2 DEF At
<1>5. At(s, t, Len(s), t)
  BY <1>1, <1>4
<1>6. ASSUME NEW k \in 1..Len(s) PROVE At(s, t, k, s[k].terminal)
  <2>1. k \in 0..n /\ s[k].terminal = t
    BY <1>1, <1>2
  <2> QED BY <1>4, <2>1
<1> QED BY <1>1, <1>3, <1>5, <1>6 DEF Leads, s

(* What leads to b and what leads on from there.                              *)
LEMMA LeadsOn ==
  ASSUME NEW s, NEW o, NEW e \in BOOLEAN, NEW w, NEW b, NEW a,
         Leads(s, e, w, b), Leads(o, FALSE, b, a)
  PROVE  Leads(s \o o, e, w, a)
<1> DEFINE r == s \o o
           n == Len(s)
<1>1. /\ s \in Seq(Byte) /\ o \in Seq(Byte)
      /\ n \in Nat /\ Len(o) \in Nat
  BY DEF Leads
<1>2. r \in Seq(Byte) /\ Len(r) = n + Len(o)
  BY <1>1, ConcatBytes
<1>3. \A i \in 1..n : r[i] = s[i]
  BY <1>1, ConcatBytes
<1>4. \A i \in 1..Len(o) : r[n + i] = o[i]
  <2> SUFFICES ASSUME NEW i \in 1..Len(o) PROVE r[n + i] = o[i]
    OBVIOUS
  <2>1. n + i \in 1..(n + Len(o)) /\ ~(n + i <= n) /\ (n + i) - n = i
    BY <1>1
  <2> QED BY <1>1, <2>1, ConcatBytes
<1> HIDE DEF r, n
<1>5. ASSUME NEW k \in 0..n, NEW t, At(s, w, k, t) PROVE At(r, w, k, t)
  BY <1>1, <1>3, <1>5 DEF At
<1>6. ASSUME NEW k \in 0..Len(o), NEW t, At(o, b, k, t) PROVE At(r, w, n + k, t)
  <2>1. CASE \E m \in 1..k : /\ o[m].kind = "number" /\ o[m].terminal = t
                             /\ \A j \in (m + 1)..k : o[j].kind # "number"
    <3>1. PICK m \in 1..k : /\ o[m].kind = "number" /\ o[m].terminal = t
                            /\ \A j \in (m + 1)..k : o[j].kind # "number"
      BY <2>1
    <3>2. n + m \in 1..(n + k) /\ r[n + m] = o[m]
      BY <1>1, <1>4
    <3>3. ASSUME NEW j \in (n + m + 1)..(n + k) PROVE r[j].kind # "number"
      <4>1. j - n \in (m + 1)..k /\ j - n \in 1..Len(o) /\ n + (j - n) = j
        BY <1>1
      <4> QED BY <1>4, <3>1, <4>1
    <3> QED BY <3>1, <3>2, <3>3 DEF At
  <2>2. CASE b = t /\ \A j \in 1..k : o[j].kind # "number"
    <3>1. ASSUME NEW j \in (n + 1)..(n + k) PROVE r[j].kind # "number"
      <4>1. j - n \in 1..k /\ j - n \in 1..Len(o) /\ n + (j - n) = j
        BY <1>1
      <4> QED BY <1>4, <2>2, <4>1
    <3>2. At(r, w, n, t)
      BY <1>1, <1>5, <2>2 DEF Leads, n
    <3>3. CASE \E m \in 1..n : /\ r[m].kind = "number" /\ r[m].terminal = t
                               /\ \A j \in (m + 1)..n : r[j].kind # "number"
      <4>1. PICK m \in 1..n : /\ r[m].kind = "number" /\ r[m].terminal = t
                              /\ \A j \in (m + 1)..n : r[j].kind # "number"
        BY <3>3
      <4>2. ASSUME NEW j \in (m + 1)..(n + k) PROVE r[j].kind # "number"
        BY <1>1, <3>1, <4>1, j \in (m + 1)..n \/ j \in (n + 1)..(n + k)
      <4>3. m \in 1..(n + k)
        BY <1>1
      <4> QED BY <4>1, <4>2, <4>3 DEF At
    <3>4. CASE w = t /\ \A j \in 1..n : r[j].kind # "number"
      <4>1. ASSUME NEW j \in 1..(n + k) PROVE r[j].kind # "number"
        BY <1>1, <3>1, <3>4, j \in 1..n \/ j \in (n + 1)..(n + k)
      <4> QED BY <3>4, <4>1 DEF At
    <3> QED BY <3>2, <3>3, <3>4 DEF At
  <2> QED BY <1>6, <2>1, <2>2 DEF At
<1>7. Paired(r, e)
  <2>1. ASSUME NEW k \in 1..Len(r)
        PROVE  r[k].kind = "number" <=> IF k = 1 THEN e ELSE r[k - 1].kind = "0xFF"
    <3>1. CASE k <= n
      <4>1. s[k].kind = "number" <=> IF k = 1 THEN e ELSE s[k - 1].kind = "0xFF"
        BY <1>1, <3>1 DEF Leads, Paired, n
      <4>2. r[k] = s[k] /\ (k # 1 => r[k - 1] = s[k - 1])
        BY <1>1, <1>3, <3>1
      <4> QED BY <4>1, <4>2
    <3>2. CASE k = n + 1
      <4>1. 1 \in 1..Len(o) /\ r[k] = o[1]
        BY <1>1, <1>2, <1>4, <3>2
      <4>2. o[1].kind # "number"
        BY <4>1 DEF Leads, Paired
      <4>3. CASE n = 0
        BY <3>2, <4>1, <4>2, <4>3 DEF Leads, Paired, n
      <4>4. CASE n # 0
        <5>1. s[n].kind # "0xFF"
          BY <1>1, <4>4 DEF Leads, Paired, n
        <5>2. r[k - 1] = s[n] /\ k # 1
          BY <1>1, <1>3, <3>2, <4>4
        <5> QED BY <4>1, <4>2, <5>1, <5>2
      <4> QED BY <4>3, <4>4
    <3>3. CASE k > n + 1
      <4>1. /\ k - n \in 1..Len(o) /\ k - n - 1 \in 1..Len(o)
            /\ n + (k - n) = k /\ n + (k - n - 1) = k - 1
            /\ k - n # 1 /\ k # 1
        BY <1>1, <1>2, <3>3
      <4>2. o[k - n].kind = "number" <=> o[k - n - 1].kind = "0xFF"
        BY <4>1 DEF Leads, Paired
      <4>3. r[k] = o[k - n] /\ r[k - 1] = o[k - n - 1]
        BY <1>4, <4>1
      <4> QED BY <4>1, <4>2, <4>3
    <3> QED BY <1>1, <1>2, <3>1, <3>2, <3>3
  <2>2. IF Len(r) = 0 THEN ~e ELSE r[Len(r)].kind # "0xFF"
    <3>1. CASE Len(o) = 0
      BY <1>1, <1>2, <1>3, <3>1 DEF Leads, Paired, n
    <3>2. CASE Len(o) # 0
      <4>1. o[Len(o)].kind # "0xFF"
        BY <3>2 DEF Leads, Paired
      <4>2. Len(o) \in 1..Len(o) /\ Len(r) # 0
        BY <1>1, <1>2, <3>2
      <4> QED BY <1>2, <1>4, <4>1, <4>2
    <3> QED BY <3>1, <3>2
  <2> QED BY <2>1, <2>2 DEF Paired
<1>8. ASSUME NEW k \in 1..Len(r), r[k].kind = "text"
      PROVE  At(r, w, k, r[k].terminal)
  <2>1. CASE k <= n
    <3>1. r[k] = s[k] /\ k \in 0..n /\ k \in 1..n
      BY <1>1, <1>2, <1>3, <2>1
    <3>2. At(s, w, k, s[k].terminal)
      BY <1>8, <3>1 DEF Leads, n
    <3> QED BY <1>5, <3>1, <3>2
  <2>2. CASE k > n
    <3>1. k - n \in 1..Len(o) /\ k - n \in 0..Len(o) /\ n + (k - n) = k
      BY <1>1, <1>2, <2>2
    <3>2. r[k] = o[k - n]
      BY <1>4, <3>1
    <3>3. At(o, b, k - n, o[k - n].terminal)
      BY <1>8, <3>1, <3>2 DEF Leads
    <3> QED BY <1>6, <3>1, <3>2, <3>3
  <2> QED BY <1>1, <1>2, <2>1, <2>2
<1>9. At(r, w, Len(r), a)
  <2>1. Len(o) \in 0..Len(o) /\ At(o, b, Len(o), a)
    BY <1>1 DEF Leads
  <2> QED BY <1>2, <1>6, <2>1
<1> QED BY <1>2, <1>7, <1>8, <1>9 DEF Leads, r

(* The host reads the first byte.                                             *)
LEMMA LeadsTail ==
  ASSUME NEW s, NEW e \in BOOLEAN, NEW w, NEW a, Leads(s, e, w, a), s # <<>>
  PROVE  Leads(Tail(s), Head(s).kind = "0xFF",
               IF e THEN Head(s).terminal ELSE w, a)
<1> DEFINE r == Tail(s)
           h == Head(s)
           v == IF e THEN h.terminal ELSE w
<1>1. /\ s \in Seq(Byte) /\ Len(s) \in Nat \ {0}
      /\ r \in Seq(Byte) /\ Len(r) = Len(s) - 1
      /\ \A i \in 1..Len(r) : r[i] = s[i + 1]
      /\ h = s[1]
  BY HeadTailProperties, EmptySeq DEF Leads
<1>2. h.kind = "number" <=> e
  BY <1>1 DEF Leads, Paired
<1> HIDE DEF r, h
<1>3. ASSUME NEW k \in 1..Len(s), NEW t, At(s, w, k, t) PROVE At(r, v, k - 1, t)
  <2>1. ASSUME NEW j \in 1..(k - 1) PROVE r[j] = s[j + 1]
    BY <1>1
  <2>2. CASE \E m \in 1..k : /\ s[m].kind = "number" /\ s[m].terminal = t
                             /\ \A j \in (m + 1)..k : s[j].kind # "number"
    <3>1. PICK m \in 1..k : /\ s[m].kind = "number" /\ s[m].terminal = t
                            /\ \A j \in (m + 1)..k : s[j].kind # "number"
      BY <2>2
    <3>2. ASSUME NEW j \in m..(k - 1), j >= 1 PROVE r[j].kind # "number"
      BY <1>1, <2>1, <3>1, <3>2
    <3>3. CASE m = 1
      BY <1>1, <1>2, <3>1, <3>2, <3>3 DEF At
    <3>4. CASE m > 1
      <4>1. m - 1 \in 1..(k - 1) /\ r[m - 1] = s[m]
        BY <1>1, <2>1, <3>4
      <4>2. \A j \in ((m - 1) + 1)..(k - 1) : r[j].kind # "number"
        BY <1>1, <3>2, <3>4
      <4> QED BY <3>1, <4>1, <4>2 DEF At
    <3> QED BY <1>1, <3>3, <3>4
  <2>3. CASE w = t /\ \A j \in 1..k : s[j].kind # "number"
    <3>1. v = t
      BY <1>1, <1>2, <2>3
    <3>2. ASSUME NEW j \in 1..(k - 1) PROVE r[j].kind # "number"
      BY <1>1, <2>1, <2>3
    <3> QED BY <3>1, <3>2 DEF At
  <2> QED BY <1>3, <2>2, <2>3 DEF At
<1>4. Paired(r, h.kind = "0xFF")
  <2>1. ASSUME NEW k \in 1..Len(r)
        PROVE  r[k].kind = "number"
                 <=> IF k = 1 THEN h.kind = "0xFF" ELSE r[k - 1].kind = "0xFF"
    <3>1. /\ k + 1 \in 1..Len(s) /\ k + 1 # 1 /\ (k + 1) - 1 = k
          /\ r[k] = s[k + 1]
          /\ k # 1 => r[k - 1] = s[k]
      BY <1>1
    <3>2. s[k + 1].kind = "number" <=> s[k].kind = "0xFF"
      BY <3>1 DEF Leads, Paired
    <3> QED BY <1>1, <3>1, <3>2
  <2>2. IF Len(r) = 0 THEN ~(h.kind = "0xFF") ELSE r[Len(r)].kind # "0xFF"
    <3>1. s[Len(s)].kind # "0xFF"
      BY <1>1 DEF Leads, Paired
    <3> QED BY <1>1, <3>1
  <2> QED BY <2>1, <2>2 DEF Paired
<1>5. ASSUME NEW k \in 1..Len(r), r[k].kind = "text"
      PROVE  At(r, v, k, r[k].terminal)
  <2>1. k + 1 \in 1..Len(s) /\ (k + 1) - 1 = k /\ r[k] = s[k + 1]
    BY <1>1
  <2>2. At(s, w, k + 1, s[k + 1].terminal)
    BY <1>5, <2>1 DEF Leads
  <2> HIDE DEF v
  <2> QED BY <1>3, <2>1, <2>2
<1>6. At(r, v, Len(r), a)
  <2>1. Len(s) \in 1..Len(s) /\ At(s, w, Len(s), a)
    BY <1>1 DEF Leads
  <2> HIDE DEF v
  <2> QED BY <1>1, <1>3, <2>1
<1> QED BY <1>1, <1>4, <1>5, <1>6 DEF Leads, r, h

(* At is what ShownAfter computes.                                            *)
LEMMA AtIsShown ==
  ASSUME Coming \in Seq(Byte), NEW k \in 0..Len(Coming), NEW t,
         At(Coming, shown, k, t)
  PROVE  ShownAfter(k) = t
<1> DEFINE numbers == {i \in 1..k : Coming[i].kind = "number"}
<1>1. CASE \E m \in 1..k : /\ Coming[m].kind = "number" /\ Coming[m].terminal = t
                           /\ \A j \in (m + 1)..k : Coming[j].kind # "number"
  <2>1. PICK m \in 1..k : /\ Coming[m].kind = "number" /\ Coming[m].terminal = t
                          /\ \A j \in (m + 1)..k : Coming[j].kind # "number"
    BY <1>1
  <2>2. m \in numbers /\ \A j \in numbers : j <= m
    BY <2>1
  <2>3. ASSUME NEW i \in numbers, \A j \in numbers : j <= i PROVE i = m
    BY <2>2, <2>3
  <2>4. (CHOOSE i \in numbers : \A j \in numbers : j <= i) = m
    BY <2>2, <2>3
  <2>5. numbers # {}
    BY <2>2
  <2> QED BY <2>1, <2>4, <2>5 DEF ShownAfter
<1>2. CASE shown = t /\ \A j \in 1..k : Coming[j].kind # "number"
  BY <1>2 DEF ShownAfter
<1> QED BY <1>1, <1>2 DEF At

(* The bytes on their way lead the host from where it is to the active        *)
(* terminal.  That numbers come in pairs with 0xFF is what makes it           *)
(* inductive: the host may read between the two bytes of a switch.            *)
ShownInv == Leads(Coming, escape, shown, ActiveTerminal)

(* It holds of the empty ring.                                                *)
LEMMA ShownInit == TerminalInit => ShownInv
<1> SUFFICES ASSUME TerminalInit PROVE ShownInv
  OBVIOUS
<1>1. Coming = <<>>
  BY DEF Coming, TerminalInit
<1>2. <<>> \in Seq(Byte) /\ Len(<<>>) = 0
  BY EmptySeq
<1> QED BY <1>1, <1>2 DEF ShownInv, Leads, Paired, At, TerminalInit

(* A call adds bytes that lead from the active terminal to the new one.       *)
LEMMA ShownCall ==
  ASSUME TerminalTypeOK, ShownInv, todo = <<>>, NEW bytes \in Seq(Byte),
         WriteBlocking(bytes) \/ WriteNoCheck(bytes),
         Leads(bytes, FALSE, ActiveTerminal, ActiveTerminal')
  PROVE  ShownInv'
<1>1. Coming = queue
  BY ConcatEmptySeq DEF Coming, TerminalTypeOK
<1>2. Coming' = queue \o bytes
  <2>1. CASE WriteBlocking(bytes)
    BY <2>1 DEF Coming, WriteBlocking
  <2>2. CASE WriteNoCheck(bytes)
    <3>1. queue \o bytes \in Seq(Byte)
      BY ConcatBytes DEF TerminalTypeOK
    <3>2. Coming' = (queue \o bytes) \o <<>>
      BY <2>2 DEF Coming, WriteNoCheck
    <3> QED BY <3>1, <3>2, ConcatEmptySeq
  <2> QED BY <2>1, <2>2
<1>3. shown' = shown /\ escape' = escape
  BY DEF WriteBlocking, WriteNoCheck, hostVars
<1>4. Leads(queue, escape, shown, ActiveTerminal) /\ escape \in BOOLEAN
  BY <1>1 DEF ShownInv, TerminalTypeOK
<1>5. Leads(queue \o bytes, escape, shown, ActiveTerminal')
  BY <1>4, LeadsOn
<1> QED BY <1>2, <1>3, <1>5 DEF ShownInv

(* Every step keeps it: calls add what leads on, the host takes the first     *)
(* byte, and a byte of a blocking write only moves from todo to the ring.     *)
LEMMA ShownStep ==
  FitsInv /\ ShownInv /\ [AnyNext]_terminalVars => ShownInv'
<1> SUFFICES ASSUME FitsInv, ShownInv, [AnyNext]_terminalVars PROVE ShownInv'
  OBVIOUS
<1>t. /\ TerminalTypeOK /\ ActiveTerminal \in Terminals /\ Avail \in Nat
      /\ queue \in Seq(Byte) /\ todo \in Seq(Byte) /\ escape \in BOOLEAN
  BY TerminalAssumption DEF FitsInv, TerminalTypeOK, Avail
<1>n. ASSUME NEW n \in Nat
      PROVE  /\ n \in Nat /\ Shorter(n, Avail) \in Nat
             /\ Avail >= 4 => Shorter(n, Avail - 4) \in Nat
  BY <1>t, TerminalAssumption DEF Shorter
<1>1. ASSUME NEW t \in Terminals, SetTerminal(t) PROVE ShownInv'
  <2>1. Switch(t) \in Seq(Byte) /\ Leads(Switch(t), FALSE, ActiveTerminal, t)
    BY SwitchType, LeadsSwitch
  <2>2. /\ todo = <<>> /\ ActiveTerminal' = t
        /\ WriteBlocking(Switch(t)) \/ WriteNoCheck(Switch(t))
    BY <1>1 DEF SetTerminal
  <2> QED BY <1>t, <2>1, <2>2, ShownCall
<1>2. ASSUME NEW t \in Terminals, NEW n \in 0..MaxText, TerminalOut(t, n)
      PROVE ShownInv'
  <2> DEFINE Output(k) == Switch(t) \o Text(t, k) \o Switch(ActiveTerminal)
  <2>1. ASSUME NEW k \in Nat
        PROVE  /\ Output(k) \in Seq(Byte)
               /\ Leads(Output(k), FALSE, ActiveTerminal, ActiveTerminal)
    <3>1. Leads(Switch(t) \o Text(t, k), FALSE, ActiveTerminal, t)
      BY LeadsSwitch, LeadsText, LeadsOn
    <3>2. Leads(Switch(ActiveTerminal), FALSE, t, ActiveTerminal)
      BY <1>t, LeadsSwitch
    <3>3. Leads(Output(k), FALSE, ActiveTerminal, ActiveTerminal)
      BY <3>1, <3>2, LeadsOn
    <3> QED BY <1>t, <3>3, OutputType
  <2>2. \E k \in Nat : WriteBlocking(Output(k))
    <3>1. n \in Nat
      BY TerminalAssumption
    <3> QED BY <1>2, <1>n, <3>1 DEF TerminalOut
  <2>3. PICK k \in Nat : WriteBlocking(Output(k))
    BY <2>2
  <2>4. todo = <<>> /\ ActiveTerminal' = ActiveTerminal
    BY <1>2 DEF TerminalOut
  <2> HIDE DEF Output
  <2> QED BY <1>t, <2>1, <2>3, <2>4, ShownCall
<1>3. ASSUME NEW n \in Nat, WriteText(n) PROVE ShownInv'
  <2>1. \E k \in Nat : \/ WriteBlocking(Text(ActiveTerminal, k))
                       \/ WriteNoCheck(Text(ActiveTerminal, k))
    BY <1>3, <1>n DEF WriteText
  <2>2. PICK k \in Nat : \/ WriteBlocking(Text(ActiveTerminal, k))
                         \/ WriteNoCheck(Text(ActiveTerminal, k))
    BY <2>1
  <2>3. todo = <<>> /\ ActiveTerminal' = ActiveTerminal
    BY <1>3 DEF WriteText
  <2>4. /\ Text(ActiveTerminal, k) \in Seq(Byte)
        /\ Leads(Text(ActiveTerminal, k), FALSE, ActiveTerminal, ActiveTerminal)
    BY <1>t, TextType, LeadsText
  <2> QED BY <1>t, <2>2, <2>3, <2>4, ShownCall
<1>4. ASSUME NEW mode, SetFlagsUpBuffer(mode) PROVE ShownInv'
  BY <1>4 DEF SetFlagsUpBuffer, ShownInv, Coming, hostVars
<1>5. CASE WriteByte
  <2>1. Append(queue, Head(todo)) \o Tail(todo) = queue \o todo
    <3>1. /\ Head(todo) \in Byte /\ Tail(todo) \in Seq(Byte)
          /\ Len(Tail(todo)) = Len(todo) - 1
          /\ \A i \in 1..Len(Tail(todo)) : Tail(todo)[i] = todo[i + 1]
          /\ Head(todo) = todo[1]
      BY <1>5, <1>t, HeadTailProperties DEF WriteByte
    <3>2. /\ Append(queue, Head(todo)) \in Seq(Byte)
          /\ Len(Append(queue, Head(todo))) = Len(queue) + 1
          /\ \A i \in 1..Len(queue) : Append(queue, Head(todo))[i] = queue[i]
          /\ Append(queue, Head(todo))[Len(queue) + 1] = Head(todo)
      BY <1>t, <3>1, AppendProperties
    <3> DEFINE q == Append(queue, Head(todo))
               u == Tail(todo)
    <3>3. /\ q \in Seq(Byte) /\ u \in Seq(Byte)
          /\ Len(queue) \in Nat /\ Len(todo) \in Nat \ {0}
          /\ Len(q) = Len(queue) + 1 /\ Len(u) = Len(todo) - 1
      BY <1>5, <1>t, <3>1, <3>2, EmptySeq DEF WriteByte
    <3>a. /\ \A i \in 1..Len(queue) : q[i] = queue[i]
          /\ q[Len(queue) + 1] = todo[1]
          /\ \A i \in 1..Len(u) : u[i] = todo[i + 1]
      BY <3>1, <3>2
    <3> HIDE DEF q, u
    <3>4. /\ q \o u \in Seq(Byte) /\ queue \o todo \in Seq(Byte)
          /\ Len(q \o u) = Len(q) + Len(u)
          /\ Len(queue \o todo) = Len(queue) + Len(todo)
      BY <1>t, <3>3, ConcatBytes
    <3>5. ASSUME NEW i \in 1..(Len(queue) + Len(todo))
          PROVE  (q \o u)[i] = (queue \o todo)[i]
      <4>1. (queue \o todo)[i] = IF i <= Len(queue) THEN queue[i]
                                 ELSE todo[i - Len(queue)]
        BY <1>t, ConcatBytes
      <4>2. (q \o u)[i] = IF i <= Len(q) THEN q[i] ELSE u[i - Len(q)]
        BY <3>3, ConcatBytes
      <4>3. CASE i <= Len(queue)
        BY <3>3, <3>a, <4>1, <4>2, <4>3
      <4>4. CASE i = Len(queue) + 1
        BY <3>3, <3>a, <4>1, <4>2, <4>4
      <4>5. CASE i > Len(queue) + 1
        <5>1. i - Len(q) \in 1..Len(u) /\ i - Len(q) + 1 = i - Len(queue)
          BY <3>3, <4>5
        <5>2. u[i - Len(q)] = todo[i - Len(queue)]
          BY <3>a, <5>1
        <5> QED BY <3>3, <4>1, <4>2, <4>5, <5>2
      <4> QED BY <3>3, <4>3, <4>4, <4>5
    <3>6. Len(q \o u) = Len(queue \o todo)
      BY <3>3, <3>4
    <3>7. q \o u = queue \o todo
      BY <3>3, <3>4, <3>5, <3>6, SeqEqual
    <3> QED BY <3>7 DEF q, u
  <2>2. Coming' = Coming
    BY <1>5, <2>1 DEF Coming, WriteByte
  <2> QED BY <1>5, <2>2 DEF ShownInv, WriteByte, hostVars
<1>6. CASE HostReads
  <2>1. Coming # <<>> /\ Head(Coming) = Head(queue) /\ Coming' = Tail(Coming)
    <3> DEFINE q == Tail(queue)
    <3>1. /\ q \in Seq(Byte) /\ Len(q) = Len(queue) - 1
          /\ \A i \in 1..Len(q) : q[i] = queue[i + 1]
          /\ Len(queue) \in Nat \ {0} /\ Len(todo) \in Nat
          /\ Head(queue) = queue[1]
      BY <1>6, <1>t, HeadTailProperties, EmptySeq DEF HostReads
    <3> HIDE DEF q
    <3>2. /\ Coming \in Seq(Byte) /\ Len(Coming) = Len(queue) + Len(todo)
          /\ \A i \in 1..Len(Coming) : Coming[i] =
               IF i <= Len(queue) THEN queue[i] ELSE todo[i - Len(queue)]
      BY <1>t, ConcatBytes DEF Coming
    <3>3. Coming # <<>> /\ Head(Coming) = Coming[1] /\ Coming[1] = queue[1]
      BY <3>1, <3>2
    <3>4. /\ q \o todo \in Seq(Byte) /\ Len(q \o todo) = Len(q) + Len(todo)
          /\ \A i \in 1..(Len(q) + Len(todo)) : (q \o todo)[i] =
               IF i <= Len(q) THEN q[i] ELSE todo[i - Len(q)]
      BY <1>t, <3>1, ConcatBytes
    <3>5. /\ Tail(Coming) \in Seq(Byte) /\ Len(Tail(Coming)) = Len(Coming) - 1
          /\ \A i \in 1..Len(Tail(Coming)) : Tail(Coming)[i] = Coming[i + 1]
      BY <3>2, <3>3, HeadTailProperties
    <3>6. ASSUME NEW i \in 1..(Len(q) + Len(todo))
          PROVE  (q \o todo)[i] = Tail(Coming)[i]
      <4>0. /\ i \in Nat /\ Len(q) \in Nat /\ Len(queue) = Len(q) + 1
            /\ Len(todo) \in Nat
        BY <3>1
      <4>1. Tail(Coming)[i] = IF i + 1 <= Len(queue) THEN queue[i + 1]
                              ELSE todo[(i + 1) - Len(queue)]
        BY <3>1, <3>2, <3>5
      <4>2. CASE i <= Len(q)
        <5>1. (q \o todo)[i] = q[i]
          BY <3>4, <4>2
        <5>2. q[i] = queue[i + 1] /\ i + 1 <= Len(queue)
          BY <3>1, <4>0, <4>2
        <5> QED BY <4>1, <5>1, <5>2
      <4>3. CASE ~(i <= Len(q))
        <5>1. (q \o todo)[i] = todo[i - Len(q)]
          BY <3>4, <4>3
        <5>2. (i + 1) - Len(queue) = i - Len(q) /\ ~(i + 1 <= Len(queue))
          BY <4>0, <4>3
        <5> QED BY <4>1, <5>1, <5>2
      <4> QED BY <4>2, <4>3
    <3>7. Len(q \o todo) = Len(Tail(Coming))
      BY <3>1, <3>2, <3>4, <3>5
    <3>8. q \o todo = Tail(Coming)
      BY <3>4, <3>5, <3>6, <3>7, SeqEqual
    <3>9. Coming' = q \o todo
      BY <1>6 DEF HostReads, Coming, programVars, q
    <3> QED BY <3>1, <3>3, <3>8, <3>9
  <2>2. Leads(Tail(Coming), Head(Coming).kind = "0xFF",
              IF escape THEN Head(Coming).terminal ELSE shown, ActiveTerminal)
    BY <1>t, <2>1, LeadsTail DEF ShownInv
  <2>3. /\ escape' = (Head(queue).kind = "0xFF")
        /\ shown' = IF escape THEN Head(queue).terminal ELSE shown
        /\ ActiveTerminal' = ActiveTerminal
    BY <1>6 DEF HostReads, programVars
  <2> QED BY <2>1, <2>2, <2>3 DEF ShownInv
<1>7. CASE UNCHANGED terminalVars
  BY <1>7 DEF ShownInv, Coming, terminalVars, programVars, hostVars
<1>8. 1..MaxText \subseteq Nat
  OBVIOUS
<1> QED BY <1>1, <1>2, <1>3, <1>4, <1>5, <1>6, <1>7, <1>8
        DEF AnyNext, TerminalNext, TerminalCall

(* So it always holds.                                                        *)
LEMMA ShownAlways == TerminalSpec => [](FitsInv /\ ShownInv)
<1>1. TerminalInit => FitsInv /\ ShownInv
  BY FitsInit, ShownInit
<1>2. FitsInv /\ ShownInv /\ [TerminalNext]_terminalVars => (FitsInv /\ ShownInv)'
  <2>1. [TerminalNext]_terminalVars => [AnyNext]_terminalVars
    BY DEF AnyNext
  <2> QED BY <2>1, FitsStep, ShownStep
<1> QED BY <1>1, <1>2, PTL DEF TerminalSpec

(* What it says of the bytes on their way, as the properties put it.          *)
LEMMA ShownMeans == ShownInv => ShownWhereMeant /\ EndsOnActive
<1>1. ShownInv => ShownWhereMeant
  <2> SUFFICES ASSUME ShownInv, NEW k \in 1..Len(Coming),
                      Coming[k].kind = "text"
               PROVE  Coming[k].terminal = ShownAfter(k)
    BY DEF ShownWhereMeant
  <2>1. Coming \in Seq(Byte) /\ At(Coming, shown, k, Coming[k].terminal)
    BY DEF ShownInv, Leads
  <2>2. k \in 0..Len(Coming)
    OBVIOUS
  <2> QED BY <2>1, <2>2, AtIsShown
<1>2. ShownInv => EndsOnActive
  <2> SUFFICES ASSUME ShownInv PROVE EndsOnActive
    OBVIOUS
  <2>1. /\ Coming \in Seq(Byte)
        /\ At(Coming, shown, Len(Coming), ActiveTerminal)
    BY DEF ShownInv, Leads
  <2>2. Len(Coming) \in 0..Len(Coming)
    BY <2>1
  <2> QED BY <2>1, <2>2, AtIsShown DEF EndsOnActive
<1> QED BY <1>1, <1>2

(* All text is shown on the terminal it was written for (ShownWhereMeant).    *)
THEOREM TextIsShownWhereMeant == TerminalSpec => []ShownWhereMeant
BY ShownMeans, ShownAlways, PTL

(* The host ends on the terminal the program believes it to be on             *)
(* (EndsOnActive; SEGGER_RTT_SetTerminal, SEGGER_RTT_TerminalOut).            *)
THEOREM HostEndsOnActive == TerminalSpec => []EndsOnActive
BY ShownMeans, ShownAlways, PTL

==============================================================================
