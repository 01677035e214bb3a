----------------------------- MODULE RttTerminal -----------------------------
(* The terminals of SEGGER_RTT.c: up buffer 0 carries the text of several     *)
(* terminals.  A switch is the byte 0xFF and the terminal's number; the host  *)
(* shows text on the terminal it was last switched to.  ActiveTerminal is     *)
(* what the program believes that to be.                                      *)
(*                                                                            *)
(* The ring is the queue that RttRing implements.  Calls exclude each other   *)
(* (SEGGER_RTT_LOCK); todo is what the one inside has still to write with     *)
(* _WriteBlocking, which fills in as the host makes room.                     *)
EXTENDS Integers, Sequences

CONSTANTS
  Capacity,               \* the bytes the ring can hold
  Terminals,              \* terminal 0 and others
  MaxText                 \* bound on the length of a text

ASSUME TerminalAssumption ==
  /\ Capacity \in Nat
  /\ 0 \in Terminals /\ Terminals \subseteq Nat
  /\ MaxText \in Nat

VARIABLES
  Flags,
  queue,                  \* the bytes in the ring, oldest first
  todo,
  ActiveTerminal,
  shown,                  \* the terminal the host shows text on
  escape                  \* the host has read 0xFF and waits for the number

programVars == <<Flags, todo, ActiveTerminal>>
hostVars == <<shown, escape>>
terminalVars == <<programVars, queue, hostVars>>

(* A byte of text is known by the terminal it is meant for.                   *)
Byte == [kind : {"0xFF", "number", "text"}, terminal : Terminals]

Escape == [kind |-> "0xFF", terminal |-> 0]
Number(t) == [kind |-> "number", terminal |-> t]
TextByte(t) == [kind |-> "text", terminal |-> t]

Switch(t) == <<Escape, Number(t)>>
Text(t, n) == [k \in 1..n |-> TextByte(t)]

TerminalTypeOK ==
  /\ Flags \in {"NO_BLOCK_SKIP", "NO_BLOCK_TRIM", "BLOCK_IF_FIFO_FULL"}
  /\ queue \in Seq(Byte) /\ Len(queue) <= Capacity
  /\ todo \in Seq(Byte)
  /\ ActiveTerminal \in Terminals
  /\ shown \in Terminals
  /\ escape \in BOOLEAN

TerminalInit ==
  /\ Flags = "NO_BLOCK_SKIP"
  /\ queue = <<>> /\ todo = <<>>
  /\ ActiveTerminal = 0
  /\ shown = 0
  /\ escape = FALSE

------------------------------------------------------------------------------
Blocking == Flags = "BLOCK_IF_FIFO_FULL"
Avail == Capacity - Len(queue)
Shorter(m, n) == IF m < n THEN m ELSE n

(* _WriteBlocking of bytes, and _WriteNoCheck, which has checked the space.   *)
WriteBlocking(bytes) ==
  /\ todo' = bytes
  /\ UNCHANGED <<Flags, queue, hostVars>>

WriteNoCheck(bytes) ==
  /\ queue' = queue \o bytes
  /\ UNCHANGED <<Flags, todo, hostVars>>

(* Mutant: the terminal changes although there is no room for the switch.     *)
MutantActiveFirst(t) ==
  /\ todo = <<>>
  /\ ActiveTerminal' = t
  /\ \/ Blocking /\ WriteBlocking(Switch(t))
     \/ ~Blocking /\ WriteNoCheck(IF Avail >= 2 THEN Switch(t) ELSE <<>>)

(* SEGGER_RTT_SetTerminal; without room it is refused.                        *)
SetTerminal(t) ==
  /\ todo = <<>>
  /\ ActiveTerminal' = t
  /\ \/ Blocking /\ WriteBlocking(Switch(t))
     \/ ~Blocking /\ Avail >= 2 /\ WriteNoCheck(Switch(t))

(* Mutant: room for the text and only one of the two switches is asked for.   *)
MutantOneSwitch(t, n) ==
  LET Output(k) == Switch(t) \o Text(t, k) \o Switch(ActiveTerminal) IN
  /\ todo = <<>>
  /\ \/ Flags = "NO_BLOCK_SKIP" /\ Avail >= n + 2 /\ WriteBlocking(Output(n))
     \/ /\ Flags = "NO_BLOCK_TRIM" /\ Avail >= 2
        /\ WriteBlocking(Output(Shorter(n, Avail - 2)))
     \/ Blocking /\ WriteBlocking(Output(n))
  /\ UNCHANGED ActiveTerminal

(* Mutant: the text goes out, the switch back does not.                       *)
MutantStayThere(t, n) ==
  LET Output(k) == Switch(t) \o Text(t, k) IN
  /\ todo = <<>>
  /\ \/ Flags = "NO_BLOCK_SKIP" /\ Avail >= n + 4 /\ WriteBlocking(Output(n))
     \/ /\ Flags = "NO_BLOCK_TRIM" /\ Avail >= 4
        /\ WriteBlocking(Output(Shorter(n, Avail - 4)))
     \/ Blocking /\ WriteBlocking(Output(n))
  /\ UNCHANGED ActiveTerminal

(* SEGGER_RTT_TerminalOut: there, the text, and back; three blocking writes   *)
(* after one look at the space.                                               *)
TerminalOut(t, n) ==
  LET Output(k) == Switch(t) \o Text(t, k) \o Switch(ActiveTerminal) IN
  /\ todo = <<>>
  /\ \/ Flags = "NO_BLOCK_SKIP" /\ Avail >= n + 4 /\ WriteBlocking(Output(n))
     \/ /\ Flags = "NO_BLOCK_TRIM" /\ Avail >= 4
        /\ WriteBlocking(Output(Shorter(n, Avail - 4)))
     \/ Blocking /\ WriteBlocking(Output(n))
  /\ UNCHANGED ActiveTerminal

(* Mutant: in trim mode the text is not cut to the room there is.             *)
MutantUncut(n) ==
  /\ todo = <<>>
  /\ \/ /\ Flags = "NO_BLOCK_SKIP" /\ n <= Avail
        /\ WriteNoCheck(Text(ActiveTerminal, n))
     \/ /\ Flags = "NO_BLOCK_TRIM" /\ Avail > 0
        /\ WriteNoCheck(Text(ActiveTerminal, n))
     \/ Blocking /\ WriteBlocking(Text(ActiveTerminal, n))
  /\ UNCHANGED ActiveTerminal

(* SEGGER_RTT_Write, for the active terminal.                                 *)
WriteText(n) ==
  /\ todo = <<>>
  /\ \/ /\ Flags = "NO_BLOCK_SKIP" /\ n <= Avail
        /\ WriteNoCheck(Text(ActiveTerminal, n))
     \/ /\ Flags = "NO_BLOCK_TRIM"
        /\ WriteNoCheck(Text(ActiveTerminal, Shorter(n, Avail)))
     \/ Blocking /\ WriteBlocking(Text(ActiveTerminal, n))
  /\ UNCHANGED ActiveTerminal

(* A byte of _WriteBlocking; it waits while the ring is full.                 *)
WriteByte ==
  /\ todo # <<>>
  /\ Avail > 0
  /\ queue' = Append(queue, Head(todo))
  /\ todo' = Tail(todo)
  /\ UNCHANGED <<Flags, ActiveTerminal, hostVars>>

SetFlagsUpBuffer(mode) ==
  /\ todo = <<>>
  /\ Flags' = mode
  /\ UNCHANGED <<todo, ActiveTerminal, queue, hostVars>>

(* The host takes a byte and shows it, or does what it says.                  *)
HostReads ==
  /\ queue # <<>>
  /\ queue' = Tail(queue)
  /\ escape' = (Head(queue).kind = "0xFF")
  /\ shown' = IF escape THEN Head(queue).terminal ELSE shown
  /\ UNCHANGED programVars

TerminalCall ==
  \/ \E t \in Terminals : SetTerminal(t)
  \/ \E t \in Terminals, n \in 0..MaxText : TerminalOut(t, n)
  \/ \E n \in 1..MaxText : WriteText(n)
  \/ \E mode \in {"NO_BLOCK_SKIP", "NO_BLOCK_TRIM", "BLOCK_IF_FIFO_FULL"} :
       SetFlagsUpBuffer(mode)

TerminalNext == TerminalCall \/ WriteByte \/ HostReads

(* The terminals alone, without printf.                                       *)
TerminalSpec == TerminalInit /\ [][TerminalNext]_terminalVars

------------------------------------------------------------------------------
(* The bytes on their way, and where the host will be after the first k.      *)
Coming == queue \o todo

ShownAfter(k) ==
  LET numbers == {i \in 1..k : Coming[i].kind = "number"} IN
  IF numbers = {} THEN shown
  ELSE Coming[CHOOSE i \in numbers : \A j \in numbers : j <= i].terminal

(* Every byte of text is shown on the terminal it was written for, however    *)
(* calls were refused or trimmed for lack of space (SEGGER_RTT_SetTerminal,   *)
(* SEGGER_RTT_TerminalOut).                                                   *)
ShownWhereMeant ==
  \A k \in 1..Len(Coming) :
    Coming[k].kind = "text" => Coming[k].terminal = ShownAfter(k)

(* "... without changing the terminal for channel 0": when all has been read  *)
(* the host is on the terminal the program believes it to be on, also while   *)
(* a call is inside (SEGGER_RTT_TerminalOut).                                 *)
EndsOnActive == ShownAfter(Len(Coming)) = ActiveTerminal

(* A call waits for the host only in blocking mode: else what it decided to   *)
(* write fits, with both switches.  It would wait with interrupts locked.     *)
NeverWaits == ~Blocking => Len(Coming) <= Capacity

==============================================================================
